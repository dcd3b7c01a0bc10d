---------------------------- MODULE EditsProofs ----------------------------
(***************************************************************************)
(* Theorems about the parts of MCEdits.                                    *)
(*                                                                         *)
(* Polls, for any members, edits and requests: an edit of the options has  *)
(* missed every vote there is (MissedInv), since there was none when it    *)
(* read the poll; who has been shown a tally has voted or is excused       *)
(* (ShownInv); and once a poll is closed, votes only move from those under *)
(* way to those that were late (LateInv).                                  *)
(*                                                                         *)
(* The pages that put back one row, for any rows, values and edits: a      *)
(* request that nothing has clouded has its row to itself (ClearInv), and  *)
(* a list on its way is what is saved, but for the rows that were touched  *)
(* since the server sent it (ReloadInv).                                   *)
(*                                                                         *)
(* The store, for any sections, pages, loads and changes: what a page      *)
(* lacks or has to renew is on its way in the latest load unless it failed *)
(* or was overrun (RouteInv, ResyncInv), and an answer to that load is no  *)
(* older than what it replaces (AnswersInv).                               *)
(***************************************************************************)
EXTENDS MCEdits, Sequences, FiniteSetTheorems, TLAPS

-----------------------------------------------------------------------------
(* Polls *)

Steps == {"idle", "voting", "editing", "swapping"}
JobsType == pc \in [Workers -> Steps] /\ job \in [Workers -> Job]

LEMMA NullJobType ==
  /\ NoJob \in Job
  /\ NoJob.newOptions = FALSE /\ NoJob.options = {} /\ NoJob.missed = {}
BY DEF NoJob, Job

\* A step of w leaves the other requests alone.
LEMMA Moves ==
  ASSUME JobsType, NEW w \in Workers, NEW step \in Steps, NEW j \in Job, Go(w, step, j)
  PROVE  /\ JobsType'
         /\ pc'[w] = step /\ job'[w] = j
         /\ \A v \in Workers \ {w} : pc'[v] = pc[v] /\ job'[v] = job[v]
BY DEF JobsType, Go

LEMMA Finishes ==
  ASSUME JobsType, NEW w \in Workers, Finish(w)
  PROVE  /\ JobsType'
         /\ pc'[w] = "idle" /\ job'[w] = NoJob
         /\ \A v \in Workers \ {w} : pc'[v] = pc[v] /\ job'[v] = job[v]
BY Moves, NullJobType DEF Finish, Steps

\* What an edit comes to is a set of targets, or nothing about them.
LEMMA TargetedType ==
  ASSUME TypeOK, NEW edit \in Edit
  PROVE  Targeted(edit) \in {Keep} \cup SUBSET Targets
<1>1. \A a \in poll.assigned : a[1] \in Targets
  BY DEF TypeOK, PollRow, Assignment
<1>2. edit.members = Keep \/ edit.members \subseteq Members
  BY DEF Edit
<1> QED
  BY <1>1, <1>2 DEF Targeted, Targets

\* The job of an edit, and of a vote.
LEMMA EditJob ==
  ASSUME TypeOK, NEW w \in Workers, NEW edit \in Edit, UpdatePoll(w, edit)
  PROVE  /\ job'[w] \in Job
         /\ job'[w].id = poll.id /\ job'[w].newOptions = edit.options
         /\ job'[w].options = {}
         /\ Go(w, "editing", job'[w])
<1>1. Changed(edit.status) \in {Keep, "open", "closed"}
  BY DEF Changed, Edit
<1>2. poll.id \in Lists \cup {0}
  BY DEF TypeOK, PollRow
<1>3. edit.options \in BOOLEAN
  BY DEF Edit
<1> DEFINE j == [NoJob EXCEPT !.id = poll.id, !.newOptions = edit.options,
                              !.status = Changed(edit.status),
                              !.targets = Targeted(edit)]
<1>4. j \in Job /\ j.id = poll.id /\ j.newOptions = edit.options /\ j.options = {}
  BY <1>1, <1>2, <1>3, TargetedType DEF UpdatePoll, NoJob, Job
<1>5. Go(w, "editing", j)
  BY DEF UpdatePoll
<1>6. job'[w] = j
  BY <1>5 DEF Go, TypeOK
<1> QED
  BY <1>4, <1>5, <1>6

LEMMA VoteJob ==
  ASSUME TypeOK, NEW w \in Workers, NEW m \in Members, NEW option \in Lists,
         StartVote(w, m, option)
  PROVE  /\ job'[w] \in Job
         /\ ~job'[w].newOptions /\ job'[w].options = {}
         /\ Go(w, "voting", job'[w])
<1> DEFINE j == [NoJob EXCEPT !.id = poll.id, !.who = m, !.option = option]
<1>1. poll.id \in Lists \cup {0}
  BY DEF TypeOK, PollRow
<1>2. j \in Job /\ ~j.newOptions /\ j.options = {}
  BY <1>1 DEF NoJob, Job
<1>3. Go(w, "voting", j)
  BY DEF StartVote
<1>4. job'[w] = j
  BY <1>3 DEF Go, TypeOK
<1> QED
  BY <1>2, <1>3, <1>4

LEMMA SwapJob ==
  ASSUME TypeOK, NEW w \in Workers, Swap(w)
  PROVE  /\ job'[w] \in Job
         /\ job'[w].id = job[w].id /\ job'[w].newOptions = job[w].newOptions
         /\ job'[w].missed = job[w].missed
         /\ job'[w].options = IF job[w].newOptions THEN poll.options ELSE {}
         /\ Go(w, "swapping", job'[w])
<1> DEFINE j == [job[w] EXCEPT
                   !.options = IF job[w].newOptions THEN poll.options ELSE {},
                   !.assigned = IF job[w].targets # Keep THEN poll.assigned ELSE {}]
<1>1. job[w] \in Job /\ poll.options \subseteq Lists /\ poll.assigned \subseteq Assignment
  BY DEF TypeOK, PollRow
<1>2. /\ j \in Job /\ j.id = job[w].id /\ j.newOptions = job[w].newOptions
      /\ j.missed = job[w].missed
      /\ j.options = IF job[w].newOptions THEN poll.options ELSE {}
  BY <1>1 DEF Job
<1>3. Go(w, "swapping", j)
  BY DEF Swap
<1>4. job'[w] = j
  BY <1>3 DEF Go, TypeOK
<1> QED
  BY <1>2, <1>3, <1>4

-----------------------------------------------------------------------------
(* Initially *)

LEMMA InitInv == Init => IInv
<1> SUFFICES ASSUME Init PROVE IInv
  OBVIOUS
<1>1. TypeOK
  BY NullJobType DEF Init, TypeOK, NoVotes, NoPoll, PollRow
<1>2. IdInv /\ JobsInv /\ MissedInv
  BY NullJobType DEF Init, IdInv, JobsInv, MissedInv, Exists, ThereIsOne, NoPoll
<1>3. ShownInv /\ LateInv
  BY DEF Init, ShownInv, LateInv, ThereIsOne, NoPoll
<1> QED
  BY <1>1, <1>2, <1>3 DEF IInv

-----------------------------------------------------------------------------
(* Every step keeps the types *)


\* A vote is noted by the edits of options that are under way.
LEMMA CastJobs ==
  ASSUME TypeOK, JobsInv, NEW w \in Workers, CastVote(w)
  PROVE  /\ JobsType' /\ job[w].who \in Members
         /\ pc'[w] = "idle" /\ job'[w] = NoJob
         /\ \A v \in Workers \ {w} :
              /\ pc'[v] = pc[v]
              /\ job'[v].who = job[v].who
              /\ job'[v].id = job[v].id /\ job'[v].newOptions = job[v].newOptions
              /\ job'[v].options = job[v].options
              /\ job[v].missed \subseteq job'[v].missed
              /\ job[v].newOptions => job[w].who \in job'[v].missed
<1>1. \A v \in Workers : job[v] \in Job
  BY DEF TypeOK
<1>2. job[w].who \in Members
  BY DEF CastVote, JobsInv
<1>3. ASSUME NEW v \in Workers, NEW m \in Members
      PROVE  [job[v] EXCEPT !.missed = @ \cup {m}] \in Job
  BY <1>1 DEF Job
<1>4. job' = [v \in Workers |->
                IF v = w THEN NoJob
                ELSE IF job[v].newOptions
                THEN [job[v] EXCEPT !.missed = @ \cup {job[w].who}]
                ELSE job[v]]
  BY DEF CastVote
<1>5. pc' = [pc EXCEPT ![w] = "idle"] /\ pc \in [Workers -> Steps]
  BY DEF CastVote, TypeOK, Steps
<1>6. job' \in [Workers -> Job] /\ job'[w] = NoJob
  BY <1>1, <1>2, <1>3, <1>4, NullJobType
<1>7. JobsType' /\ pc'[w] = "idle" /\ \A v \in Workers \ {w} : pc'[v] = pc[v]
  BY <1>5, <1>6 DEF JobsType, Steps
<1>8. ASSUME NEW v \in Workers \ {w}
      PROVE  /\ job'[v].who = job[v].who
             /\ job'[v].id = job[v].id /\ job'[v].newOptions = job[v].newOptions
             /\ job'[v].options = job[v].options
             /\ job[v].missed \subseteq job'[v].missed
             /\ job[v].newOptions => job[w].who \in job'[v].missed
  BY <1>1, <1>4 DEF Job
<1> QED
  BY <1>2, <1>6, <1>7, <1>8

LEMMA CommitTypes ==
  ASSUME TypeOK, NEW w \in Workers, CommitEdit(w)
  PROVE  /\ used' \in Nat /\ used <= used' /\ used' \in Lists
         /\ poll' \in PollRow /\ poll'.id = poll.id
         /\ poll.options \ job[w].options \subseteq poll'.options
         /\ vote' \in [Members -> Lists \cup {0}]
         /\ \A m \in Members : vote'[m] # 0 =>
              vote'[m] = vote[m] /\ vote[m] \notin job[w].options
         /\ lapsed' \subseteq Members
<1>1. job[w] \in Job /\ poll \in PollRow /\ used \in Nat
  BY DEF TypeOK
<1>2. /\ used' = (IF job[w].newOptions \/ job[w].targets # Keep THEN used + 1 ELSE used)
      /\ used' \in Lists
  BY DEF CommitEdit
<1>3. used' \in Nat /\ used <= used' /\ used' \in Lists
  BY <1>1, <1>2
<1>4. Written(job[w].status) \in BOOLEAN
  BY <1>1 DEF Written, PollRow, Job
<1> DEFINE j == job[w]
           options == (poll.options \ j.options) \cup (IF j.newOptions THEN {used'} ELSE {})
           assigned == (poll.assigned \ j.assigned)
                         \cup (IF j.targets = Keep THEN {} ELSE j.targets \X {used'})
<1>6. options \subseteq Lists /\ assigned \subseteq Assignment
  BY <1>1, <1>3 DEF Assignment, PollRow, Job
<1>7. poll' = [poll EXCEPT !.open = Written(j.status), !.options = options,
                           !.assigned = assigned]
  BY DEF CommitEdit
<1>8. /\ poll' \in PollRow /\ poll'.id = poll.id /\ poll'.options = options
  BY <1>1, <1>4, <1>6, <1>7 DEF PollRow
<1> QED
  BY <1>3, <1>8 DEF CommitEdit, TypeOK

\* What the rows of a poll may become in a step, in every action.
LEMMA TypeStep ==
  ASSUME IInv, Next
  PROVE  TypeOK'
<1> USE DEF IInv
<1>1. poll \in PollRow /\ vote \in [Members -> Lists \cup {0}] /\ used \in Nat
  BY DEF TypeOK
<1>2. JobsType
  BY DEF TypeOK, JobsType, Steps
<1>4. ASSUME JobsType', poll' \in PollRow, vote' \in [Members -> Lists \cup {0}],
             \A m \in Members : vote'[m] # 0 => vote'[m] \in poll'.options,
             ThereIsOne' \/ poll' = NoPoll,
             used' \in Nat, shown' \subseteq Members, closedOnce' \in BOOLEAN,
             lapsed' \subseteq Members, late' \in Nat
      PROVE  TypeOK'
  BY <1>4 DEF TypeOK, JobsType, Steps
<1>5. ASSUME NEW targets \in Ballots, CreatePoll(targets)
      PROVE  TypeOK'
  <2>1. poll' \in PollRow /\ ThereIsOne'
    BY <1>1, <1>5 DEF CreatePoll, PollRow, Assignment, ThereIsOne, Lists
  <2>2. \A m \in Members : vote[m] = 0
    BY <1>5 DEF CreatePoll, TypeOK, NoPoll
  <2> QED
    BY <1>1, <1>2, <1>4, <1>5, <2>1, <2>2 DEF CreatePoll, TypeOK, JobsType, ghosts
<1>6. CASE DeletePoll
  BY <1>1, <1>2, <1>4, <1>6 DEF DeletePoll, NoPoll, NoVotes, PollRow, JobsType
<1>7. ASSUME NEW m \in Members, ListPolls(m)
      PROVE  TypeOK'
  BY <1>1, <1>2, <1>4, <1>7 DEF ListPolls, TypeOK, JobsType, ThereIsOne
<1>8. ASSUME NEW m \in Members, RemoveMember(m)
      PROVE  TypeOK'
  <2>1. poll' \in PollRow /\ poll'.options = poll.options /\ ThereIsOne'
    BY <1>1, <1>8 DEF RemoveMember, PollRow, ThereIsOne
  <2> QED
    BY <1>1, <1>2, <1>4, <1>8, <2>1 DEF RemoveMember, TypeOK, JobsType
<1>9. ASSUME NEW status \in {"open", "closed"}, SetStatus(status)
      PROVE  TypeOK'
  <2>1. Written(status) \in BOOLEAN
    BY <1>1 DEF Written, PollRow
  <2>2. poll' \in PollRow /\ poll'.options = poll.options /\ ThereIsOne'
    BY <1>1, <1>9, <2>1 DEF SetStatus, PollRow, ThereIsOne
  <2> QED
    BY <1>1, <1>2, <1>4, <1>9, <2>1, <2>2 DEF SetStatus, Note, TypeOK, JobsType
<1>10. ASSUME NEW w \in Workers, NEW m \in Members, NEW option \in Lists,
              StartVote(w, m, option)
       PROVE  TypeOK'
  <2>1. JobsType'
    BY <1>2, <1>10, VoteJob, Moves DEF Steps
  <2> QED
    BY <1>1, <1>4, <1>10, <2>1 DEF StartVote, TypeOK, ghosts, ThereIsOne
<1>11. ASSUME NEW w \in Workers, CastVote(w)
       PROVE  TypeOK'
  <2>1. JobsType' /\ job[w].who \in Members
    BY <1>11, CastJobs
  <2>2. job[w].option \in poll.options /\ poll.options \subseteq Lists
    BY <1>1, <1>11 DEF CastVote, PollRow
  <2>3. /\ vote' \in [Members -> Lists \cup {0}]
        /\ \A m \in Members : vote'[m] # 0 => vote'[m] \in poll.options
    BY <1>1, <1>11, <2>1, <2>2 DEF CastVote, TypeOK
  <2> QED
    BY <1>1, <1>4, <1>11, <2>1, <2>3 DEF CastVote, TypeOK, ThereIsOne
<1>12. ASSUME NEW w \in Workers, NEW edit \in Edits, UpdatePoll(w, edit)
       PROVE  TypeOK'
  <2>1. JobsType'
    BY <1>2, <1>12, EditJob, Moves DEF Steps, UpdatePoll
  <2> QED
    BY <1>1, <1>4, <1>12, <2>1 DEF UpdatePoll, TypeOK, ghosts, ThereIsOne
<1>13. ASSUME NEW w \in Workers, Swap(w)
       PROVE  TypeOK'
  <2>1. JobsType'
    BY <1>2, <1>13, SwapJob, Moves DEF Steps
  <2> QED
    BY <1>1, <1>4, <1>13, <2>1 DEF Swap, TypeOK, ghosts, ThereIsOne
<1>14. ASSUME NEW w \in Workers, CommitEdit(w)
       PROVE  TypeOK'
  <2>1. JobsType'
    BY <1>2, <1>14, Finishes DEF CommitEdit
  <2>2. closedOnce' \in BOOLEAN /\ late' \in Nat /\ shown' \subseteq Members
    BY <1>14 DEF CommitEdit, Note, TypeOK
  <2>3. \A m \in Members : vote'[m] # 0 => vote'[m] \in poll'.options
    BY <1>14, CommitTypes DEF TypeOK
  <2> QED
    BY <1>4, <1>14, <2>1, <2>2, <2>3, CommitTypes DEF CommitEdit, Exists, ThereIsOne
<1>15. ASSUME NEW w \in Workers, Abort(w)
       PROVE  TypeOK'
  <2>1. JobsType'
    BY <1>2, <1>15, Finishes DEF Abort
  <2> QED
    BY <1>1, <1>4, <1>15, <2>1 DEF Abort, TypeOK, ghosts, ThereIsOne
<1> QED
  BY <1>5, <1>6, <1>7, <1>8, <1>9, <1>10, <1>11, <1>12, <1>13, <1>14, <1>15 DEF Next

-----------------------------------------------------------------------------
(* What requests know, and what they have missed *)

\* A step in which no request learns anything but the number of its rows.
LEMMA SameJobs ==
  ASSUME IInv, used' >= used, used' \in Nat,
         \A v \in Workers :
           \/ pc'[v] = "idle" /\ job'[v] = NoJob
           \/ /\ pc'[v] = "voting" => pc[v] = "voting"
              /\ job'[v].who = job[v].who /\ job'[v].id = job[v].id
              /\ job'[v].newOptions = job[v].newOptions
              /\ job'[v].options = job[v].options
  PROVE  JobsInv'
BY NullJobType DEF IInv, JobsInv, TypeOK

\* A step in which no vote is added, and no poll.
LEMMA SameVotes ==
  ASSUME IInv, poll'.id = poll.id, \A m \in Members : vote'[m] \in {vote[m], 0},
         \A v \in Workers :
           \/ ~job'[v].newOptions
           \/ /\ job'[v].id = job[v].id /\ job'[v].newOptions = job[v].newOptions
              /\ job[v].missed \subseteq job'[v].missed
  PROVE  MissedInv'
BY DEF IInv, MissedInv, Exists, ThereIsOne

LEMMA KnowledgeStep ==
  ASSUME IInv, Next
  PROVE  JobsInv' /\ MissedInv'
<1>1. JobsType /\ used \in Nat
  BY DEF IInv, TypeOK, JobsType, Steps
<1>2. ASSUME NEW targets \in Ballots, CreatePoll(targets)
      PROVE  JobsInv' /\ MissedInv'
  <2>1. JobsInv'
    BY <1>1, <1>2, SameJobs DEF CreatePoll
  <2>2. \A w \in Workers : job[w].newOptions => job[w].id # poll'.id
    BY <1>1, <1>2 DEF CreatePoll, IInv, JobsInv
  <2> QED
    BY <1>2, <2>1, <2>2 DEF CreatePoll, MissedInv, Exists
<1>3. CASE DeletePoll
  <2>1. JobsInv'
    BY <1>1, <1>3, SameJobs DEF DeletePoll
  <2> QED
    BY <1>3, <2>1 DEF DeletePoll, MissedInv, Exists, ThereIsOne, NoPoll
<1>4. ASSUME NEW m \in Members, ListPolls(m) \/ RemoveMember(m)
      PROVE  JobsInv' /\ MissedInv'
  <2>1. /\ poll'.id = poll.id /\ used' = used /\ pc' = pc /\ job' = job
        /\ \A n \in Members : vote'[n] \in {vote[n], 0}
    BY <1>4 DEF ListPolls, RemoveMember, IInv, TypeOK, PollRow
  <2> QED
    BY <1>1, <2>1, SameJobs, SameVotes
<1>5. ASSUME NEW status \in {"open", "closed"}, SetStatus(status)
      PROVE  JobsInv' /\ MissedInv'
  <2>1. poll'.id = poll.id /\ used' = used /\ pc' = pc /\ job' = job /\ vote' = vote
    BY <1>5 DEF SetStatus, IInv, TypeOK, PollRow
  <2> QED
    BY <1>1, <2>1, SameJobs, SameVotes
<1>6. ASSUME NEW w \in Workers, NEW m \in Members, NEW option \in Lists,
             StartVote(w, m, option)
      PROVE  JobsInv' /\ MissedInv'
  <2>1. /\ pc'[w] = "voting" /\ ~job'[w].newOptions /\ job'[w].options = {}
        /\ \A v \in Workers \ {w} : pc'[v] = pc[v] /\ job'[v] = job[v]
    BY <1>1, <1>6, VoteJob, Moves DEF IInv, Steps
  <2>2. job'[w].who = m
    BY <1>1, <1>6 DEF StartVote, Go, JobsType, NoJob
  <2>3. JobsInv'
    BY <1>6, <2>1, <2>2 DEF StartVote, IInv, JobsInv
  <2> QED
    BY <1>6, <2>1, <2>3, SameVotes DEF StartVote
<1>7. ASSUME NEW w \in Workers, CastVote(w)
      PROVE  JobsInv' /\ MissedInv'
  <2>1. JobsInv'
    <3>1. /\ pc'[w] = "idle" /\ job'[w] = NoJob
          /\ \A v \in Workers \ {w} :
               /\ pc'[v] = pc[v]
               /\ job'[v].who = job[v].who /\ job'[v].id = job[v].id
               /\ job'[v].newOptions = job[v].newOptions
               /\ job'[v].options = job[v].options
      BY <1>7, CastJobs DEF IInv
    <3>2. used' = used
      BY <1>7 DEF CastVote
    <3> QED
      BY <1>1, <3>1, <3>2, SameJobs
  <2>2. ASSUME NEW v \in Workers, Exists(v)', job'[v].newOptions,
               NEW m \in Members, vote'[m] # 0
        PROVE  m \in job'[v].missed
    <3>1. v # w
      BY <1>7, <2>2, CastJobs, NullJobType DEF IInv
    <3>2. /\ Exists(v) /\ job[v].newOptions /\ job[v].missed \subseteq job'[v].missed
          /\ job[w].who \in job'[v].missed
      BY <1>7, <2>2, <3>1, CastJobs DEF IInv, Exists, ThereIsOne, CastVote
    <3>3. m = job[w].who \/ vote[m] # 0
      BY <1>7, <2>2 DEF CastVote, IInv, TypeOK
    <3> QED
      BY <3>2, <3>3 DEF IInv, MissedInv
  <2> QED
    BY <2>1, <2>2 DEF MissedInv
<1>8. ASSUME NEW w \in Workers, NEW edit \in Edits, UpdatePoll(w, edit)
      PROVE  JobsInv' /\ MissedInv'
  <2>1. /\ pc'[w] = "editing" /\ job'[w].id = poll.id
        /\ job'[w].newOptions = edit.options /\ job'[w].options = {}
        /\ \A v \in Workers \ {w} : pc'[v] = pc[v] /\ job'[v] = job[v]
    BY <1>1, <1>8, EditJob, Moves DEF IInv, Steps, UpdatePoll
  <2>2. poll.id \in 1..used
    BY <1>1, <1>8 DEF UpdatePoll, ThereIsOne, IInv, IdInv, TypeOK, PollRow, Lists
  <2>3. JobsInv'
    BY <1>8, <2>1, <2>2 DEF UpdatePoll, IInv, JobsInv
  <2>4. edit.options => \A m \in Members : vote[m] = 0
    BY <1>8 DEF UpdatePoll, Permitted, NoVotes
  <2> QED
    BY <1>8, <2>1, <2>3, <2>4 DEF UpdatePoll, IInv, MissedInv, Exists, ThereIsOne
<1>9. ASSUME NEW w \in Workers, Swap(w)
      PROVE  JobsInv' /\ MissedInv'
  <2>1. /\ pc'[w] = "swapping" /\ job'[w].id = job[w].id
        /\ job'[w].newOptions = job[w].newOptions /\ job'[w].missed = job[w].missed
        /\ job'[w].options # {} => job'[w].newOptions
        /\ \A v \in Workers \ {w} : pc'[v] = pc[v] /\ job'[v] = job[v]
    BY <1>1, <1>9, SwapJob, Moves DEF IInv, Steps
  <2>2. JobsInv'
    BY <1>9, <2>1 DEF Swap, IInv, JobsInv
  <2> QED
    BY <1>9, <2>1, <2>2, SameVotes DEF Swap
<1>10. ASSUME NEW w \in Workers, CommitEdit(w)
       PROVE  JobsInv' /\ MissedInv'
  <2>1. /\ pc'[w] = "idle" /\ job'[w] = NoJob
        /\ \A v \in Workers \ {w} : pc'[v] = pc[v] /\ job'[v] = job[v]
    BY <1>1, <1>10, Finishes DEF CommitEdit
  <2>2. /\ poll'.id = poll.id /\ used' \in Nat /\ used' >= used
        /\ \A m \in Members : vote'[m] \in {vote[m], 0}
    BY <1>1, <1>10, CommitTypes DEF IInv
  <2> QED
    BY <2>1, <2>2, SameJobs, SameVotes, NullJobType
<1>11. ASSUME NEW w \in Workers, Abort(w)
       PROVE  JobsInv' /\ MissedInv'
  <2>1. /\ pc'[w] = "idle" /\ job'[w] = NoJob
        /\ \A v \in Workers \ {w} : pc'[v] = pc[v] /\ job'[v] = job[v]
    BY <1>1, <1>11, Finishes DEF Abort
  <2> QED
    BY <1>1, <1>11, <2>1, SameJobs, SameVotes, NullJobType DEF Abort
<1> QED
  BY <1>2, <1>3, <1>4, <1>5, <1>6, <1>7, <1>8, <1>9, <1>10, <1>11 DEF Next

-----------------------------------------------------------------------------
(* Who was shown the tally *)

LEMMA ShownStep ==
  ASSUME IInv, Next
  PROVE  IdInv' /\ ShownInv'
<1> USE DEF IInv
<1>1. poll \in PollRow /\ used \in Nat /\ vote \in [Members -> Lists \cup {0}]
  BY DEF TypeOK
<1>2. ASSUME NEW targets \in Ballots, CreatePoll(targets)
      PROVE  IdInv' /\ ShownInv'
  BY <1>2 DEF CreatePoll, IdInv, ShownInv, ThereIsOne, ghosts
<1>3. CASE DeletePoll
  BY <1>1, <1>3 DEF DeletePoll, IdInv, ShownInv, NoPoll, ThereIsOne
<1>4. ASSUME NEW m \in Members, ListPolls(m)
      PROVE  IdInv' /\ ShownInv'
  BY <1>4 DEF ListPolls, Revealed, IdInv, ShownInv, ThereIsOne
<1>5. ASSUME NEW m \in Members, RemoveMember(m)
      PROVE  IdInv' /\ ShownInv'
  BY <1>1, <1>5 DEF RemoveMember, IdInv, ShownInv, ThereIsOne, PollRow
<1>6. ASSUME NEW status \in {"open", "closed"}, SetStatus(status)
      PROVE  IdInv' /\ ShownInv'
  <2>1. poll'.id = poll.id /\ poll'.open = Written(status)
    BY <1>1, <1>6 DEF SetStatus, PollRow
  <2> QED
    BY <1>6, <2>1 DEF SetStatus, Note, IdInv, ShownInv, ThereIsOne
<1>7. ASSUME NEW w \in Workers, CastVote(w)
      PROVE  IdInv' /\ ShownInv'
  <2>1. job[w].option \in poll.options /\ 0 \notin poll.options
    BY <1>1, <1>7 DEF CastVote, PollRow, Lists
  <2> QED
    BY <1>1, <1>7, <2>1 DEF CastVote, IdInv, ShownInv, ThereIsOne
<1>8. ASSUME NEW w \in Workers, CommitEdit(w)
      PROVE  IdInv' /\ ShownInv'
  <2>1. poll'.id = poll.id /\ poll'.open = Written(job[w].status) /\ used' >= used
    BY <1>1, <1>8, CommitTypes DEF CommitEdit, PollRow
  <2>2. \A m \in shown : vote[m] # 0 => vote'[m] # 0 \/ m \in lapsed'
    BY <1>8 DEF CommitEdit, TypeOK
  <2>3. /\ shown' = shown /\ lapsed \subseteq lapsed' /\ ThereIsOne
        /\ closedOnce' = (closedOnce \/ ~Written(job[w].status))
    BY <1>8 DEF CommitEdit, Note, Exists
  <2>4. IdInv'
    BY <1>1, <1>8, <2>1, CommitTypes DEF IdInv, PollRow, Lists
  <2> QED
    BY <2>1, <2>2, <2>3, <2>4 DEF ShownInv, ThereIsOne
<1>9. CASE UNCHANGED <<poll, vote, used, ghosts>>
  BY <1>9 DEF IdInv, ShownInv, ThereIsOne, ghosts
<1> QED
  BY <1>2, <1>3, <1>4, <1>5, <1>6, <1>7, <1>8, <1>9
  DEF Next, StartVote, UpdatePoll, Swap, Abort

-----------------------------------------------------------------------------
(* Votes that come in late *)

LEMMA VotingFinite ==
  ASSUME IsFiniteSet(Workers)
  PROVE  /\ IsFiniteSet(Voting) /\ IsFiniteSet(Voting')
         /\ Cardinality(Workers) \in Nat
         /\ Cardinality(Voting) \in Nat /\ Cardinality(Voting) <= Cardinality(Workers)
         /\ Cardinality(Voting') \in Nat /\ Cardinality(Voting') <= Cardinality(Workers)
<1>1. Voting \subseteq Workers /\ Voting' \subseteq Workers
  BY DEF Voting
<1> QED
  BY <1>1, FS_Subset, FS_CardinalityType

\* Nobody begins to vote, and the poll is not closed.
LEMMA NobodyBegins ==
  ASSUME IInv, IsFiniteSet(Workers), Voting' \subseteq Voting, late' = late,
         ThereIsOne' /\ ~poll'.open => ThereIsOne /\ ~poll.open
  PROVE  LateInv'
<1>1. Cardinality(Voting') <= Cardinality(Voting)
  BY VotingFinite, FS_Subset
<1>2. late \in Nat
  BY DEF IInv, TypeOK
<1> QED
  BY <1>1, <1>2, VotingFinite DEF IInv, LateInv, ThereIsOne

\* A status is written: on closing, nobody is late yet.
LEMMA StatusWritten ==
  ASSUME IInv, IsFiniteSet(Workers), ThereIsOne, NEW open \in BOOLEAN, Note(open),
         poll'.open = open, Voting' \subseteq Voting
  PROVE  LateInv'
<1>1. CASE poll.open /\ ~open
  BY <1>1, VotingFinite DEF Note, LateInv, ThereIsOne
<1>2. CASE ~(poll.open /\ ~open)
  <2>1. late' = late
    BY <1>2 DEF Note
  <2> QED
    BY <1>2, <2>1, NobodyBegins
<1> QED
  BY <1>1, <1>2

LEMMA LateStep ==
  ASSUME IInv, Next, IsFiniteSet(Workers)
  PROVE  LateInv'
<1>1. JobsType /\ poll \in PollRow /\ late \in Nat
  BY DEF IInv, TypeOK, JobsType, Steps
<1>2. ASSUME NEW targets \in Ballots, CreatePoll(targets)
      PROVE  LateInv'
  BY <1>2 DEF CreatePoll, LateInv
<1>3. CASE DeletePoll
  BY <1>3 DEF DeletePoll, LateInv, ThereIsOne, NoPoll
<1>4. ASSUME NEW m \in Members, ListPolls(m) \/ RemoveMember(m)
      PROVE  LateInv'
  <2>1. poll'.id = poll.id /\ poll'.open = poll.open /\ late' = late /\ Voting' = Voting
    BY <1>1, <1>4 DEF ListPolls, RemoveMember, PollRow, Voting
  <2> QED
    BY <2>1, NobodyBegins DEF ThereIsOne
<1>5. ASSUME NEW status \in {"open", "closed"}, SetStatus(status)
      PROVE  LateInv'
  <2>1. /\ poll'.open = Written(status) /\ Written(status) \in BOOLEAN
        /\ Voting' = Voting /\ Note(Written(status)) /\ ThereIsOne
    BY <1>1, <1>5 DEF SetStatus, Written, PollRow, Voting
  <2> QED
    BY <2>1, StatusWritten
<1>6. ASSUME NEW w \in Workers, NEW m \in Members, NEW option \in Lists,
             StartVote(w, m, option)
      PROVE  LateInv'
  BY <1>6 DEF StartVote, MayVote, LateInv
<1>7. ASSUME NEW w \in Workers, CastVote(w)
      PROVE  LateInv'
  <2>1. /\ pc'[w] = "idle" /\ \A v \in Workers \ {w} : pc'[v] = pc[v]
    BY <1>7, CastJobs DEF IInv
  <2>2. w \in Voting /\ Voting' = Voting \ {w}
    BY <1>7, <2>1 DEF CastVote, Voting
  <2>3. Cardinality(Voting') = Cardinality(Voting) - 1
    BY <2>2, VotingFinite, FS_RemoveElement
  <2>4. poll' = poll /\ late' = IF poll.open THEN late ELSE late + 1
    BY <1>7 DEF CastVote
  <2> QED
    BY <1>1, <2>3, <2>4, VotingFinite DEF IInv, LateInv, ThereIsOne
<1>8. ASSUME NEW w \in Workers, NEW edit \in Edits, UpdatePoll(w, edit)
      PROVE  LateInv'
  <2>1. pc'[w] = "editing" /\ \A v \in Workers \ {w} : pc'[v] = pc[v]
    BY <1>1, <1>8 DEF UpdatePoll, Go, JobsType
  <2>2. Voting' \subseteq Voting
    BY <2>1 DEF Voting
  <2> QED
    BY <1>8, <2>2, NobodyBegins DEF UpdatePoll, ThereIsOne, ghosts
<1>9. ASSUME NEW w \in Workers, Swap(w)
      PROVE  LateInv'
  <2>1. pc'[w] = "swapping" /\ \A v \in Workers \ {w} : pc'[v] = pc[v]
    BY <1>1, <1>9 DEF Swap, Go, JobsType
  <2>2. Voting' \subseteq Voting
    BY <2>1 DEF Voting
  <2> QED
    BY <1>9, <2>2, NobodyBegins DEF Swap, ThereIsOne, ghosts
<1>10. ASSUME NEW w \in Workers, CommitEdit(w)
       PROVE  LateInv'
  <2>1. pc'[w] = "idle" /\ \A v \in Workers \ {w} : pc'[v] = pc[v]
    BY <1>1, <1>10, Finishes DEF CommitEdit
  <2>2. Voting' \subseteq Voting
    BY <2>1 DEF Voting
  <2>3. /\ poll'.open = Written(job[w].status) /\ Note(Written(job[w].status))
        /\ ThereIsOne
    BY <1>1, <1>10 DEF CommitEdit, Exists, PollRow
  <2>4. Written(job[w].status) \in BOOLEAN
    BY <1>1 DEF Written, PollRow
  <2> QED
    BY <2>2, <2>3, <2>4, StatusWritten
<1>11. ASSUME NEW w \in Workers, Abort(w)
       PROVE  LateInv'
  <2>1. pc'[w] = "idle" /\ \A v \in Workers \ {w} : pc'[v] = pc[v]
    BY <1>1, <1>11, Finishes DEF Abort
  <2>2. Voting' \subseteq Voting
    BY <2>1 DEF Voting
  <2> QED
    BY <1>11, <2>2, NobodyBegins DEF Abort, ThereIsOne, ghosts
<1> QED
  BY <1>2, <1>3, <1>4, <1>5, <1>6, <1>7, <1>8, <1>9, <1>10, <1>11 DEF Next

-----------------------------------------------------------------------------
(* Theorems *)

LEMMA StutterKeeps == IInv /\ UNCHANGED vars => IInv'
BY DEF IInv, TypeOK, IdInv, JobsInv, MissedInv, ShownInv, LateInv, Voting, Exists,
       ThereIsOne, vars

\* IInv holds in every reachable state, for any finite number of requests of
\* poll-service and any edits.
THEOREM Inductive ==
  ASSUME IsFiniteSet(Workers)
  PROVE  Spec => []IInv
<1>1. IInv /\ [Next]_vars => IInv'
  BY TypeStep, KnowledgeStep, ShownStep, LateStep, StutterKeeps DEF IInv
<1> QED
  BY <1>1, InitInv, PTL DEF Spec

\* Every reachable state is well typed, and every vote is for an option of the poll.
THEOREM TypeCorrect ==
  ASSUME IsFiniteSet(Workers)
  PROVE  Spec => []TypeOK
BY Inductive, PTL DEF IInv

\* castVote: at most one vote of each request comes in after the poll was closed.
THEOREM LateBoundedAlways ==
  ASSUME IsFiniteSet(Workers)
  PROVE  Spec => []LateBounded
<1>1. IInv => LateBounded
  BY VotingFinite DEF IInv, TypeOK, LateInv, LateBounded
<1> QED
  BY <1>1, Inductive, PTL

\* updatePoll: no edit that read the poll after a member had voted takes that vote.
THEOREM TallyStandsAlways ==
  ASSUME IsFiniteSet(Workers)
  PROVE  Spec => TallyStands
<1> DEFINE A(m) ==
      vote[m] # 0 /\ vote'[m] = 0 =>
        DeletePoll \/ RemoveMember(m) \/ \E w \in Workers : CommitEdit(w) /\ m \in job[w].missed
<1>1. ASSUME IInv, Next, NEW m \in Members
      PROVE  A(m)
  <2> SUFFICES ASSUME vote[m] # 0, vote'[m] = 0
               PROVE  A(m)
    OBVIOUS
  <2>1. vote \in [Members -> Lists \cup {0}]
    BY <1>1 DEF IInv, TypeOK
  <2>2. ASSUME NEW n \in Members, RemoveMember(n)
        PROVE  A(m)
    BY <2>1, <2>2 DEF RemoveMember
  <2>3. ASSUME NEW w \in Workers, CastVote(w)
        PROVE  A(m)
    BY <1>1, <2>1, <2>3 DEF CastVote, IInv, TypeOK, PollRow, Lists
  <2>4. ASSUME NEW w \in Workers, CommitEdit(w)
        PROVE  A(m)
    <3>1. vote[m] \in job[w].options
      BY <2>4 DEF CommitEdit
    <3>2. job[w].newOptions /\ Exists(w)
      BY <1>1, <2>4, <3>1 DEF CommitEdit, IInv, JobsInv
    <3> QED
      BY <1>1, <2>4, <3>2 DEF IInv, MissedInv
  <2>5. CASE DeletePoll
    BY <2>5
  <2>6. CASE UNCHANGED vote
    BY <2>6
  <2> QED
    BY <1>1, <2>2, <2>3, <2>4, <2>5, <2>6
    DEF Next, CreatePoll, ListPolls, SetStatus, StartVote, UpdatePoll, Swap, Abort
<1>2. ASSUME IInv, [Next]_vars
      PROVE  [\A m \in Members : A(m)]_vars
  BY <1>1, <1>2
<1> QED
  BY <1>2, Inductive, PTL DEF Spec, TallyStands

\* buildDTOs: whoever gives a first vote has not seen the others', but on a poll that
\* was closed before, or to replace a vote that was taken from them.
THEOREM BlindBallotAlways ==
  ASSUME IsFiniteSet(Workers)
  PROVE  Spec => BlindBallot
<1>1. ASSUME IInv, NEW m \in Members, vote[m] = 0, m \in shown
      PROVE  closedOnce \/ m \in lapsed
  BY <1>1 DEF IInv, ShownInv
<1>2. IInv /\ [Next]_vars =>
        [\A m \in Members : vote[m] = 0 /\ vote'[m] # 0 /\ m \in shown =>
           closedOnce \/ m \in lapsed]_vars
  BY <1>1
<1> QED
  BY <1>2, Inductive, PTL DEF Spec, BlindBallot

-----------------------------------------------------------------------------
(* The pages *)

USE PageAssumption

PageSteps == {"idle", "sent", "carried"}

\* A request that is idle remembers nothing.
LEMMA NullPageJob ==
  /\ Page!NoJob \in Page!Job
  /\ Page!NoJob.op = "none" /\ Page!NoJob.row = None /\ Page!NoJob.value = None
  /\ Page!NoJob.clouded = FALSE /\ Page!NoJob.outdated = FALSE
BY DEF Page!NoJob, Page!Job

\* What touching a row does to the list on its way.
LEMMA PageMuddled ==
  ASSUME Page!ReloadInv, NEW k \in Rows \cup {None}, Page!Muddle(k)
  PROVE  /\ Page!Reloading' <=> Page!Reloading
         /\ Page!Reloading =>
              /\ reload' \in Page!Answer /\ reload'.list = reload.list
              /\ reload'.muddled = reload.muddled \cup {k}
<1>1. CASE ~Page!Reloading
  BY <1>1 DEF Page!Muddle, Page!Reloading
<1>2. CASE Page!Reloading
  <2>1. PICK r \in Page!Answer : r = reload
    BY <1>2 DEF Page!ReloadInv
  <2>2. reload' = [r EXCEPT !.muddled = @ \cup {k}]
    BY <1>2, <2>1 DEF Page!Muddle
  <2>3. /\ reload' \in Page!Answer /\ reload'.list = r.list /\ reload'.muddled = r.muddled \cup {k}
    BY <2>2 DEF Page!Answer
  <2>4. Page!NoReload.muddled = {}
    BY DEF Page!NoReload
  <2> QED
    BY <1>2, <2>1, <2>3, <2>4 DEF Page!Reloading
<1> QED
  BY <1>1, <1>2

\* A request is sent: it has its row to itself or is clouded, with all that are there.
PageSends(w, op, k, v, before) ==
  /\ pagePc' \in [Workers -> PageSteps] /\ pageJob' \in [Workers -> Page!Job]
  /\ pagePc[w] = "idle" /\ pagePc'[w] = "sent" /\ UNCHANGED <<server, doubt>> /\ Page!Muddle(k)
  /\ pageJob'[w].op = op /\ pageJob'[w].row = k /\ pageJob'[w].value = v
  /\ pageJob'[w].before = before
  /\ ~Wholesale => (pageJob'[w].outdated <=> k # None /\ list[k] # <<before>>)
  /\ pageJob'[w].clouded <=> Page!Reloading \/ (k # None /\ Page!At(k) # {})
  /\ \A u \in Workers \ {w} :
       /\ pagePc'[u] = pagePc[u] /\ pageJob'[u].op = pageJob[u].op
       /\ pageJob'[u].row = pageJob[u].row
       /\ pageJob'[u].value = pageJob[u].value /\ pageJob'[u].before = pageJob[u].before
       /\ pageJob'[u].outdated = pageJob[u].outdated
       /\ pageJob[u].clouded => pageJob'[u].clouded
       /\ k # None /\ u \in Page!At(k) => pageJob'[u].clouded
       /\ pagePc[u] = "idle" => pageJob'[u] = Page!NoJob

\* What Send does.
LEMMA PageSent ==
  ASSUME Page!JobsInv, pagePc \in [Workers -> PageSteps], NEW w \in Workers,
         NEW op \in {"add", "edit", "remove"}, NEW k \in Rows \cup {None},
         NEW v \in Values \cup {None}, NEW before \in Values \cup {<<>>},
         Page!Send(w, op, k, v, before)
  PROVE  PageSends(w, op, k, v, before)
<1>1. PICK c \in BOOLEAN : c = (Page!Reloading \/ (k # None /\ Page!At(k) # {}))
  BY Zenon DEF Page!Reloading
<1>0. PICK o \in BOOLEAN : o = (k # None /\ ~Wholesale /\ list[k] # <<before>>)
  BY Zenon
<1> DEFINE j == [op |-> op, row |-> k, value |-> v, before |-> before, outdated |-> o,
                 clouded |-> c]
<1>2. /\ j \in Page!Job /\ j.op = op /\ j.row = k /\ j.value = v /\ j.before = before
      /\ j.clouded = c /\ j.outdated = o
  BY DEF Page!Job
<1> HIDE DEF j
<1>3. pageJob' = [u \in Workers |->
               IF u = w THEN j
               ELSE IF u \in Page!At(k) /\ k # None THEN [pageJob[u] EXCEPT !.clouded = TRUE]
               ELSE pageJob[u]]
  BY <1>0, <1>1 DEF Page!Send, j
<1>4. pagePc[w] = "idle" /\ pagePc' = [pagePc EXCEPT ![w] = "sent"]
  BY DEF Page!Send
<1>5. ASSUME NEW u \in Workers \ {w}
      PROVE  /\ pageJob'[u] \in Page!Job /\ pageJob'[u].op = pageJob[u].op
             /\ pageJob'[u].row = pageJob[u].row
             /\ pageJob'[u].value = pageJob[u].value /\ pageJob'[u].before = pageJob[u].before
             /\ pageJob'[u].outdated = pageJob[u].outdated
             /\ pageJob[u].clouded => pageJob'[u].clouded
             /\ k # None /\ u \in Page!At(k) => pageJob'[u].clouded
             /\ pagePc[u] = "idle" => pageJob'[u] = Page!NoJob
  <2>1. PICK i \in Page!Job : i = pageJob[u]
    BY DEF Page!JobsInv
  <2>2. [i EXCEPT !.clouded = TRUE] \in Page!Job
    BY DEF Page!Job
  <2>3. pageJob'[u] = IF u \in Page!At(k) /\ k # None THEN [i EXCEPT !.clouded = TRUE] ELSE i
    BY <1>3, <2>1
  <2>4. pagePc[u] = "idle" => u \notin Page!At(k) /\ i = Page!NoJob
    BY <2>1 DEF Page!At, Page!JobsInv, Page!JobOK
  <2>5. CASE u \in Page!At(k) /\ k # None
    BY <2>1, <2>2, <2>3, <2>4, <2>5 DEF Page!Job
  <2>6. CASE ~(u \in Page!At(k) /\ k # None)
    BY <2>1, <2>3, <2>4, <2>6
  <2> QED
    BY <2>5, <2>6
<1>6. pageJob' \in [Workers -> Page!Job] /\ pageJob'[w] = j
  BY <1>2, <1>3, <1>5
<1>7. pagePc' \in [Workers -> PageSteps] /\ pagePc'[w] = "sent" /\ \A u \in Workers \ {w} :
        pagePc'[u] = pagePc[u]
  BY <1>4 DEF PageSteps
<1>8. UNCHANGED <<server, doubt>> /\ Page!Muddle(k)
  BY DEF Page!Send
<1> QED
  BY <1>0, <1>1, <1>2, <1>4, <1>5, <1>6, <1>7, <1>8 DEF PageSends

\* A request is answered.
LEMMA PageClosed ==
  ASSUME Page!JobsInv, pagePc \in [Workers -> PageSteps], NEW w \in Workers, NEW unsure,
         Page!Close(w, unsure)
  PROVE  /\ pagePc' \in [Workers -> PageSteps] /\ pageJob' \in [Workers -> Page!Job]
         /\ pagePc'[w] = "idle" /\ pageJob'[w] = Page!NoJob /\ UNCHANGED <<server, dialog, reload>>
         /\ temp' = temp \ {w}
         /\ \A u \in Workers \ {w} : pagePc'[u] = pagePc[u] /\ pageJob'[u] = pageJob[u]
         /\ doubt' = IF unsure THEN doubt \cup ({pageJob[w].row} \cap Rows) ELSE doubt
BY NullPageJob DEF Page!Close, Page!JobsInv, PageSteps

\* The types of IInv, and its parts.
LEMMA PageTables ==
  ASSUME Page!IInv
  PROVE  /\ server \in [Rows -> Page!Absent \cup Values] /\ list \in [Rows -> Seq(Values)]
         /\ temp \subseteq {u \in Workers : pagePc[u] # "idle" /\ pageJob[u].op = "add"}
         /\ pagePc \in [Workers -> PageSteps] /\ pageJob \in [Workers -> Page!Job]
         /\ doubt \subseteq Rows /\ dialog \in [row : Rows, value : Values] \cup {None}
         /\ Page!JobsInv /\ Page!BornInv /\ Page!ReloadInv /\ Page!ClearInv /\ Page!RowsTrue
         /\ \A k \in Rows : Page!Saved[k] \in Seq(Values)
<1>1. server \in [Rows -> Page!Absent \cup Values]
  BY DEF Page!IInv, Page!TypeOK
<1>2. \A k \in Rows : Page!Saved[k] \in Seq(Values)
  BY <1>1 DEF Page!Saved
<1> QED
  BY <1>1, <1>2 DEF Page!IInv, Page!TypeOK, Page!JobsInv, PageSteps

\* Each copy of a row becomes v.
LEMMA OntoType ==
  ASSUME NEW copies \in Seq(Values), NEW v \in Values
  PROVE  Page!Onto(copies, v) \in Seq(Values)
BY DEF Page!Onto

\* The one copy of a row becomes v.
LEMMA OntoOne ==
  ASSUME NEW x \in Values, NEW v \in Values
  PROVE  Page!Onto(<<x>>, v) = <<v>>
BY DEF Page!Onto

\* handleAdd, handleEdit, handleDelete and the like: the page changes k and sends.
LEMMA PageSendIInv ==
  ASSUME Page!IInv, NEW w \in Workers, NEW op \in {"add", "edit", "remove"},
         NEW k \in Rows \cup {None},
         NEW v \in Values \cup {None}, NEW before \in Values \cup {<<>>},
         Page!Send(w, op, k, v, before),
         k = None <=> op = "add", op # "remove" => v \in Values,
         ~Wholesale, op # "add" => server[k] # "unborn" /\ before \in Values,
         dialog' \in {None, dialog},
         list' \in [Rows -> Seq(Values)], \A r \in Rows \ {k} : list'[r] = list[r],
         op # "add" => list'[k] = IF op = "edit" THEN Page!Onto(list[k], v) ELSE <<>>,
         temp' = IF op = "add" THEN temp \cup {w} ELSE temp
  PROVE  Page!IInv'
<1>1. /\ server \in [Rows -> Page!Absent \cup Values] /\ list \in [Rows -> Seq(Values)]
      /\ temp \subseteq {u \in Workers : pagePc[u] # "idle" /\ pageJob[u].op = "add"}
      /\ pagePc \in [Workers -> PageSteps] /\ pageJob \in [Workers -> Page!Job]
      /\ doubt \subseteq Rows /\ dialog \in [row : Rows, value : Values] \cup {None}
      /\ Page!JobsInv /\ Page!BornInv /\ Page!ReloadInv /\ Page!ClearInv /\ Page!RowsTrue
  BY PageTables
<1>2. PageSends(w, op, k, v, before)
  BY <1>1, PageSent
<1> USE DEF PageSends
<1>3. /\ Page!Reloading' <=> Page!Reloading
      /\ Page!Reloading =>
           /\ reload' \in Page!Answer /\ reload'.list = reload.list
           /\ reload'.muddled = reload.muddled \cup {k}
  BY <1>1, <1>2, PageMuddled
<1>4. ASSUME NEW r \in Rows PROVE Page!At(r)' = IF r = k THEN Page!At(r) \cup {w} ELSE Page!At(r)
  BY <1>2 DEF Page!At
<1>5. k \in Rows => list[k] \in Seq(Values) /\ before \in Values /\ server[k] # "unborn"
  BY <1>1
<1>6. Page!Saved' = Page!Saved
  BY <1>2 DEF Page!Saved
<1>7. Page!TypeOK'
  BY <1>1, <1>2 DEF Page!TypeOK, PageSteps, Page!Job
<1>8. Page!JobsInv'
  <2>1. Page!JobOK(w)'
    BY <1>2, <1>3, <1>5 DEF Page!JobOK
  <2>2. ASSUME NEW u \in Workers \ {w} PROVE Page!JobOK(u)'
    <3>1. Page!JobOK(u) /\ pagePc'[u] = pagePc[u]
      BY <1>1, <1>2 DEF Page!JobsInv
    <3>2. CASE pagePc[u] = "idle"
      BY <1>2, <3>1, <3>2 DEF Page!JobOK
    <3>3. CASE pagePc[u] # "idle"
      BY <1>2, <1>3, <3>1, <3>3 DEF Page!JobOK
    <3> QED
      BY <3>2, <3>3
  <2> QED
    BY <1>2, <2>1, <2>2 DEF Page!JobsInv
<1>9. Page!BornInv'
  BY <1>1, <1>2, <1>3, <1>4, <1>5 DEF Page!BornInv
<1>10. Page!ReloadInv'
  BY <1>1, <1>3, <1>6 DEF Page!ReloadInv
<1>11. Page!ClearInv'
  <2>1. ASSUME ~pageJob'[w].clouded
        PROVE  /\ pageJob'[w].op = "add" => w \in temp'
               /\ pageJob'[w].row # None => Page!At(k)' = {w}
               /\ pageJob'[w].row # None /\ pageJob'[w].row \notin doubt' => Page!Pending(w)'
    <3>1. CASE op = "add"
      BY <1>2, <3>1
    <3>2. CASE op # "add"
      <4>1. k \in Rows /\ Page!At(k) = {} /\ Page!At(k)' = {w}
        BY <1>2, <1>4, <2>1, <3>2
      <4>2. ASSUME k \notin doubt PROVE Page!Pending(w)'
        <5>1. list[k] = Page!Saved[k]
          BY <1>1, <4>1, <4>2 DEF Page!RowsTrue
        <5>2. list'[k] = IF op = "edit" THEN Page!Onto(Page!Saved'[k], v) ELSE <<>>
          BY <1>6, <3>2, <5>1
        <5>3. pageJob'[w].outdated \/ Page!Saved'[k] = <<before>>
          BY <1>2, <1>6, <4>1, <5>1
        <5> QED
          BY <1>2, <3>2, <5>2, <5>3 DEF Page!Pending
      <4> QED
        BY <1>2, <3>2, <4>1, <4>2
    <3> QED
      BY <3>1, <3>2
  <2>2. ASSUME NEW u \in Workers \ {w}, pagePc'[u] # "idle", ~pageJob'[u].clouded
        PROVE  /\ pageJob'[u].op = "add" => u \in temp'
               /\ pageJob'[u].row # None => Page!At(pageJob[u].row)' = {u}
               /\ pageJob'[u].row # None /\ pageJob'[u].row \notin doubt' => Page!Pending(u)'
    <3>1. PICK r : r = pageJob[u].row
      OBVIOUS
    <3>2. pagePc[u] # "idle" /\ ~pageJob[u].clouded /\ pageJob'[u].row = r
           /\ (r # None => r \in Rows \ {k})
      BY <1>1, <1>2, <2>2, <3>1 DEF Page!At, Page!Job
    <3>3. r # None => Page!At(r)' = {u}
      BY <1>1, <1>4, <3>1, <3>2 DEF Page!ClearInv
    <3>4. pageJob'[u].op = "add" => u \in temp'
      BY <1>1, <1>2, <3>2 DEF Page!ClearInv
    <3>5. ASSUME r # None, r \notin doubt' PROVE Page!Pending(u)'
      <4>1. Page!Pending(u) /\ r \in Rows \ {k}
        BY <1>1, <1>2, <3>1, <3>2, <3>5 DEF Page!ClearInv
      <4>2. /\ list'[r] = list[r] /\ Page!Saved'[r] = Page!Saved[r] /\ pageJob'[u].row = r
            /\ pagePc'[u] = pagePc[u] /\ pageJob'[u].outdated = pageJob[u].outdated
        BY <1>2, <1>6, <3>2, <4>1
      <4> QED
        BY <1>2, <3>1, <4>1, <4>2 DEF Page!Pending
    <3> QED
      BY <3>1, <3>2, <3>3, <3>4, <3>5
  <2> QED
    BY <1>2, <2>1, <2>2 DEF Page!ClearInv
<1>12. Page!RowsTrue'
  <2> SUFFICES ASSUME NEW r \in Rows, Page!At(r)' = {}, r \notin doubt'
               PROVE list'[r] = Page!Saved'[r]
    BY DEF Page!RowsTrue
  <2>1. r # k /\ Page!At(r) = {}
    BY <1>4
  <2> QED
    BY <1>1, <1>2, <1>6, <2>1 DEF Page!RowsTrue
<1> QED
  BY <1>7, <1>8, <1>9, <1>10, <1>11, <1>12 DEF Page!IInv

\* handleAdd and the like.
LEMMA PageAddIInv ==
  ASSUME ~Wholesale, Page!IInv, NEW w \in Workers, NEW v \in Values, Page!Add(w, v)
  PROVE  Page!IInv'
<1>1. /\ Page!Send(w, "add", None, v, <<>>) /\ list' = list /\ temp' = temp \cup {w}
      /\ dialog' = dialog /\ list \in [Rows -> Seq(Values)]
  BY PageTables DEF Page!Add
<1> QED
  BY <1>1, PageSendIInv

\* handleEdit and the like.
LEMMA PageEditIInv ==
  ASSUME ~Wholesale, Page!IInv, NEW w \in Workers, NEW k \in Rows, NEW v \in Values,
         Page!Edit(w, k, v)
  PROVE  Page!IInv'
<1>1. /\ list[k] # <<>> /\ dialog' = dialog /\ list' = [list EXCEPT ![k] = Page!Onto(list[k], v)] /\ temp' = temp
      /\ list \in [Rows -> Seq(Values)] /\ Page!Send(w, "edit", k, v, Head(list[k]))
  BY PageTables DEF Page!Edit, Page!Kept
<1>2. Head(list[k]) \in Values /\ Page!Onto(list[k], v) \in Seq(Values)
      /\ server[k] # "unborn"
  BY <1>1, OntoType, PageTables DEF Page!BornInv
<1>3. /\ list' \in [Rows -> Seq(Values)] /\ list'[k] = Page!Onto(list[k], v)
      /\ \A r \in Rows \ {k} : list'[r] = list[r]
  BY <1>1, <1>2
<1> QED
  BY <1>1, <1>2, <1>3, PageSendIInv

\* handleDelete and the like.
LEMMA PageRemoveIInv ==
  ASSUME ~Wholesale, Page!IInv, NEW w \in Workers, NEW k \in Rows, Page!Remove(w, k)
  PROVE  Page!IInv'
<1>1. /\ list[k] # <<>> /\ dialog' = dialog /\ list' = [list EXCEPT ![k] = <<>>] /\ temp' = temp
      /\ list \in [Rows -> Seq(Values)] /\ Page!Send(w, "remove", k, None, Head(list[k]))
  BY PageTables DEF Page!Remove, Page!Kept
<1>2. Head(list[k]) \in Values /\ <<>> \in Seq(Values) /\ server[k] # "unborn"
  BY <1>1, PageTables DEF Page!BornInv
<1>3. /\ list' \in [Rows -> Seq(Values)] /\ list'[k] = <<>>
      /\ \A r \in Rows \ {k} : list'[r] = list[r]
  BY <1>1, <1>2
<1> QED
  BY <1>1, <1>2, <1>3, PageSendIInv

\* A dialog is opened, or closed.
LEMMA PageDialogIInv ==
  ASSUME Page!IInv, UNCHANGED <<server, list, temp, pagePc, pageJob, reload, doubt>>,
         \/ dialog' = None
         \/ \E k \in Rows : Page!OpenDialog(k)
  PROVE  Page!IInv'
<1>1. /\ list \in [Rows -> Seq(Values)] /\ Page!BornInv
      /\ dialog \in [row : Rows, value : Values] \cup {None}
  BY PageTables
<1>2. /\ dialog' \in [row : Rows, value : Values] \cup {None}
      /\ dialog' # None => server[dialog'.row] # "unborn"
  <2>1. CASE dialog' = None
    BY <2>1
  <2>2. ASSUME NEW k \in Rows, Page!OpenDialog(k)
        PROVE  /\ dialog' \in [row : Rows, value : Values] \cup {None}
               /\ server[dialog'.row] # "unborn"
    <3>1. dialog' = [row |-> k, value |-> Head(list[k])] /\ list[k] # <<>>
      BY <2>2 DEF Page!OpenDialog
    <3>2. Head(list[k]) \in Values /\ server[k] # "unborn"
      BY <1>1, <3>1 DEF Page!BornInv
    <3> QED
      BY <3>1, <3>2
  <2> QED
    BY <2>1, <2>2
<1>3. \A k : Page!At(k)' = Page!At(k)
  BY DEF Page!At
<1>4. Page!Saved' = Page!Saved /\ (Page!Reloading' <=> Page!Reloading)
  BY DEF Page!Saved, Page!Reloading
<1>5. Page!BornInv'
  BY <1>1, <1>2, <1>3, <1>4 DEF Page!BornInv
<1> QED
  BY <1>2, <1>3, <1>4, <1>5
     DEF Page!IInv, Page!TypeOK, Page!JobsInv, Page!JobOK, Page!ReloadInv, Page!ClearInv,
         Page!RowsTrue, Page!Pending, Page!At

\* handleEditTx and handleDeleteTx: what they keep is what the dialog was opened on.
LEMMA PageEditInDialogIInv ==
  ASSUME ~Wholesale, Page!IInv, NEW w \in Workers, NEW v \in Values, Page!EditInDialog(w, v)
  PROVE  Page!IInv'
<1>1. /\ list \in [Rows -> Seq(Values)] /\ Page!BornInv
      /\ dialog \in [row : Rows, value : Values] \cup {None}
  BY PageTables
<1>2. dialog # None /\ dialog' = None /\ temp' = temp
  BY DEF Page!EditInDialog
<1>3. PICK k \in Rows : k = dialog.row
  BY <1>1, <1>2
<1>4. PICK b \in Values : b = dialog.value
  BY <1>1, <1>2
<1>5. list' = [list EXCEPT ![k] = Page!Onto(list[k], v)] /\ Page!Send(w, "edit", k, v, b)
  BY <1>3, <1>4 DEF Page!EditInDialog
<1>6. Page!Onto(list[k], v) \in Seq(Values) /\ server[k] # "unborn"
  BY <1>1, <1>2, <1>3, OntoType DEF Page!BornInv
<1>7. /\ list' \in [Rows -> Seq(Values)] /\ list'[k] = Page!Onto(list[k], v)
      /\ \A r \in Rows \ {k} : list'[r] = list[r]
  BY <1>1, <1>5, <1>6
<1> QED
  BY <1>2, <1>5, <1>6, <1>7, PageSendIInv

LEMMA PageRemoveInDialogIInv ==
  ASSUME ~Wholesale, Page!IInv, NEW w \in Workers, Page!RemoveInDialog(w)
  PROVE  Page!IInv'
<1>1. /\ list \in [Rows -> Seq(Values)] /\ Page!BornInv
      /\ dialog \in [row : Rows, value : Values] \cup {None}
  BY PageTables
<1>2. dialog # None /\ dialog' = None /\ temp' = temp
  BY DEF Page!RemoveInDialog
<1>3. PICK k \in Rows : k = dialog.row
  BY <1>1, <1>2
<1>4. PICK b \in Values : b = dialog.value
  BY <1>1, <1>2
<1>5. list' = [list EXCEPT ![k] = <<>>] /\ Page!Send(w, "remove", k, None, b)
  BY <1>3, <1>4 DEF Page!RemoveInDialog
<1>6. <<>> \in Seq(Values) /\ server[k] # "unborn"
  BY <1>1, <1>2, <1>3 DEF Page!BornInv
<1>7. /\ list' \in [Rows -> Seq(Values)] /\ list'[k] = <<>>
      /\ \A r \in Rows \ {k} : list'[r] = list[r]
  BY <1>1, <1>5, <1>6
<1> QED
  BY <1>2, <1>5, <1>6, <1>7, PageSendIInv

\* An answer: it leaves its row as it is saved, or in doubt.
LEMMA PageCloseIInv ==
  ASSUME Page!IInv, NEW w \in Workers, NEW k, k = pageJob[w].row, NEW unsure, Page!Close(w, unsure),
         pagePc[w] # "idle", pageJob[w].clouded => unsure,
         list' \in [Rows -> Seq(Values)], \A r \in Rows \ {k} : list'[r] = list[r],
         k \in Rows /\ ~unsure /\ k \notin doubt => list'[k] = Page!Saved[k]
  PROVE  Page!IInv'
<1>1. /\ server \in [Rows -> Page!Absent \cup Values] /\ list \in [Rows -> Seq(Values)]
      /\ temp \subseteq {u \in Workers : pagePc[u] # "idle" /\ pageJob[u].op = "add"}
      /\ pagePc \in [Workers -> PageSteps] /\ pageJob \in [Workers -> Page!Job]
      /\ doubt \subseteq Rows /\ dialog \in [row : Rows, value : Values] \cup {None}
      /\ Page!JobsInv /\ Page!BornInv /\ Page!ReloadInv /\ Page!ClearInv /\ Page!RowsTrue
  BY PageTables
<1>2. /\ pagePc' \in [Workers -> PageSteps] /\ pageJob' \in [Workers -> Page!Job]
      /\ pagePc'[w] = "idle" /\ pageJob'[w] = Page!NoJob /\ UNCHANGED <<server, dialog, reload>>
      /\ temp' = temp \ {w}
      /\ \A u \in Workers \ {w} : pagePc'[u] = pagePc[u] /\ pageJob'[u] = pageJob[u]
      /\ doubt' = IF unsure THEN doubt \cup ({k} \cap Rows) ELSE doubt
  BY <1>1, PageClosed
<1>3. /\ Page!Reloading' <=> Page!Reloading
      /\ Page!Saved' = Page!Saved
  BY <1>2 DEF Page!Reloading, Page!Saved
<1>4. ASSUME NEW r \in Rows PROVE Page!At(r)' = Page!At(r) \ {w} /\ (w \in Page!At(r) <=> r = k)
  BY <1>2, NullPageJob DEF Page!At
<1>5. Page!TypeOK'
  BY <1>1, <1>2 DEF Page!TypeOK, PageSteps, Page!Job
<1>6. Page!JobsInv'
  <2>1. Page!JobOK(w)'
    BY <1>2 DEF Page!JobOK
  <2>2. ASSUME NEW u \in Workers \ {w} PROVE Page!JobOK(u)'
    BY <1>1, <1>2, <1>3, <2>2 DEF Page!JobsInv, Page!JobOK
  <2> QED
    BY <1>2, <2>1, <2>2 DEF Page!JobsInv
<1>7. Page!BornInv'
  <2> SUFFICES ASSUME NEW r \in Rows, server'[r] = "unborn"
               PROVE list'[r] = <<>> /\ Page!At(r)' = {}
                  /\ (Page!Reloading' => reload'.list[r] = <<>>)
                  /\ (dialog' # None => dialog'.row # r)
    BY DEF Page!BornInv
  <2>1. /\ list[r] = <<>> /\ Page!At(r) = {} /\ (Page!Reloading => reload.list[r] = <<>>)
        /\ dialog # None => dialog.row # r
    BY <1>1, <1>2 DEF Page!BornInv
  <2> QED
    BY <1>2, <1>3, <1>4, <2>1
<1>8. Page!ReloadInv'
  BY <1>1, <1>2, <1>3 DEF Page!ReloadInv
<1>9. Page!ClearInv'
  <2> SUFFICES ASSUME NEW u \in Workers, pagePc'[u] # "idle", ~pageJob'[u].clouded
               PROVE  /\ pageJob'[u].op = "add" => u \in temp'
                      /\ pageJob'[u].row # None => Page!At(pageJob[u].row)' = {u}
                      /\ pageJob'[u].row # None /\ pageJob'[u].row \notin doubt' => Page!Pending(u)'
    BY <1>2 DEF Page!ClearInv
  <2>1. PICK r : r = pageJob[u].row
    OBVIOUS
  <2>2. u # w /\ pagePc'[u] = pagePc[u] /\ pageJob'[u] = pageJob[u] /\ (r # None => r \in Rows)
    BY <1>1, <1>2, <2>1 DEF Page!Job
  <2>3. pageJob'[u].op = "add" => u \in temp'
    BY <1>1, <1>2, <2>2 DEF Page!ClearInv
  <2>4. r # None => Page!At(r) = {u}
    BY <1>1, <2>1, <2>2 DEF Page!ClearInv
  <2>5. r # None => r # k /\ Page!At(r)' = {u}
    BY <1>4, <2>2, <2>4
  <2>6. ASSUME r # None, r \notin doubt' PROVE Page!Pending(u)'
    <3>1. Page!Pending(u)
      BY <1>1, <1>2, <2>1, <2>2, <2>6 DEF Page!ClearInv
    <3>2. list'[r] = list[r] /\ Page!Saved'[r] = Page!Saved[r] /\ pageJob'[u].row = r
      BY <1>3, <2>1, <2>2, <2>5, <2>6
    <3> QED
      BY <2>1, <2>2, <3>1, <3>2 DEF Page!Pending
  <2> QED
    BY <2>1, <2>2, <2>3, <2>5, <2>6
<1>10. Page!RowsTrue'
  <2> SUFFICES ASSUME NEW r \in Rows, Page!At(r)' = {}, r \notin doubt'
               PROVE list'[r] = Page!Saved'[r]
    BY DEF Page!RowsTrue
  <2>1. CASE r = k
    BY <1>2, <1>3, <2>1
  <2>2. CASE r # k
    <3>1. Page!At(r) = {} /\ r \notin doubt
      BY <1>2, <1>4, <2>2
    <3> QED
      BY <1>1, <1>3, <2>2, <3>1 DEF Page!RowsTrue
  <2> QED
    BY <2>1, <2>2
<1> QED
  BY <1>2, <1>5, <1>6, <1>7, <1>8, <1>9, <1>10 DEF Page!IInv

\* What a request under way remembers.
LEMMA PageRemembered ==
  ASSUME Page!IInv, NEW w \in Workers, pagePc[w] # "idle", NEW k, k = pageJob[w].row
  PROVE  /\ pageJob[w].op \in {"add", "edit", "remove"} /\ k \in Rows \cup {None}
         /\ pageJob[w].op # "remove" => pageJob[w].value \in Values
         /\ pageJob[w].op # "add" => k \in Rows /\ pageJob[w].before \in Values
         /\ pagePc[w] = "carried" => k \in Rows
         /\ pagePc[w] = "sent" /\ pageJob[w].op = "add" => k = None
         /\ Page!Reloading => pageJob[w].clouded
         /\ k \in Rows => server[k] # "unborn"
         /\ ~pageJob[w].clouded =>
              /\ pageJob[w].op = "add" => w \in temp
              /\ k # None => Page!At(k) = {w}
              /\ k # None /\ k \notin doubt => Page!Pending(w)
<1>1. Page!JobsInv /\ Page!BornInv /\ Page!ClearInv /\ pageJob \in [Workers -> Page!Job]
  BY PageTables
<1>2. Page!JobOK(w) /\ pageJob[w] \in Page!Job
  BY <1>1 DEF Page!JobsInv
<1>3. k \in Rows => w \in Page!At(k)
  BY DEF Page!At
<1> QED
  BY <1>1, <1>2, <1>3 DEF Page!JobOK, Page!BornInv, Page!ClearInv, Page!Job

\* What was saved is put in.
LEMMA PageConfirmIInv ==
  ASSUME ~Wholesale, Page!IInv, NEW w \in Workers, Page!Confirm(w)
  PROVE  Page!IInv'
<1>1. PICK k : k = pageJob[w].row
  OBVIOUS
<1>2. PICK v : v = pageJob[w].value
  OBVIOUS
<1>3. /\ pagePc[w] = "carried" /\ Page!Close(w, pageJob[w].clouded)
      /\ list' = CASE pageJob[w].op = "edit" -> [list EXCEPT ![k] = Page!Onto(list[k], v)]
                    [] pageJob[w].op = "add"
                       /\ w \in temp -> [list EXCEPT ![k] = Append(list[k], v)]
                    [] OTHER -> list
  BY <1>1, <1>2 DEF Page!Confirm
<1>4. /\ pageJob[w].op \in {"add", "edit", "remove"} /\ k \in Rows
      /\ pageJob[w].op # "remove" => v \in Values
      /\ ~pageJob[w].clouded =>
           /\ pageJob[w].op = "add" => w \in temp
           /\ k \notin doubt => Page!Pending(w)
  BY <1>1, <1>2, <1>3, PageRemembered
<1>5. list \in [Rows -> Seq(Values)] /\ list[k] \in Seq(Values)
  BY <1>4, PageTables
<1>6. CASE pageJob[w].op = "edit"
  <2>1. list' = [list EXCEPT ![k] = Page!Onto(list[k], v)] /\ Page!Onto(list[k], v) \in Seq(Values)
    BY <1>3, <1>4, <1>5, <1>6, OntoType
  <2>2. /\ list' \in [Rows -> Seq(Values)] /\ \A r \in Rows \ {k} : list'[r] = list[r]
        /\ list'[k] = Page!Onto(list[k], v)
    BY <1>4, <1>5, <2>1
  <2>3. ASSUME ~pageJob[w].clouded, k \notin doubt PROVE list'[k] = Page!Saved[k]
    <3>1. Page!Saved[k] = <<v>> /\ list[k] = Page!Onto(<<v>>, v)
      BY <1>1, <1>2, <1>3, <1>4, <1>6, <2>3 DEF Page!Pending
    <3> QED
      BY <1>4, <1>6, <2>2, <3>1, OntoOne
  <2> QED
    BY <1>1, <1>3, <2>2, <2>3, PageCloseIInv
<1>7. CASE pageJob[w].op = "add" /\ w \in temp
  <2>1. list' = [list EXCEPT ![k] = Append(list[k], v)] /\ Append(list[k], v) \in Seq(Values)
    BY <1>3, <1>4, <1>5, <1>7
  <2>2. /\ list' \in [Rows -> Seq(Values)] /\ \A r \in Rows \ {k} : list'[r] = list[r]
        /\ list'[k] = Append(list[k], v)
    BY <1>4, <1>5, <2>1
  <2>3. ASSUME ~pageJob[w].clouded, k \notin doubt PROVE list'[k] = Page!Saved[k]
    <3>1. list[k] = <<>> /\ Page!Saved[k] = <<v>>
      BY <1>1, <1>2, <1>3, <1>4, <1>7, <2>3 DEF Page!Pending
    <3> QED
      BY <1>4, <1>7, <2>2, <3>1
  <2> QED
    BY <1>1, <1>3, <2>2, <2>3, PageCloseIInv
<1>8. CASE pageJob[w].op # "edit" /\ ~(pageJob[w].op = "add" /\ w \in temp)
  <2>1. list' = list
    BY <1>3, <1>8
  <2>2. ASSUME ~pageJob[w].clouded, k \notin doubt PROVE list'[k] = Page!Saved[k]
    <3>1. Page!Pending(w) /\ pageJob[w].op = "remove"
      BY <1>4, <1>8, <2>2
    <3>2. list[k] = <<>> /\ Page!Saved[k] = <<>>
      BY <1>1, <1>3, <3>1 DEF Page!Pending
    <3> QED
      BY <2>1, <3>2
  <2> QED
    BY <1>1, <1>3, <1>5, <2>1, <2>2, PageCloseIInv
<1> QED
  BY <1>6, <1>7, <1>8

\* What was there is put back.
LEMMA PageRevertIInv ==
  ASSUME ~Wholesale, Page!IInv, NEW w \in Workers, Page!Revert(w)
  PROVE  Page!IInv'
<1>1. PICK k : k = pageJob[w].row
  OBVIOUS
<1>2. PICK b : b = pageJob[w].before
  OBVIOUS
<1>3. PICK unsure : unsure = (pageJob[w].clouded \/ pageJob[w].outdated \/ pagePc[w] = "carried")
  OBVIOUS
<1>4. pagePc[w] # "idle" /\ Page!Close(w, unsure) /\ list' = Page!Reverted(w)
      /\ (pageJob[w].clouded => unsure) /\ (~unsure => ~pageJob[w].clouded /\ ~pageJob[w].outdated /\ pagePc[w] # "carried")
  BY <1>3 DEF Page!Revert
<1>5. /\ pageJob[w].op \in {"add", "edit", "remove"} /\ k \in Rows \cup {None}
      /\ pageJob[w].op # "add" => k \in Rows /\ b \in Values
      /\ pagePc[w] = "sent" /\ pageJob[w].op = "add" => k = None
      /\ ~pageJob[w].clouded => (k # None /\ k \notin doubt => Page!Pending(w))
  BY <1>1, <1>2, <1>4, PageRemembered
<1>6. list \in [Rows -> Seq(Values)] /\ pagePc[w] \in PageSteps
  BY PageTables
<1>7. CASE pageJob[w].op = "add"
  <2>1. list' = list
    BY <1>4, <1>7 DEF Page!Reverted
  <2>2. ~unsure => k \notin Rows
    BY <1>4, <1>5, <1>6, <1>7 DEF PageSteps
  <2> QED
    BY <1>1, <1>4, <1>6, <2>1, <2>2, PageCloseIInv
<1>8. CASE pageJob[w].op = "edit"
  <2>1. list' = [list EXCEPT ![k] = Page!Onto(list[k], b)] /\ Page!Onto(list[k], b) \in Seq(Values)
    BY <1>1, <1>2, <1>4, <1>5, <1>6, <1>8, OntoType DEF Page!Reverted
  <2>2. /\ list' \in [Rows -> Seq(Values)] /\ \A r \in Rows \ {k} : list'[r] = list[r]
        /\ list'[k] = Page!Onto(list[k], b)
    BY <1>5, <1>6, <1>8, <2>1
  <2>3. ASSUME ~unsure, k \notin doubt PROVE list'[k] = Page!Saved[k]
    <3>1. Page!Pending(w) /\ pagePc[w] = "sent"
      BY <1>4, <1>5, <1>6, <1>8, <2>3 DEF PageSteps
    <3>2. /\ list[k] = Page!Onto(<<b>>, pageJob[w].value) /\ Page!Saved[k] = <<b>>
          /\ pageJob[w].value \in Values
      BY <1>1, <1>2, <1>4, <1>8, <2>3, <3>1, PageRemembered DEF Page!Pending
    <3>3. list[k] = <<pageJob[w].value>>
      BY <1>5, <1>8, <3>2, OntoOne
    <3> QED
      BY <1>5, <1>8, <2>2, <3>2, <3>3, OntoOne
  <2> QED
    BY <1>1, <1>4, <2>2, <2>3, PageCloseIInv
<1>9. CASE pageJob[w].op = "remove"
  <2>1. list' = [list EXCEPT ![k] = Append(list[k], b)] /\ Append(list[k], b) \in Seq(Values)
    BY <1>1, <1>2, <1>4, <1>5, <1>6, <1>9 DEF Page!Reverted
  <2>2. /\ list' \in [Rows -> Seq(Values)] /\ \A r \in Rows \ {k} : list'[r] = list[r]
        /\ list'[k] = Append(list[k], b)
    BY <1>5, <1>6, <1>9, <2>1
  <2>3. ASSUME ~unsure, k \notin doubt PROVE list'[k] = Page!Saved[k]
    <3>1. Page!Pending(w) /\ pagePc[w] = "sent"
      BY <1>4, <1>5, <1>6, <1>9, <2>3 DEF PageSteps
    <3>2. list[k] = <<>> /\ Page!Saved[k] = <<b>>
      BY <1>1, <1>2, <1>4, <1>9, <2>3, <3>1 DEF Page!Pending
    <3> QED
      BY <1>5, <1>9, <2>2, <3>2
  <2> QED
    BY <1>1, <1>4, <2>2, <2>3, PageCloseIInv
<1> QED
  BY <1>5, <1>7, <1>8, <1>9

\* The server carries a request out, on the row it is about or on one of its own.
LEMMA PageCarryIInv ==
  ASSUME Page!IInv, NEW w \in Workers, NEW k \in Rows, Page!Carry(w, k)
  PROVE  Page!IInv'
<1>1. /\ server \in [Rows -> Page!Absent \cup Values] /\ list \in [Rows -> Seq(Values)]
      /\ temp \subseteq {u \in Workers : pagePc[u] # "idle" /\ pageJob[u].op = "add"}
      /\ pagePc \in [Workers -> PageSteps] /\ pageJob \in [Workers -> Page!Job]
      /\ doubt \subseteq Rows /\ dialog \in [row : Rows, value : Values] \cup {None}
      /\ Page!JobsInv /\ Page!BornInv /\ Page!ReloadInv /\ Page!ClearInv /\ Page!RowsTrue
  BY PageTables
<1>2. PICK j \in Page!Job : j = pageJob[w]
  BY <1>1
<1>3. PICK n : n = IF j.op = "remove" THEN "deleted" ELSE j.value
  OBVIOUS
<1>4. /\ pagePc[w] = "sent"
      /\ IF j.op = "add" THEN server[k] = "unborn" ELSE k = j.row /\ server[k] \notin Page!Absent
      /\ server' = [server EXCEPT ![k] = n] /\ pagePc' = [pagePc EXCEPT ![w] = "carried"]
      /\ pageJob' = [pageJob EXCEPT ![w] = [j EXCEPT !.row = k]]
      /\ Page!Muddle(k) /\ UNCHANGED <<list, dialog, temp, doubt>>
  BY <1>2, <1>3 DEF Page!Carry
<1>5. /\ j.op \in {"add", "edit", "remove"}
      /\ j.op # "remove" => j.value \in Values
      /\ j.op # "add" => j.before \in Values
      /\ j.op = "add" => j.row = None
      /\ Page!Reloading => j.clouded
      /\ ~j.clouded =>
           /\ j.op = "add" => w \in temp
           /\ j.op # "add" => Page!At(k) = {w}
           /\ j.op # "add" /\ k \notin doubt => Page!Pending(w)
  BY <1>2, <1>4, PageRemembered
<1>6. /\ [j EXCEPT !.row = k] \in Page!Job
      /\ [j EXCEPT !.row = k].op = j.op /\ [j EXCEPT !.row = k].row = k
      /\ [j EXCEPT !.row = k].value = j.value /\ [j EXCEPT !.row = k].before = j.before
      /\ [j EXCEPT !.row = k].clouded = j.clouded
  BY <1>2 DEF Page!Job
<1>7. /\ pagePc' \in [Workers -> PageSteps] /\ pageJob' \in [Workers -> Page!Job]
      /\ pagePc'[w] = "carried" /\ pageJob'[w].op = j.op /\ pageJob'[w].row = k
      /\ pageJob'[w].value = j.value
      /\ pageJob'[w].before = j.before /\ pageJob'[w].clouded = j.clouded
      /\ \A u \in Workers \ {w} : pagePc'[u] = pagePc[u] /\ pageJob'[u] = pageJob[u]
  BY <1>1, <1>4, <1>6 DEF PageSteps
<1>8. n \in Page!Absent \cup Values /\ n # "unborn"
  BY <1>3, <1>5 DEF Page!Absent
<1>9. /\ server' \in [Rows -> Page!Absent \cup Values] /\ server'[k] = n
      /\ \A r \in Rows \ {k} : server'[r] = server[r]
  BY <1>1, <1>4, <1>8
<1>10. /\ Page!Reloading' <=> Page!Reloading
       /\ Page!Reloading =>
            /\ reload' \in Page!Answer /\ reload'.list = reload.list
            /\ reload'.muddled = reload.muddled \cup {k}
  BY <1>1, <1>4, PageMuddled
<1>11. ASSUME NEW r \in Rows PROVE Page!At(r)' = IF r = k THEN Page!At(r) \cup {w} ELSE Page!At(r)
  BY <1>2, <1>4, <1>5, <1>7 DEF Page!At
<1>12. ASSUME NEW r \in Rows \ {k} PROVE Page!Saved'[r] = Page!Saved[r]
  BY <1>9 DEF Page!Saved
<1>13. Page!Saved'[k] = IF j.op = "remove" THEN <<>> ELSE <<j.value>>
  BY <1>3, <1>5, <1>9 DEF Page!Saved, Page!Absent
<1>14. Page!TypeOK'
  BY <1>1, <1>2, <1>4, <1>7, <1>9 DEF Page!TypeOK, PageSteps, Page!Job
<1>15. Page!JobsInv'
  <2>1. Page!JobOK(w)'
    <3>1. pageJob[w].op # "add" => pageJob[w].before \in Values
      BY <1>2, <1>5
    <3> QED
      BY <1>5, <1>7, <1>10 DEF Page!JobOK
  <2>2. ASSUME NEW u \in Workers \ {w} PROVE Page!JobOK(u)'
    BY <1>1, <1>7, <1>10, <2>2 DEF Page!JobsInv, Page!JobOK
  <2> QED
    BY <1>7, <2>1, <2>2 DEF Page!JobsInv
<1>16. Page!BornInv'
  <2> SUFFICES ASSUME NEW r \in Rows, server'[r] = "unborn"
               PROVE list'[r] = <<>> /\ Page!At(r)' = {}
                  /\ (Page!Reloading' => reload'.list[r] = <<>>)
                  /\ (dialog' # None => dialog'.row # r)
    BY DEF Page!BornInv
  <2>1. r # k /\ server[r] = "unborn"
    BY <1>8, <1>9
  <2>2. /\ list[r] = <<>> /\ Page!At(r) = {} /\ (Page!Reloading => reload.list[r] = <<>>)
        /\ dialog # None => dialog.row # r
    BY <1>1, <2>1 DEF Page!BornInv
  <2> QED
    BY <1>4, <1>10, <1>11, <2>1, <2>2
<1>17. Page!ReloadInv'
  <2> SUFFICES ASSUME Page!Reloading', NEW r \in Rows \ reload'.muddled
               PROVE reload' \in Page!Answer /\ reload'.list[r] = Page!Saved'[r]
    BY <1>10 DEF Page!ReloadInv
  <2>1. reload.list[r] = Page!Saved[r] /\ r # k
    BY <1>1, <1>10 DEF Page!ReloadInv
  <2> QED
    BY <1>10, <1>12, <2>1
<1>18. Page!ClearInv'
  <2> SUFFICES ASSUME NEW u \in Workers, pagePc'[u] # "idle", ~pageJob'[u].clouded, NEW r,
                      r = pageJob'[u].row
               PROVE  /\ pageJob'[u].op = "add" => u \in temp'
                      /\ r # None => Page!At(r)' = {u}
                      /\ r # None /\ r \notin doubt' => Page!Pending(u)'
    BY DEF Page!ClearInv
  <2>1. CASE u = w
    <3>1. r = k /\ ~j.clouded /\ pageJob'[u].op = j.op /\ pagePc'[u] = "carried"
          /\ pageJob'[u].value = j.value
      BY <1>7, <2>1
    <3>2. Page!At(k)' = {w}
      <4>1. j.op = "add" => Page!At(k) = {}
        BY <1>1, <1>4 DEF Page!BornInv
      <4> QED
        BY <1>5, <1>11, <3>1, <4>1
    <3>3. ASSUME k \notin doubt
          PROVE  list[k] = IF j.op = "edit" THEN Page!Onto(<<j.value>>, j.value) ELSE <<>>
      <4>1. CASE j.op = "add"
        BY <1>1, <1>4, <4>1 DEF Page!BornInv
      <4>2. CASE j.op # "add"
        <5>1. Page!Saved[k] = <<server[k]>> /\ server[k] \in Values
          BY <1>1, <1>4, <4>2 DEF Page!Saved
        <5>2. list[k] = IF j.op = "edit" THEN Page!Onto(<<server[k]>>, j.value) ELSE <<>>
          BY <1>2, <1>4, <1>5, <3>1, <3>3, <4>2, <5>1 DEF Page!Pending
        <5>3. j.op = "edit" => Page!Onto(<<server[k]>>, j.value) = Page!Onto(<<j.value>>, j.value)
          BY <1>5, <5>1, OntoOne
        <5> QED
          BY <5>2, <5>3
      <4> QED
        BY <4>1, <4>2
    <3>4. k \notin doubt => Page!Pending(u)'
      BY <1>4, <1>13, <3>1, <3>3 DEF Page!Pending
    <3> QED
      BY <1>4, <1>5, <2>1, <3>1, <3>2, <3>4
  <2>2. CASE u # w
    <3>1. /\ pagePc[u] # "idle" /\ ~pageJob[u].clouded /\ r = pageJob[u].row
          /\ pageJob'[u] = pageJob[u]
          /\ pagePc'[u] = pagePc[u] /\ pageJob[u] \in Page!Job
      BY <1>1, <1>7, <2>2
    <3>2. /\ pageJob[u].op = "add" => u \in temp
          /\ r # None => Page!At(r) = {u}
          /\ r # None /\ r \notin doubt => Page!Pending(u)
          /\ r # None => r \in Rows
      BY <1>1, <3>1 DEF Page!ClearInv, Page!Job
    <3>3. r # None => r # k
      <4>1. j.op = "add" => Page!At(k) = {}
        BY <1>1, <1>4 DEF Page!BornInv
      <4>2. j.op # "add" => w \in Page!At(k)
        BY <1>2, <1>4 DEF Page!At
      <4> QED
        BY <2>2, <3>2, <4>1, <4>2
    <3>4. ASSUME r # None, r \notin doubt PROVE Page!Pending(u)'
      <4>1. list'[r] = list[r] /\ Page!Saved'[r] = Page!Saved[r]
        BY <1>4, <1>12, <3>2, <3>3, <3>4
      <4> QED
        BY <3>1, <3>2, <3>4, <4>1 DEF Page!Pending
    <3>5. r # None => Page!At(r)' = {u}
      BY <1>11, <3>2, <3>3
    <3> QED
      BY <1>4, <3>1, <3>2, <3>4, <3>5
  <2> QED
    BY <2>1, <2>2
<1>19. Page!RowsTrue'
  <2> SUFFICES ASSUME NEW r \in Rows, Page!At(r)' = {}, r \notin doubt'
               PROVE list'[r] = Page!Saved'[r]
    BY DEF Page!RowsTrue
  <2>1. r # k /\ Page!At(r) = {}
    BY <1>11
  <2> QED
    BY <1>1, <1>4, <1>12, <2>1 DEF Page!RowsTrue
<1>20. list' \in [Rows -> Seq(Values)]
  BY <1>1, <1>4
<1> QED
  BY <1>14, <1>15, <1>16, <1>17, <1>18, <1>19, <1>20 DEF Page!IInv

\* Somebody else writes the row, which leaves it in doubt.
LEMMA PageElsewhereIInv ==
  ASSUME Page!IInv, NEW k \in Rows, NEW v \in Values \cup {"deleted"}, Page!Elsewhere(k, v)
  PROVE  Page!IInv'
<1>1. /\ server \in [Rows -> Page!Absent \cup Values] /\ list \in [Rows -> Seq(Values)]
      /\ temp \subseteq {u \in Workers : pagePc[u] # "idle" /\ pageJob[u].op = "add"}
      /\ pagePc \in [Workers -> PageSteps] /\ pageJob \in [Workers -> Page!Job]
      /\ doubt \subseteq Rows /\ dialog \in [row : Rows, value : Values] \cup {None}
      /\ Page!JobsInv /\ Page!BornInv /\ Page!ReloadInv /\ Page!ClearInv /\ Page!RowsTrue
  BY PageTables
<1>2. /\ server' = [server EXCEPT ![k] = v] /\ doubt' = doubt \cup {k} /\ Page!Muddle(k)
      /\ UNCHANGED <<list, dialog, temp, pagePc, pageJob>>
  BY DEF Page!Elsewhere
<1>3. /\ server' \in [Rows -> Page!Absent \cup Values] /\ server'[k] = v /\ v # "unborn"
      /\ \A r \in Rows \ {k} : server'[r] = server[r]
  BY <1>1, <1>2 DEF Page!Absent
<1>4. /\ Page!Reloading' <=> Page!Reloading
      /\ Page!Reloading =>
           /\ reload' \in Page!Answer /\ reload'.list = reload.list
           /\ reload'.muddled = reload.muddled \cup {k}
  BY <1>1, <1>2, PageMuddled
<1>5. ASSUME NEW r PROVE Page!At(r)' = Page!At(r)
  BY <1>2 DEF Page!At
<1>6. ASSUME NEW r \in Rows \ {k} PROVE Page!Saved'[r] = Page!Saved[r]
  BY <1>3 DEF Page!Saved
<1>7. Page!TypeOK'
  BY <1>1, <1>2, <1>3 DEF Page!TypeOK, PageSteps, Page!Job
<1>8. Page!JobsInv'
  BY <1>1, <1>2, <1>4 DEF Page!JobsInv, Page!JobOK
<1>9. Page!BornInv'
  <2> SUFFICES ASSUME NEW r \in Rows, server'[r] = "unborn"
               PROVE list'[r] = <<>> /\ Page!At(r)' = {}
                  /\ (Page!Reloading' => reload'.list[r] = <<>>)
                  /\ (dialog' # None => dialog'.row # r)
    BY DEF Page!BornInv
  <2>1. r # k /\ server[r] = "unborn"
    BY <1>3
  <2> QED
    BY <1>1, <1>2, <1>4, <1>5, <2>1 DEF Page!BornInv
<1>10. Page!ReloadInv'
  <2> SUFFICES ASSUME Page!Reloading', NEW r \in Rows \ reload'.muddled
               PROVE reload' \in Page!Answer /\ reload'.list[r] = Page!Saved'[r]
    BY <1>4 DEF Page!ReloadInv
  <2>1. reload.list[r] = Page!Saved[r] /\ r # k
    BY <1>1, <1>4 DEF Page!ReloadInv
  <2> QED
    BY <1>4, <1>6, <2>1
<1>11. Page!ClearInv'
  <2> SUFFICES ASSUME NEW u \in Workers, pagePc'[u] # "idle", ~pageJob'[u].clouded, NEW r,
                      r = pageJob'[u].row
               PROVE  /\ pageJob'[u].op = "add" => u \in temp'
                      /\ r # None => Page!At(r)' = {u}
                      /\ r # None /\ r \notin doubt' => Page!Pending(u)'
    BY DEF Page!ClearInv
  <2>1. /\ pageJob[u].op = "add" => u \in temp
        /\ r # None => Page!At(r) = {u}
        /\ r # None /\ r \notin doubt => Page!Pending(u)
        /\ r = pageJob[u].row /\ (r # None => r \in Rows)
    BY <1>1, <1>2 DEF Page!ClearInv, Page!Job
  <2>2. ASSUME r # None, r \notin doubt' PROVE Page!Pending(u)'
    <3>1. r \in Rows \ {k} /\ Page!Pending(u)
      BY <1>2, <2>1, <2>2
    <3>2. Page!Saved'[r] = Page!Saved[r]
      BY <1>6, <3>1
    <3> QED
      BY <1>2, <2>1, <3>1, <3>2 DEF Page!Pending
  <2> QED
    BY <1>2, <1>5, <2>1, <2>2
<1>12. Page!RowsTrue'
  <2> SUFFICES ASSUME NEW r \in Rows, Page!At(r)' = {}, r \notin doubt'
               PROVE list'[r] = Page!Saved'[r]
    BY DEF Page!RowsTrue
  <2> QED
    BY <1>1, <1>2, <1>5, <1>6 DEF Page!RowsTrue
<1> QED
  BY <1>1, <1>2, <1>7, <1>8, <1>9, <1>10, <1>11, <1>12 DEF Page!IInv

\* The server answers a reload, and every request under way is clouded.
LEMMA PageReloadIInv ==
  ASSUME Page!IInv, Page!Reload
  PROVE  Page!IInv'
<1>1. /\ server \in [Rows -> Page!Absent \cup Values] /\ list \in [Rows -> Seq(Values)]
      /\ temp \subseteq {u \in Workers : pagePc[u] # "idle" /\ pageJob[u].op = "add"}
      /\ pagePc \in [Workers -> PageSteps] /\ pageJob \in [Workers -> Page!Job]
      /\ doubt \subseteq Rows /\ dialog \in [row : Rows, value : Values] \cup {None}
      /\ Page!JobsInv /\ Page!BornInv /\ Page!ReloadInv /\ Page!ClearInv /\ Page!RowsTrue
      /\ \A k \in Rows : Page!Saved[k] \in Seq(Values)
  BY PageTables
<1>2. /\ reload' = [list |-> Page!Saved, muddled |-> {k \in Rows : Page!At(k) # {}}]
      /\ pageJob' = [u \in Workers |-> IF pagePc[u] = "idle" THEN pageJob[u]
                                 ELSE [pageJob[u] EXCEPT !.clouded = TRUE]]
      /\ UNCHANGED <<server, list, dialog, temp, pagePc, doubt>>
  BY DEF Page!Reload
<1>3. ASSUME NEW u \in Workers
      PROVE  /\ pageJob'[u] \in Page!Job /\ pageJob'[u].op = pageJob[u].op
             /\ pageJob'[u].row = pageJob[u].row
             /\ pageJob'[u].value = pageJob[u].value /\ pageJob'[u].before = pageJob[u].before
             /\ pagePc[u] # "idle" => pageJob'[u].clouded
             /\ pagePc[u] = "idle" => pageJob'[u] = pageJob[u]
  <2>1. PICK i \in Page!Job : i = pageJob[u]
    BY <1>1
  <2>2. pageJob'[u] = IF pagePc[u] = "idle" THEN i ELSE [i EXCEPT !.clouded = TRUE]
    BY <1>2, <2>1
  <2>3. CASE pagePc[u] = "idle"
    BY <2>1, <2>2, <2>3
  <2>4. CASE pagePc[u] # "idle"
    <3>1. /\ [i EXCEPT !.clouded = TRUE] \in Page!Job
          /\ [i EXCEPT !.clouded = TRUE].op = i.op /\ [i EXCEPT !.clouded = TRUE].row = i.row
          /\ [i EXCEPT !.clouded = TRUE].value = i.value
          /\ [i EXCEPT !.clouded = TRUE].before = i.before
          /\ [i EXCEPT !.clouded = TRUE].clouded
      BY DEF Page!Job
    <3> QED
      BY <2>1, <2>2, <2>4, <3>1
  <2> QED
    BY <2>3, <2>4
<1>4. pageJob' \in [Workers -> Page!Job]
  BY <1>2, <1>3
<1>5. ASSUME NEW r PROVE Page!At(r)' = Page!At(r)
  BY <1>2, <1>3 DEF Page!At
<1>6. Page!Saved' = Page!Saved /\ Page!Saved \in [Rows -> Seq(Values)]
  BY <1>1, <1>2 DEF Page!Saved
<1>7. reload' \in Page!Answer /\ reload'.list = Page!Saved
  BY <1>2, <1>6 DEF Page!Answer
<1>8. Page!TypeOK'
  BY <1>1, <1>2, <1>3, <1>4 DEF Page!TypeOK, PageSteps, Page!Job
<1>9. Page!JobsInv'
  <2>1. ASSUME NEW u \in Workers PROVE Page!JobOK(u)'
    <3>1. Page!JobOK(u) /\ pagePc'[u] = pagePc[u]
      BY <1>1, <1>2 DEF Page!JobsInv
    <3>2. CASE pagePc[u] = "idle"
      BY <1>3, <3>1, <3>2 DEF Page!JobOK
    <3>3. CASE pagePc[u] # "idle"
      BY <1>3, <3>1, <3>3 DEF Page!JobOK
    <3> QED
      BY <3>2, <3>3
  <2> QED
    BY <1>4, <2>1 DEF Page!JobsInv
<1>10. Page!BornInv'
  <2> SUFFICES ASSUME NEW r \in Rows, server'[r] = "unborn"
               PROVE list'[r] = <<>> /\ Page!At(r)' = {}
                  /\ (Page!Reloading' => reload'.list[r] = <<>>)
                  /\ (dialog' # None => dialog'.row # r)
    BY DEF Page!BornInv
  <2>1. server[r] = "unborn" /\ list[r] = <<>> /\ Page!At(r) = {} /\ Page!Saved[r] = <<>>
        /\ (dialog # None => dialog.row # r)
    BY <1>1, <1>2 DEF Page!BornInv, Page!Saved, Page!Absent
  <2> QED
    BY <1>2, <1>5, <1>7, <2>1
<1>11. Page!ReloadInv'
  BY <1>6, <1>7 DEF Page!ReloadInv
<1>12. Page!ClearInv'
  BY <1>2, <1>3 DEF Page!ClearInv
<1>13. Page!RowsTrue'
  <2> SUFFICES ASSUME NEW r \in Rows, Page!At(r)' = {}, r \notin doubt'
               PROVE list'[r] = Page!Saved'[r]
    BY DEF Page!RowsTrue
  <2> QED
    BY <1>1, <1>2, <1>5, <1>6 DEF Page!RowsTrue
<1> QED
  BY <1>1, <1>2, <1>8, <1>9, <1>10, <1>11, <1>12, <1>13 DEF Page!IInv

\* The answer arrives: the page is the list, and in doubt is what was touched since.
LEMMA PageArriveIInv ==
  ASSUME Page!IInv, Page!Arrive
  PROVE  Page!IInv'
<1>1. /\ server \in [Rows -> Page!Absent \cup Values] /\ list \in [Rows -> Seq(Values)]
      /\ pagePc \in [Workers -> PageSteps] /\ pageJob \in [Workers -> Page!Job]
      /\ Page!JobsInv /\ Page!BornInv /\ Page!ReloadInv
      /\ dialog \in [row : Rows, value : Values] \cup {None}
  BY PageTables
<1>2. /\ Page!Reloading /\ list' = reload.list /\ temp' = {} /\ doubt' = reload.muddled \cap Rows
      /\ reload' = Page!NoReload /\ UNCHANGED <<server, dialog, pagePc, pageJob>>
  BY DEF Page!Arrive
<1>3. list' \in [Rows -> Seq(Values)] /\ \A k \in Rows \ reload.muddled : list'[k] = Page!Saved[k]
  BY <1>1, <1>2 DEF Page!ReloadInv, Page!Answer
<1>4. ~Page!Reloading' /\ Page!Saved' = Page!Saved
  BY <1>2 DEF Page!Reloading, Page!Saved, Page!NoReload
<1>5. ASSUME NEW r PROVE Page!At(r)' = Page!At(r)
  BY <1>2 DEF Page!At
<1>6. Page!TypeOK'
  BY <1>1, <1>2, <1>3 DEF Page!TypeOK, PageSteps, Page!Job
<1>7. Page!JobsInv'
  BY <1>1, <1>2, <1>4 DEF Page!JobsInv, Page!JobOK
<1>8. Page!BornInv'
  <2> SUFFICES ASSUME NEW r \in Rows, server'[r] = "unborn"
               PROVE list'[r] = <<>> /\ Page!At(r)' = {}
                  /\ (Page!Reloading' => reload'.list[r] = <<>>)
                  /\ (dialog' # None => dialog'.row # r)
    BY DEF Page!BornInv
  <2> QED
    BY <1>1, <1>2, <1>4, <1>5 DEF Page!BornInv
<1>9. Page!ReloadInv'
  BY <1>4 DEF Page!ReloadInv
<1>10. Page!ClearInv'
  BY <1>1, <1>2 DEF Page!ClearInv, Page!JobsInv, Page!JobOK
<1>11. Page!RowsTrue'
  BY <1>2, <1>3, <1>4 DEF Page!RowsTrue
<1> QED
  BY <1>3, <1>6, <1>7, <1>8, <1>9, <1>10, <1>11 DEF Page!IInv

\* The page starts with what is saved.
LEMMA PageInitIInv == Page!Init => Page!IInv
<1> SUFFICES ASSUME Page!Init PROVE Page!IInv
  OBVIOUS
<1>1. /\ server \in [Rows -> {"unborn"} \cup Values] /\ list = Page!Saved /\ temp = {} /\ doubt = {}
      /\ dialog = None
      /\ pagePc = [w \in Workers |-> "idle"] /\ pageJob = [w \in Workers |-> Page!NoJob]
      /\ ~Page!Reloading
  BY DEF Page!Init, Page!Reloading
<1>2. list \in [Rows -> Seq(Values)]
  BY <1>1 DEF Page!Saved, Page!Absent
<1>3. \A k : Page!At(k) = {}
  BY <1>1 DEF Page!At
<1>4. Page!TypeOK
  BY <1>1, <1>2, NullPageJob DEF Page!TypeOK, Page!Absent
<1>5. Page!JobsInv
  BY <1>1, NullPageJob DEF Page!JobsInv, Page!JobOK
<1>6. Page!BornInv
  BY <1>1, <1>3 DEF Page!BornInv, Page!Saved, Page!Absent
<1> QED
  BY <1>1, <1>2, <1>4, <1>5, <1>6 DEF Page!IInv, Page!ReloadInv, Page!ClearInv, Page!RowsTrue

\* Each step keeps IInv.
LEMMA PageNextIInv ==
  ASSUME ~Wholesale
  PROVE  Page!IInv /\ [Page!Next]_Page!vars => Page!IInv'
<1> SUFFICES ASSUME Page!IInv, [Page!Next]_Page!vars PROVE Page!IInv'
  OBVIOUS
<1>1. ASSUME NEW k \in Rows, Page!OpenDialog(k) PROVE Page!IInv'
  BY <1>1, PageDialogIInv DEF Page!OpenDialog
<1>2. ASSUME Page!CloseDialog PROVE Page!IInv'
  BY <1>2, PageDialogIInv DEF Page!CloseDialog
<1>3. CASE Page!Next
  BY <1>1, <1>2, <1>3, PageAddIInv, PageEditIInv, PageRemoveIInv, PageEditInDialogIInv,
     PageRemoveInDialogIInv, PageCarryIInv, PageConfirmIInv, PageRevertIInv,
     PageElsewhereIInv, PageReloadIInv, PageArriveIInv DEF Page!Next
<1>4. CASE UNCHANGED Page!vars
  <2>1. \A k : Page!At(k)' = Page!At(k)
    BY <1>4 DEF Page!vars, Page!At
  <2>2. Page!Saved' = Page!Saved /\ (Page!Reloading' <=> Page!Reloading)
    BY <1>4 DEF Page!vars, Page!Saved, Page!Reloading
  <2> QED
    BY <1>4, <2>1, <2>2
       DEF Page!vars, Page!IInv, Page!TypeOK, Page!JobsInv, Page!JobOK, Page!BornInv,
           Page!ReloadInv, Page!ClearInv, Page!RowsTrue,
       Page!Pending, Page!At
<1> QED
  BY <1>3, <1>4

\* The invariant of the pages that put back one row, for any rows, values and edits.
THEOREM PageInductive ==
  ASSUME ~Wholesale
  PROVE  Page!Spec => []Page!IInv
BY PageInitIInv, PageNextIInv, PTL DEF Page!Spec

\* The handlers of the parties, timeline, treasury and dashboard pages: once the requests on
\* a row are answered it is shown as it is saved, but for the accidents that are noted.
THEOREM RowsTrueAlways ==
  ASSUME ~Wholesale
  PROVE  Page!Spec => []RowsTrue
<1>1. Page!IInv => RowsTrue
  BY DEF Page!IInv, RowsTrue
<1> QED
  BY <1>1, PageInductive, PTL

-----------------------------------------------------------------------------
(* The store behind the pages *)

USE StoreAssumption

Stages == {"unasked", "asked", "answered", "done"}

\* The table of the loads when a section of load i moves on.
StoreMoves(i, s, g, d) ==
  /\ loads' \in [1..MaxLoads -> Store!Load]
  /\ \A j \in 1..MaxLoads : j # i => loads'[j] = loads[j]
  /\ loads'[i].me = loads[i].me /\ loads'[i].over = loads[i].over
  /\ loads'[i].got[s] = g /\ loads'[i].data[s] = d
  /\ \A t \in Sections : t # s => /\ loads'[i].got[t] = loads[i].got[t]
                                  /\ loads'[i].data[t] = loads[i].data[t]

LEMMA LoadMoves ==
  ASSUME Store!TypeOK, NEW i \in 1..MaxLoads, NEW s \in Sections, NEW g \in Stages,
         NEW d \in 0..MaxVersion,
         loads' = [loads EXCEPT ![i].got[s] = g, ![i].data[s] = d]
  PROVE  StoreMoves(i, s, g, d)
<1>1. loads \in [1..MaxLoads -> Store!Load] /\ loads[i] \in Store!Load
  BY DEF Store!TypeOK
<1>2. PICK r \in Store!Load : r = loads[i]
  BY <1>1
<1>3. PICK l : l = [r EXCEPT !.got[s] = g, !.data[s] = d]
  OBVIOUS
<1>4. l \in Store!Load
  BY <1>3 DEF Store!Load, Stages
<1>5. l.me = r.me /\ l.over = r.over
  BY <1>3 DEF Store!Load
<1>6. l.got = [r.got EXCEPT ![s] = g]
  BY <1>3 DEF Store!Load
<1>7. l.data = [r.data EXCEPT ![s] = d]
  BY <1>3 DEF Store!Load
<1>8. r.got \in [Sections -> Stages] /\ r.data \in [Sections -> 0..MaxVersion]
  BY DEF Store!Load, Stages
<1>9. /\ l.got[s] = g /\ l.data[s] = d
      /\ \A t \in Sections : t # s => l.got[t] = r.got[t] /\ l.data[t] = r.data[t]
  BY <1>6, <1>7, <1>8
<1>10. loads' = [loads EXCEPT ![i] = l]
  BY <1>2, <1>3
<1>11. loads' \in [1..MaxLoads -> Store!Load] /\ loads'[i] = l
       /\ \A j \in 1..MaxLoads : j # i => loads'[j] = loads[j]
  BY <1>1, <1>4, <1>10
<1> QED
  BY <1>2, <1>5, <1>9, <1>11 DEF StoreMoves

\* The same where the data stays.
LEMMA LoadMovesBare ==
  ASSUME Store!TypeOK, NEW i \in 1..MaxLoads, NEW s \in Sections, NEW g \in Stages,
         loads' = [loads EXCEPT ![i].got[s] = g]
  PROVE  StoreMoves(i, s, g, loads[i].data[s])
<1>1. loads \in [1..MaxLoads -> Store!Load] /\ loads[i] \in Store!Load
  BY DEF Store!TypeOK
<1>2. PICK l : l = [loads[i] EXCEPT !.got[s] = g]
  OBVIOUS
<1>3. l \in Store!Load
  BY <1>1, <1>2 DEF Store!Load, Stages
<1>4. l.me = loads[i].me /\ l.over = loads[i].over /\ l.data = loads[i].data
      /\ l.got = [loads[i].got EXCEPT ![s] = g]
  BY <1>1, <1>2 DEF Store!Load
<1>5. loads[i].got \in [Sections -> Stages]
  BY <1>1 DEF Store!Load, Stages
<1>6. loads' = [loads EXCEPT ![i] = l]
  BY <1>2
<1>7. loads' \in [1..MaxLoads -> Store!Load] /\ loads'[i] = l
      /\ \A j \in 1..MaxLoads : j # i => loads'[j] = loads[j]
  BY <1>1, <1>3, <1>6
<1> QED
  BY <1>4, <1>5, <1>7 DEF StoreMoves


\* The facts of the state that the steps start from.
LEMMA LatestLoad ==
  ASSUME Store!TypeOK, latest > 0
  PROVE  latest \in 1..MaxLoads /\ loads[latest] \in Store!Load /\ latest \in Store!Started
BY DEF Store!TypeOK, Store!Started

LEMMA ChangeIInv ==
  ASSUME Store!IInv, NEW s \in Sections, Store!Change(s)
  PROVE  Store!IInv'
<1> USE DEF Store!IInv, Store!Change, Store!page, Store!flags, Store!ghosts
<1>1. Store!TypeOK'
  BY DEF Store!TypeOK
<1>2. \A t \in Sections : version[t] \in Nat /\ version'[t] \in Nat /\ version[t] <= version'[t]
  BY DEF Store!TypeOK
<1>3. \A t \in Sections : held[t] \in Nat /\ promised[t] \in Nat
  BY DEF Store!TypeOK
<1>4. Store!VersionInv'
  BY <1>2, <1>3 DEF Store!VersionInv
<1>5. Store!AnswersInv'
  <2>1. latest > 0 => \A t \in Sections : loads[latest].data[t] \in Nat
    BY LatestLoad DEF Store!Load
  <2> QED
    BY <1>2, <2>1 DEF Store!AnswersInv
<1>6. Store!OverInv' /\ Store!RefusedInv' /\ Store!RouteInv' /\ Store!ResyncInv'
  BY DEF Store!OverInv, Store!Started, Store!RefusedInv, Store!RouteInv, Store!ResyncInv,
     Store!Pending
<1> QED
  BY <1>1, <1>4, <1>5, <1>6

LEMMA NavigateIInv ==
  ASSUME Store!IInv, NEW p \in Paths, Store!Navigate(p)
  PROVE  Store!IInv'
<1> USE DEF Store!IInv, Store!Navigate, Store!server, Store!page, Store!flags, Store!ghosts
<1>1. Store!TypeOK'
  BY DEF Store!TypeOK
<1> QED
  BY <1>1
     DEF Store!VersionInv, Store!AnswersInv, Store!OverInv, Store!Started, Store!RefusedInv,
         Store!RouteInv, Store!ResyncInv, Store!Pending

\* A new load: nothing of it has been answered, and what it asks for is on its way.
Begun(wanted, me) ==
  /\ latest' = latest + 1 /\ latest' \in 1..MaxLoads
  /\ loads' \in [1..MaxLoads -> Store!Load]
  /\ \A j \in Store!Started : loads'[j] = loads[j]
  /\ loads'[latest'].me = me /\ ~loads'[latest'].over
  /\ \A s \in Sections : loads'[latest'].got[s] = IF s \in wanted THEN "asked" ELSE "unasked"

LEMMA BeginFacts ==
  ASSUME Store!TypeOK, NEW wanted, NEW me \in {"asked", "unasked"}, Store!Begin(wanted, me)
  PROVE  Begun(wanted, me)
<1>1. latest + 1 \in 1..MaxLoads /\ latest' = latest + 1
  BY DEF Store!Begin, Store!TypeOK
<1> DEFINE l == [Store!NoLoad EXCEPT !.me = me, !.over = FALSE, !.got = Store!AskedOf(wanted)]
<1>2. l \in Store!Load /\ l.me = me /\ l.over = FALSE /\ l.got = Store!AskedOf(wanted)
  <2>1. Store!AskedOf(wanted) \in [Sections -> Stages]
    BY DEF Store!AskedOf, Stages
  <2>2. [s \in Sections |-> 0] \in [Sections -> 0..MaxVersion]
    OBVIOUS
  <2>3. Store!NoLoad \in Store!Load
    BY <2>2 DEF Store!NoLoad, Store!Load
  <2>4. l.me = me /\ l.over = FALSE /\ l.got = Store!AskedOf(wanted)
    BY DEF Store!NoLoad
  <2>5. l \in Store!Load
    BY <2>1, <2>3 DEF Store!Load, Stages
  <2> QED
    BY <2>4, <2>5
<1>3. loads' = [loads EXCEPT ![latest + 1] = l]
  BY DEF Store!Begin
<1> HIDE DEF l
<1>4. loads' \in [1..MaxLoads -> Store!Load] /\ loads'[latest'] = l
      /\ \A j \in Store!Started : loads'[j] = loads[j]
  BY <1>1, <1>2, <1>3 DEF Store!TypeOK, Store!Started
<1> QED
  BY <1>1, <1>2, <1>4 DEF Begun, Store!AskedOf

\* Invariants of the state that follows from the loads before.
LEMMA BeginOver ==
  ASSUME Store!IInv, NEW wanted, NEW me \in {"asked", "unasked"}, Store!Begin(wanted, me),
         UNCHANGED hasLoaded
  PROVE  Store!OverInv' /\ Store!AnswersInv' /\ Store!RefusedInv'
<1>1. Begun(wanted, me)
  BY BeginFacts DEF Store!IInv
<1>2. Store!AnswersInv'
  BY <1>1 DEF Begun, Store!AnswersInv
<1>3. Store!RefusedInv'
  BY <1>1 DEF Begun, Store!RefusedInv
<1>4. ASSUME NEW i \in Store!Started', loads'[i].over
      PROVE  loads'[i].me # "asked" /\ Store!Pending(i)' = {} /\ hasLoaded'
  <2>1. i \in Store!Started \/ i = latest'
    BY <1>1 DEF Begun, Store!Started, Store!IInv, Store!TypeOK
  <2>2. i \in Store!Started /\ loads'[i] = loads[i]
    BY <1>1, <1>4, <2>1 DEF Begun
  <2>3. loads[i].me # "asked" /\ Store!Pending(i) = {} /\ hasLoaded
    BY <1>4, <2>2 DEF Store!IInv, Store!OverInv
  <2> QED
    BY <2>2, <2>3 DEF Store!Pending
<1> QED
  BY <1>2, <1>3, <1>4 DEF Store!OverInv

\* What a load asks for is on its way in it.
LEMMA BeginPending ==
  ASSUME Store!TypeOK, NEW wanted, wanted \subseteq Sections, NEW me, Begun(wanted, me)
  PROVE  Store!Pending(latest)' = wanted
BY DEF Begun, Store!Pending

LEMMA WantedType ==
  ASSUME Store!TypeOK
  PROVE  /\ loaded \subseteq Sections /\ Needs[path] \subseteq Sections
         /\ Store!Refetched \subseteq Sections /\ Store!Missing \subseteq Sections
BY DEF Store!TypeOK, Store!Refetched, Store!Missing

\* What was older than promised is on its way again, or has been overrun.
LEMMA BeginResync ==
  ASSUME Store!IInv, NEW wanted, wanted \subseteq Sections, NEW me \in {"asked", "unasked"},
         Store!Begin(wanted, me), UNCHANGED <<held, loaded, errors>>,
         \A s \in Sections \ wanted : promised'[s] = promised[s]
  PROVE  Store!ResyncInv'
<1>1. Begun(wanted, me) /\ Store!Pending(latest)' = wanted
  BY BeginFacts, BeginPending DEF Store!IInv
<1>2. latest' > 0
  BY <1>1 DEF Begun
<1>3. overrun' = overrun \cup (IF latest = 0 THEN {} ELSE Store!Pending(latest) \ wanted)
  BY DEF Store!Begin
<1>4. ASSUME NEW s \in loaded, s \notin wanted
      PROVE  held'[s] >= promised'[s] \/ s \in (errors \cup overrun)'
  <2>1. s \in Sections
    BY DEF Store!IInv, Store!TypeOK
  <2> QED
    BY <1>3, <1>4, <2>1 DEF Store!IInv, Store!ResyncInv
<1> QED
  BY <1>1, <1>2, <1>4 DEF Store!ResyncInv

LEMMA RefreshIInv ==
  ASSUME Store!IInv, Store!Refresh
  PROVE  Store!IInv'
<1>1. /\ Store!Begin(Store!Refetched, "asked")
      /\ UNCHANGED <<Store!server, path, moves, Store!page, hasLoaded, due>>
      /\ Store!Refetched \subseteq Sections
      /\ promised' = [s \in Sections |-> IF s \in Store!Refetched THEN version[s] ELSE promised[s]]
  BY WantedType DEF Store!Refresh, Store!IInv, Store!Refetched
<1>2. Begun(Store!Refetched, "asked") /\ Store!Pending(latest)' = Store!Refetched
  BY <1>1, BeginFacts, BeginPending DEF Store!IInv
<1>3. overrun' \subseteq Sections /\ isLoading' = TRUE
  BY <1>1 DEF Store!IInv, Store!TypeOK, Store!Begin, Store!Pending
<1>4. Store!TypeOK'
  BY <1>1, <1>2, <1>3 DEF Store!IInv, Store!TypeOK, Begun, Store!server, Store!page
<1>5. Store!VersionInv'
  BY <1>1 DEF Store!IInv, Store!TypeOK, Store!VersionInv, Store!server, Store!page
<1>6. Store!OverInv' /\ Store!AnswersInv' /\ Store!RefusedInv'
  BY <1>1, BeginOver
<1>7. Store!ResyncInv'
  BY <1>1, BeginResync DEF Store!page
<1>8. Store!RouteInv'
  BY <1>1, <1>2 DEF Store!RouteInv, Store!Refetched
<1> QED
  BY <1>4, <1>5, <1>6, <1>7, <1>8 DEF Store!IInv

LEMMA TopUpIInv ==
  ASSUME Store!IInv, Store!TopUp
  PROVE  Store!IInv'
<1>1. UNCHANGED <<Store!server, path, moves, Store!page, hasLoaded>>
  BY DEF Store!TopUp
<1>2. CASE hasLoaded /\ viewer /\ Store!Missing # {}
  <2>1. /\ Store!Begin(Store!Missing, "unasked") /\ promised' = promised
        /\ Store!Missing \subseteq Sections
        /\ due' = FALSE
    BY <1>2, WantedType DEF Store!TopUp, Store!IInv
  <2>2. Begun(Store!Missing, "unasked") /\ Store!Pending(latest)' = Store!Missing
    BY <2>1, BeginFacts, BeginPending DEF Store!IInv
  <2>3. overrun' \subseteq Sections /\ isLoading' = TRUE
    BY <2>1 DEF Store!IInv, Store!TypeOK, Store!Begin, Store!Pending
  <2>4. Store!TypeOK'
    <3>1. UNCHANGED <<version, changes, path, moves, viewer, held, loaded, errors, hasLoaded>>
      BY <1>1 DEF Store!server, Store!page
    <3>2. latest' \in 0..MaxLoads /\ loads' \in [1..MaxLoads -> Store!Load]
      BY <2>2 DEF Begun
    <3> QED
      BY <2>1, <2>3, <3>1, <3>2 DEF Store!IInv, Store!TypeOK
  <2>5. Store!VersionInv'
    BY <1>1, <2>1 DEF Store!IInv, Store!VersionInv, Store!server, Store!page
  <2>6. Store!OverInv' /\ Store!AnswersInv' /\ Store!RefusedInv'
    BY <1>1, <2>1, BeginOver
  <2>7. Store!ResyncInv'
    BY <1>1, <2>1, BeginResync DEF Store!page
  <2>8. Store!RouteInv'
    BY <1>1, <2>2 DEF Store!RouteInv, Store!Missing, Store!page
  <2> QED
    BY <2>4, <2>5, <2>6, <2>7, <2>8 DEF Store!IInv
<1>3. CASE ~(hasLoaded /\ viewer /\ Store!Missing # {})
  <2>1. UNCHANGED <<isLoading, latest, loads, Store!ghosts>> /\ due' = FALSE
    BY <1>3 DEF Store!TopUp
  <2>2. Store!TypeOK'
    BY <1>1, <2>1 DEF Store!IInv, Store!TypeOK, Store!server, Store!page, Store!ghosts
  <2>3. /\ Store!VersionInv' /\ Store!AnswersInv' /\ Store!OverInv' /\ Store!RefusedInv'
        /\ Store!ResyncInv'
    BY <1>1, <2>1
       DEF Store!IInv, Store!VersionInv, Store!AnswersInv, Store!OverInv, Store!Started,
           Store!RefusedInv, Store!ResyncInv,
                      Store!Pending, Store!server, Store!page, Store!ghosts
  <2>4. Store!RouteInv'
    BY <1>1, <1>3, <2>1 DEF Store!RouteInv, Store!Missing, Store!page
  <2> QED
    BY <2>2, <2>3, <2>4 DEF Store!IInv
<1> QED
  BY <1>2, <1>3

\* What is on its way after a section has moved on.
LEMMA MovesPending ==
  ASSUME Store!TypeOK, NEW i \in 1..MaxLoads, NEW s \in Sections, NEW g \in Stages, NEW d,
         StoreMoves(i, s, g, d), s \in Store!Pending(i), UNCHANGED latest
  PROVE  /\ \A j \in 1..MaxLoads : j # i => Store!Pending(j)' = Store!Pending(j)
         /\ g = "answered" => Store!Pending(i)' = Store!Pending(i)
         /\ g = "done" => Store!Pending(i)' = Store!Pending(i) \ {s}
BY DEF StoreMoves, Store!Pending

\* The load was not over, and nothing else about it changes.
LEMMA MovesOver ==
  ASSUME Store!IInv, NEW i \in Store!Started, NEW s \in Sections, NEW g \in Stages, NEW d,
         StoreMoves(i, s, g, d), s \in Store!Pending(i), UNCHANGED <<latest, hasLoaded>>
  PROVE  Store!OverInv'
<1>1. Store!Started \subseteq 1..MaxLoads /\ Store!Started' = Store!Started
  BY DEF Store!IInv, Store!TypeOK, Store!Started
<1>2. ASSUME NEW j \in Store!Started, loads'[j].over
      PROVE  loads'[j].me # "asked" /\ Store!Pending(j)' = {} /\ hasLoaded'
  <2>1. ~loads[i].over
    BY DEF Store!IInv, Store!OverInv
  <2>2. j # i
    BY <1>2, <2>1 DEF StoreMoves
  <2>3. loads'[j] = loads[j]
    BY <1>1, <2>2 DEF StoreMoves
  <2>4. loads[j].me # "asked" /\ Store!Pending(j) = {} /\ hasLoaded
    BY <1>2, <2>3 DEF Store!IInv, Store!OverInv
  <2> QED
    BY <2>3, <2>4 DEF Store!Pending
<1> QED
  BY <1>1, <1>2 DEF Store!OverInv

LEMMA AnswerIInv ==
  ASSUME Store!IInv, NEW i \in 1..MaxLoads, NEW s \in Sections, Store!Answer(i, s)
  PROVE  Store!IInv'
<1> DEFINE g == IF loads[i].me = "no" THEN "done" ELSE "answered"
           d == IF loads[i].me = "no" THEN 0 ELSE version[s]
<1>1. /\ i \in Store!Started /\ s \in Store!Pending(i)
      /\ loads' = [loads EXCEPT ![i].got[s] = g, ![i].data[s] = d]
      /\ UNCHANGED <<Store!server, path, moves, Store!page, Store!flags, latest, due, Store!ghosts>>
  BY DEF Store!Answer, Store!Pending
<1>2. g \in Stages /\ d \in 0..MaxVersion
  BY DEF Stages, Store!IInv, Store!TypeOK
<1>a. /\ loads[i].me = "no" => g = "done"
      /\ loads[i].me # "no" => g = "answered" /\ d = version[s]
  OBVIOUS
<1> HIDE DEF g, d
<1>3. StoreMoves(i, s, g, d)
  BY <1>1, <1>2, LoadMoves DEF Store!IInv
<1>4. Store!TypeOK'
  BY <1>1, <1>3
     DEF Store!IInv, Store!TypeOK, StoreMoves, Store!server, Store!page, Store!flags, Store!ghosts
<1>5. Store!VersionInv'
  BY <1>1 DEF Store!IInv, Store!VersionInv, Store!server, Store!page, Store!ghosts
<1>6. Store!OverInv'
  BY <1>1, <1>2, <1>3, MovesOver DEF Store!flags
<1>7. Store!AnswersInv'
  <2> SUFFICES ASSUME latest > 0, NEW t \in Sections, loads'[latest].got[t] = "answered"
               PROVE  /\ 0 < loads'[latest].data[t] /\ loads'[latest].data[t] <= version[t]
                      /\ held[t] <= loads'[latest].data[t] /\ promised[t] <= loads'[latest].data[t]
    BY <1>1 DEF Store!AnswersInv, Store!server, Store!page, Store!ghosts
  <2>1. CASE i = latest /\ t = s
    <3>1. g = "answered" /\ loads'[latest].data[t] = d
      BY <1>a, <1>3, <2>1 DEF StoreMoves
    <3>2. d = version[s]
      BY <1>a, <3>1
    <3> QED
      BY <2>1, <3>1, <3>2 DEF Store!IInv, Store!TypeOK, Store!VersionInv
  <2>2. CASE ~(i = latest /\ t = s)
    <3>1. /\ loads'[latest].got[t] = loads[latest].got[t]
          /\ loads'[latest].data[t] = loads[latest].data[t]
      BY <1>3, <2>2, LatestLoad DEF StoreMoves, Store!IInv
    <3> QED
      BY <3>1 DEF Store!IInv, Store!AnswersInv
  <2> QED
    BY <2>1, <2>2
<1>8. Store!RefusedInv'
  <2>1. latest > 0 => loads'[latest].me = loads[latest].me
    BY <1>3, LatestLoad DEF StoreMoves, Store!IInv
  <2> QED
    BY <1>1, <2>1 DEF Store!IInv, Store!RefusedInv, Store!ghosts
<1>9. /\ latest > 0 /\ latest # i => Store!Pending(latest)' = Store!Pending(latest)
      /\ latest = i => \/ Store!Pending(latest)' = Store!Pending(latest)
                       \/ loads[latest].me = "no" /\ loads'[latest].me = "no"
  <2>1. g = "answered" => Store!Pending(i)' = Store!Pending(i)
    BY <1>1, <1>2, <1>3, MovesPending DEF Store!IInv
  <2>2. i # latest /\ latest > 0 => loads'[latest] = loads[latest]
    BY <1>3, LatestLoad DEF StoreMoves, Store!IInv
  <2>4. i # latest /\ latest > 0 => Store!Pending(latest)' = Store!Pending(latest)
    BY <1>1, <2>2 DEF Store!Pending
  <2>5. i = latest /\ g = "answered" => Store!Pending(latest)' = Store!Pending(latest)
    BY <1>1, <2>1 DEF Store!Pending
  <2> QED
    BY <1>a, <1>3, <2>4, <2>5 DEF StoreMoves
<1>10. Store!RouteInv'
  <2>1. latest > 0 => loads'[latest].me = loads[latest].me
    BY <1>3, LatestLoad DEF StoreMoves, Store!IInv
  <2> QED
    BY <1>1, <1>9, <2>1 DEF Store!IInv, Store!RouteInv, Store!page, Store!flags
<1>11. Store!ResyncInv'
  <2> SUFFICES ASSUME NEW t \in loaded
               PROVE  \/ held[t] >= promised[t]
                      \/ t \in errors \cup overrun
                      \/ latest > 0 /\ t \in Store!Pending(latest)'
    BY <1>1 DEF Store!ResyncInv, Store!page, Store!ghosts
  <2>1. t \in Sections /\ held[t] \in Nat
    BY DEF Store!IInv, Store!TypeOK
  <2>2. latest > 0 /\ loads[latest].me = "no" => promised[t] = 0
    BY <2>1 DEF Store!IInv, Store!RefusedInv
  <2>3. latest = i => latest > 0
    BY <1>1 DEF Store!Started, Store!IInv, Store!TypeOK
  <2>4. CASE latest > 0 /\ Store!Pending(latest)' = Store!Pending(latest)
    BY <2>4 DEF Store!IInv, Store!ResyncInv
  <2>5. CASE latest > 0 /\ loads[latest].me = "no"
    BY <2>1, <2>2, <2>5
  <2>6. CASE ~(latest > 0)
    BY <2>6 DEF Store!IInv, Store!ResyncInv
  <2> QED
    BY <1>9, <2>4, <2>5, <2>6
<1> QED
  BY <1>4, <1>5, <1>6, <1>7, <1>8, <1>10, <1>11 DEF Store!IInv

LEMMA FailSectionIInv ==
  ASSUME Store!IInv, NEW i \in 1..MaxLoads, NEW s \in Sections, Store!FailSection(i, s)
  PROVE  Store!IInv'
<1>1. /\ i \in Store!Started /\ s \in Store!Pending(i)
      /\ loads' = [loads EXCEPT ![i].got[s] = "done"]
      /\ errors' = IF i = latest THEN errors \cup {s} ELSE errors
      /\ loaded' = loaded
      /\ UNCHANGED <<Store!server, path, moves, viewer, held, Store!flags, latest, due,
                     Store!ghosts>>
  BY DEF Store!FailSection, Store!Pending, Store!IsLatest, Store!Failure
<1>2. "done" \in Stages
  BY DEF Stages
<1>3. StoreMoves(i, s, "done", loads[i].data[s])
  BY <1>1, <1>2, LoadMovesBare DEF Store!IInv
<1>4. Store!TypeOK'
  BY <1>1, <1>3 DEF Store!IInv, Store!TypeOK, StoreMoves, Store!server, Store!flags, Store!ghosts
<1>5. Store!VersionInv'
  BY <1>1 DEF Store!IInv, Store!VersionInv, Store!server, Store!ghosts
<1>6. Store!OverInv'
  BY <1>1, <1>2, <1>3, MovesOver DEF Store!flags
<1>7. Store!AnswersInv'
  <2> SUFFICES ASSUME latest > 0, NEW t \in Sections, loads'[latest].got[t] = "answered"
               PROVE  /\ 0 < loads'[latest].data[t] /\ loads'[latest].data[t] <= version[t]
                      /\ held[t] <= loads'[latest].data[t] /\ promised[t] <= loads'[latest].data[t]
    BY <1>1 DEF Store!AnswersInv, Store!server, Store!ghosts
  <2>1. /\ loads'[latest].got[t] = loads[latest].got[t]
        /\ loads'[latest].data[t] = loads[latest].data[t]
    BY <1>3, LatestLoad DEF StoreMoves, Store!IInv
  <2> QED
    BY <2>1 DEF Store!IInv, Store!AnswersInv
<1>8. latest > 0 => loads'[latest].me = loads[latest].me
  BY <1>3, LatestLoad DEF StoreMoves, Store!IInv
<1>9. /\ latest > 0 /\ latest # i => Store!Pending(latest)' = Store!Pending(latest)
      /\ latest = i => Store!Pending(latest)' = Store!Pending(latest) \ {s}
  <2>1. Store!Pending(i)' = Store!Pending(i) \ {s} /\ \A j \in 1..MaxLoads :
          j # i => Store!Pending(j)' = Store!Pending(j)
    BY <1>1, <1>2, <1>3, MovesPending DEF Store!IInv
  <2>2. latest > 0 => latest \in 1..MaxLoads
    BY LatestLoad DEF Store!IInv
  <2> QED
    BY <1>1, <2>1, <2>2 DEF Store!Pending
<1>10. Store!RefusedInv'
  BY <1>1, <1>8 DEF Store!IInv, Store!RefusedInv, Store!ghosts
<1>11. Store!RouteInv'
  BY <1>1, <1>8, <1>9 DEF Store!IInv, Store!RouteInv, Store!flags
<1>12. Store!ResyncInv'
  BY <1>1, <1>9 DEF Store!IInv, Store!ResyncInv, Store!ghosts
<1> QED
  BY <1>4, <1>5, <1>6, <1>7, <1>10, <1>11, <1>12 DEF Store!IInv

LEMMA CommitIInv ==
  ASSUME Store!IInv, NEW i \in 1..MaxLoads, NEW s \in Sections, Store!Commit(i, s)
  PROVE  Store!IInv'
<1>1. /\ i \in Store!Started /\ s \in Store!Pending(i) /\ i = latest /\ latest > 0
      /\ loads[i].got[s] = "answered"
      /\ loads' = [loads EXCEPT ![i].got[s] = "done", ![i].data[s] = 0]
      /\ held' = [held EXCEPT ![s] = loads[i].data[s]]
      /\ loaded' = loaded \cup {s} /\ errors' = errors \ {s} /\ overrun' = overrun \ {s}
      /\ UNCHANGED <<Store!server, path, moves, viewer, Store!flags, latest, due, promised>>
  BY DEF Store!Commit, Store!Pending, Store!IsLatest, Store!Started
<1>2. "done" \in Stages /\ 0 \in 0..MaxVersion
  BY DEF Stages
<1>3. StoreMoves(i, s, "done", 0)
  BY <1>1, <1>2, LoadMoves DEF Store!IInv
<1>4. PICK n \in 1..MaxVersion :
        n = loads[i].data[s] /\ held[s] <= n /\ promised[s] <= n /\ n <= version[s]
  <2>1. loads[i].data[s] \in 0..MaxVersion
    BY <1>1, LatestLoad DEF Store!Load, Store!IInv
  <2> QED
    BY <1>1, <2>1 DEF Store!IInv, Store!AnswersInv
<1>5. held'[s] = n /\ \A t \in Sections : t # s => held'[t] = held[t]
  BY <1>1, <1>4 DEF Store!IInv, Store!TypeOK
<1>6. Store!TypeOK'
  <2>1. held' \in [Sections -> 0..MaxVersion]
    BY <1>1, <1>4 DEF Store!IInv, Store!TypeOK
  <2>2. loaded' = {t \in Sections : held'[t] > 0}
    BY <1>1, <1>4, <1>5 DEF Store!IInv, Store!TypeOK
  <2> QED
    BY <1>1, <1>3, <2>1, <2>2 DEF Store!IInv, Store!TypeOK, StoreMoves, Store!server, Store!flags
<1>7. Store!VersionInv'
  BY <1>1, <1>4, <1>5 DEF Store!IInv, Store!VersionInv, Store!server
<1>8. Store!OverInv'
  BY <1>1, <1>2, <1>3, MovesOver DEF Store!flags
<1>9. Store!AnswersInv'
  <2> SUFFICES ASSUME NEW t \in Sections, loads'[latest].got[t] = "answered"
               PROVE  /\ 0 < loads'[latest].data[t] /\ loads'[latest].data[t] <= version[t]
                      /\ held'[t] <= loads'[latest].data[t] /\ promised[t] <= loads'[latest].data[t]
    BY <1>1 DEF Store!AnswersInv, Store!server
  <2>1. t # s
    BY <1>1, <1>3 DEF StoreMoves
  <2>2. /\ loads'[latest].got[t] = loads[latest].got[t]
        /\ loads'[latest].data[t] = loads[latest].data[t]
    BY <1>1, <1>3, <2>1 DEF StoreMoves
  <2> QED
    BY <1>1, <1>5, <2>1, <2>2 DEF Store!IInv, Store!AnswersInv
<1>10. loads'[latest].me = loads[latest].me /\ Store!Pending(latest)' = Store!Pending(latest) \ {s}
  <2>1. Store!Pending(i)' = Store!Pending(i) \ {s}
    BY <1>1, <1>2, <1>3, MovesPending DEF Store!IInv
  <2> QED
    BY <1>1, <1>3, <2>1 DEF StoreMoves, Store!Pending
<1>11. Store!RefusedInv'
  BY <1>1, <1>10 DEF Store!IInv, Store!RefusedInv
<1>12. Store!RouteInv'
  BY <1>1, <1>10 DEF Store!IInv, Store!RouteInv, Store!flags
<1>13. Store!ResyncInv'
  BY <1>1, <1>4, <1>5, <1>10 DEF Store!IInv, Store!ResyncInv, Store!TypeOK
<1> QED
  BY <1>6, <1>7, <1>8, <1>9, <1>11, <1>12, <1>13 DEF Store!IInv

LEMMA AbandonIInv ==
  ASSUME Store!IInv, NEW i \in 1..MaxLoads, NEW s \in Sections, Store!Abandon(i, s)
  PROVE  Store!IInv'
<1>1. /\ i \in Store!Started /\ s \in Store!Pending(i) /\ i # latest
      /\ loads' = [loads EXCEPT ![i].got[s] = "done", ![i].data[s] = 0]
      /\ UNCHANGED <<Store!server, path, moves, Store!page, Store!flags, latest, due, Store!ghosts>>
  BY DEF Store!Abandon, Store!Pending
<1>2. "done" \in Stages /\ 0 \in 0..MaxVersion
  BY DEF Stages
<1>3. StoreMoves(i, s, "done", 0)
  BY <1>1, <1>2, LoadMoves DEF Store!IInv
<1>4. Store!TypeOK'
  BY <1>1, <1>3
     DEF Store!IInv, Store!TypeOK, StoreMoves, Store!server, Store!page, Store!flags, Store!ghosts
<1>5. Store!OverInv'
  BY <1>1, <1>2, <1>3, MovesOver DEF Store!flags
<1>6. latest > 0 => loads'[latest] = loads[latest]
  BY <1>1, <1>3, LatestLoad DEF StoreMoves, Store!IInv
<1>7. latest > 0 => Store!Pending(latest)' = Store!Pending(latest)
  BY <1>1, <1>6 DEF Store!Pending
<1>8. Store!VersionInv' /\ Store!AnswersInv' /\ Store!RefusedInv'
  BY <1>1, <1>6
     DEF Store!IInv, Store!VersionInv, Store!AnswersInv, Store!RefusedInv, Store!server,
         Store!page, Store!ghosts
<1>9. Store!RouteInv' /\ Store!ResyncInv'
  BY <1>1, <1>6, <1>7
     DEF Store!IInv, Store!RouteInv, Store!ResyncInv, Store!page, Store!flags, Store!ghosts
<1> QED
  BY <1>4, <1>5, <1>8, <1>9 DEF Store!IInv

LEMMA FinishIInv ==
  ASSUME Store!IInv, NEW i \in 1..MaxLoads, Store!Finish(i)
  PROVE  Store!IInv'
<1>1. /\ i = latest /\ latest > 0 /\ latest \in Store!Started
      /\ loads[i].me # "asked" /\ Store!Pending(i) = {}
      /\ loads' = [loads EXCEPT ![i].over = TRUE]
      /\ isLoading' = FALSE /\ hasLoaded' = TRUE
      /\ due' = (due \/ ~hasLoaded)
      /\ UNCHANGED <<Store!server, path, moves, Store!page, latest, Store!ghosts>>
  BY DEF Store!Finish, Store!Settled, Store!IsLatest, Store!Started
<1>2. loads \in [1..MaxLoads -> Store!Load] /\ loads[i] \in Store!Load
  BY DEF Store!IInv, Store!TypeOK
<1>3. PICK l : l = [loads[i] EXCEPT !.over = TRUE]
  OBVIOUS
<1>4. l \in Store!Load /\ l.me = loads[i].me /\ l.got = loads[i].got /\ l.data = loads[i].data
  BY <1>2, <1>3 DEF Store!Load
<1>5. /\ loads' \in [1..MaxLoads -> Store!Load] /\ loads'[i] = l
      /\ \A j \in 1..MaxLoads : j # i => loads'[j] = loads[j]
  BY <1>1, <1>2, <1>3, <1>4
<1>6. due' \in BOOLEAN
  BY <1>1, Zenon
<1>7. Store!TypeOK'
  BY <1>1, <1>5, <1>6 DEF Store!IInv, Store!TypeOK, Store!server, Store!page, Store!ghosts
<1>8. \A j \in 1..MaxLoads : Store!Pending(j)' = Store!Pending(j) /\ loads'[j].me = loads[j].me
  BY <1>4, <1>5 DEF Store!Pending
<1>9. latest \in 1..MaxLoads /\ loads'[latest].data = loads[latest].data
      /\ loads'[latest].got = loads[latest].got /\ Store!Started \subseteq 1..MaxLoads
  BY <1>1, <1>4, <1>5 DEF Store!IInv, Store!TypeOK, Store!Started
<1>10. Store!VersionInv' /\ Store!AnswersInv' /\ Store!RefusedInv'
  BY <1>1, <1>8, <1>9
     DEF Store!IInv, Store!VersionInv, Store!AnswersInv, Store!RefusedInv, Store!server,
         Store!page, Store!ghosts
<1>11. Store!OverInv'
  <2> SUFFICES ASSUME NEW j \in Store!Started, loads'[j].over
               PROVE  loads'[j].me # "asked" /\ Store!Pending(j)' = {}
    BY <1>1 DEF Store!OverInv, Store!Started
  <2>1. CASE j = i
    BY <1>1, <1>8, <2>1
  <2>2. CASE j # i
    <3>1. loads'[j] = loads[j]
      BY <1>5, <1>9, <2>2
    <3> QED
      BY <1>8, <1>9, <3>1 DEF Store!IInv, Store!OverInv
  <2> QED
    BY <2>1, <2>2
<1>12. Store!RouteInv' /\ Store!ResyncInv'
  <2>1. Store!Pending(latest)' = Store!Pending(latest) /\ loads'[latest].me = loads[latest].me
    BY <1>1, <1>8, <1>9 DEF Store!Pending
  <2>2. ~due' => ~due /\ hasLoaded
    BY <1>1
  <2>3. Store!RouteInv'
    BY <1>1, <2>1, <2>2 DEF Store!IInv, Store!RouteInv, Store!page
  <2>4. Store!ResyncInv'
    BY <1>1, <2>1 DEF Store!IInv, Store!ResyncInv, Store!page, Store!ghosts
  <2> QED
    BY <2>3, <2>4
<1> QED
  BY <1>7, <1>10, <1>11, <1>12 DEF Store!IInv

\* A load that learns whether there is an account.
LEMMA MeMoves ==
  ASSUME Store!TypeOK, NEW i \in 1..MaxLoads, loads' = [loads EXCEPT ![i].me = "yes"]
  PROVE  /\ loads' \in [1..MaxLoads -> Store!Load]
         /\ \A j \in 1..MaxLoads : j # i => loads'[j] = loads[j]
         /\ loads'[i].me = "yes" /\ loads'[i].got = loads[i].got
         /\ loads'[i].data = loads[i].data /\ loads'[i].over = loads[i].over
<1>1. loads \in [1..MaxLoads -> Store!Load] /\ loads[i] \in Store!Load
  BY DEF Store!TypeOK
<1>2. PICK l : l = [loads[i] EXCEPT !.me = "yes"]
  OBVIOUS
<1>3. l \in Store!Load /\ l.me = "yes" /\ l.got = loads[i].got /\ l.data = loads[i].data
      /\ l.over = loads[i].over
  BY <1>1, <1>2 DEF Store!Load
<1>4. loads' = [loads EXCEPT ![i] = l]
  BY <1>2
<1> QED
  BY <1>1, <1>3, <1>4

\* A load without an account keeps no answer.
LEMMA RefusalMoves ==
  ASSUME Store!TypeOK, NEW i \in 1..MaxLoads,
         loads' = [loads EXCEPT ![i].me = "no", ![i].got = Store!Without(i),
                                ![i].data = [s \in Sections |-> 0]]
  PROVE  /\ loads' \in [1..MaxLoads -> Store!Load]
         /\ \A j \in 1..MaxLoads : j # i => loads'[j] = loads[j]
         /\ loads'[i].me = "no" /\ loads'[i].over = loads[i].over
         /\ \A s \in Sections : loads'[i].got[s] # "answered"
<1>1. loads \in [1..MaxLoads -> Store!Load] /\ loads[i] \in Store!Load
  BY DEF Store!TypeOK
<1>2. PICK w : w = Store!Without(i)
  OBVIOUS
<1>3. w \in [Sections -> Stages] /\ \A s \in Sections : w[s] # "answered"
  <2>1. loads[i].got \in [Sections -> Stages]
    BY <1>1 DEF Store!Load, Stages
  <2> QED
    BY <1>2, <2>1 DEF Store!Without, Stages
<1>4. PICK z : z = [s \in Sections |-> 0]
  OBVIOUS
<1>5. z \in [Sections -> 0..MaxVersion]
  BY <1>4
<1>6. PICK l : l = [loads[i] EXCEPT !.me = "no", !.got = w, !.data = z]
  OBVIOUS
<1>7. l \in Store!Load
  BY <1>1, <1>3, <1>5, <1>6 DEF Store!Load, Stages
<1>8. l.me = "no" /\ l.got = w /\ l.over = loads[i].over
  BY <1>1, <1>6 DEF Store!Load
<1>9. loads' = [loads EXCEPT ![i] = l]
  BY <1>2, <1>4, <1>6
<1>10. loads' \in [1..MaxLoads -> Store!Load] /\ loads'[i] = l
       /\ \A j \in 1..MaxLoads : j # i => loads'[j] = loads[j]
  BY <1>1, <1>7, <1>9
<1> QED
  BY <1>3, <1>8, <1>10

LEMMA AnswerMeIInv ==
  ASSUME Store!IInv, NEW i \in 1..MaxLoads, Store!AnswerMe(i)
  PROVE  Store!IInv'
<1>1. /\ i \in Store!Started /\ loads[i].me = "asked" /\ latest > 0
      /\ UNCHANGED <<Store!server, path, moves, held, loaded, errors, Store!flags, latest, overrun>>
  BY DEF Store!AnswerMe, Store!Started, Store!IInv, Store!TypeOK
<1>2. ~loads[i].over /\ Store!Started \subseteq 1..MaxLoads /\ Store!Started' = Store!Started
  BY <1>1 DEF Store!IInv, Store!OverInv, Store!Started, Store!TypeOK
<1>3. CASE /\ i = latest
           /\ loads' = [loads EXCEPT ![i].me = "yes"]
           /\ viewer' = TRUE /\ due' = TRUE /\ promised' = promised
  <2>1. /\ loads' \in [1..MaxLoads -> Store!Load]
        /\ \A j \in 1..MaxLoads : j # i => loads'[j] = loads[j]
        /\ loads'[i].me = "yes" /\ loads'[i].got = loads[i].got
        /\ loads'[i].data = loads[i].data /\ loads'[i].over = loads[i].over
    BY <1>3, MeMoves DEF Store!IInv
  <2>2. Store!TypeOK'
    BY <1>1, <1>3, <2>1 DEF Store!IInv, Store!TypeOK, Store!server, Store!flags
  <2>3. Store!VersionInv' /\ Store!RouteInv'
    BY <1>1, <1>3 DEF Store!IInv, Store!VersionInv, Store!RouteInv, Store!server
  <2>4. Store!AnswersInv' /\ Store!RefusedInv'
    BY <1>1, <1>3, <2>1 DEF Store!IInv, Store!AnswersInv, Store!RefusedInv, Store!server
  <2>5. Store!OverInv'
    BY <1>1, <1>2, <2>1 DEF Store!IInv, Store!OverInv, Store!Pending, Store!flags
  <2>6. Store!Pending(latest)' = Store!Pending(latest)
    BY <1>1, <1>3, <2>1 DEF Store!Pending
  <2>7. Store!ResyncInv'
    BY <1>1, <1>3, <2>6 DEF Store!IInv, Store!ResyncInv
  <2> QED
    BY <2>2, <2>3, <2>4, <2>5, <2>7 DEF Store!IInv
<1>4. CASE /\ loads' = [loads EXCEPT ![i].me = "no", ![i].got = Store!Without(i),
                                     ![i].data = [s \in Sections |-> 0]]
           /\ promised' = IF i = latest THEN [s \in Sections |-> 0] ELSE promised
           /\ UNCHANGED <<viewer, due>>
  <2>1. /\ loads' \in [1..MaxLoads -> Store!Load]
        /\ \A j \in 1..MaxLoads : j # i => loads'[j] = loads[j]
        /\ loads'[i].me = "no" /\ loads'[i].over = loads[i].over
        /\ \A s \in Sections : loads'[i].got[s] # "answered"
    BY <1>4, RefusalMoves DEF Store!IInv
  <2>2. promised' \in [Sections -> 0..MaxVersion]
    BY <1>4 DEF Store!IInv, Store!TypeOK
  <2>3. Store!TypeOK'
    BY <1>1, <1>4, <2>1, <2>2 DEF Store!IInv, Store!TypeOK, Store!server, Store!flags
  <2>4. Store!OverInv'
    BY <1>1, <1>2, <2>1 DEF Store!IInv, Store!OverInv, Store!Pending, Store!flags
  <2>5. Store!VersionInv'
    BY <1>1, <1>4 DEF Store!IInv, Store!VersionInv, Store!TypeOK, Store!server
  <2>6. CASE i = latest
    <3>1. \A s \in Sections : promised'[s] = 0
      BY <1>4, <2>6
    <3>2. Store!AnswersInv' /\ Store!RefusedInv' /\ Store!RouteInv'
      BY <1>1, <2>1, <2>6, <3>1 DEF Store!AnswersInv, Store!RefusedInv, Store!RouteInv
    <3>3. Store!ResyncInv'
      BY <2>3, <3>1 DEF Store!ResyncInv, Store!TypeOK
    <3> QED
      BY <2>3, <2>4, <2>5, <3>2, <3>3 DEF Store!IInv
  <2>7. CASE i # latest
    <3>1. loads'[latest] = loads[latest] /\ promised' = promised
      BY <1>1, <1>4, <2>1, <2>7, LatestLoad DEF Store!IInv
    <3>2. Store!Pending(latest)' = Store!Pending(latest)
      BY <1>1, <3>1 DEF Store!Pending
    <3>3. Store!AnswersInv' /\ Store!RefusedInv' /\ Store!RouteInv' /\ Store!ResyncInv'
      BY <1>1, <1>4, <3>1, <3>2
         DEF Store!IInv, Store!AnswersInv, Store!RefusedInv, Store!RouteInv, Store!ResyncInv,
             Store!server, Store!flags
    <3> QED
      BY <2>3, <2>4, <2>5, <3>3 DEF Store!IInv
  <2> QED
    BY <2>6, <2>7
<1> QED
  BY <1>3, <1>4 DEF Store!AnswerMe, Store!IsLatest

\* A fresh page, or one that has loaded.
LEMMA StoreInit == Store!Init => Store!IInv
<1> SUFFICES ASSUME Store!Init PROVE Store!IInv
  OBVIOUS
<1>1. loads \in [1..MaxLoads -> Store!Load]
  <2>1. [s \in Sections |-> 0] \in [Sections -> 0..MaxVersion]
    OBVIOUS
  <2>2. Store!NoLoad \in Store!Load
    BY <2>1 DEF Store!NoLoad, Store!Load
  <2> QED
    BY <2>2 DEF Store!Init
<1>2. Needs[Landing] \subseteq Sections /\ Landing \in Paths /\ loaded \subseteq Sections
  BY DEF Store!Init
<1>3. held \in [Sections -> 0..MaxVersion] /\ loaded = {s \in Sections : held[s] > 0}
  BY <1>2 DEF Store!Init
<1>4. Store!TypeOK
  <2>1. isLoading \in BOOLEAN
    BY DEF Store!Init
  <2>2. version \in [Sections -> 1..MaxVersion] /\ promised \in [Sections -> 0..MaxVersion]
    BY DEF Store!Init
  <2>3. changes \in 0..MaxChanges /\ moves \in 0..MaxMoves /\ latest \in 0..MaxLoads
    BY DEF Store!Init
  <2>4. path \in Paths /\ viewer \in BOOLEAN /\ hasLoaded \in BOOLEAN /\ due \in BOOLEAN
        /\ errors = {} /\ overrun = {}
    BY DEF Store!Init
  <2> QED
    BY <1>1, <1>3, <2>1, <2>2, <2>3, <2>4 DEF Store!TypeOK
<1>5. /\ Store!VersionInv /\ Store!AnswersInv /\ Store!OverInv /\ Store!RefusedInv
      /\ Store!RouteInv /\ Store!ResyncInv
  BY <1>3
     DEF Store!Init, Store!VersionInv, Store!AnswersInv, Store!OverInv, Store!Started,
         Store!RefusedInv, Store!RouteInv, Store!ResyncInv
<1> QED
  BY <1>4, <1>5 DEF Store!IInv

LEMMA StoreStutter == Store!IInv /\ UNCHANGED Store!vars => Store!IInv'
BY DEF Store!vars, Store!server, Store!page, Store!flags, Store!ghosts, Store!IInv, Store!TypeOK,
   Store!VersionInv, Store!AnswersInv, Store!OverInv, Store!Started,
       Store!RefusedInv, Store!RouteInv, Store!ResyncInv, Store!Pending

LEMMA StoreNext == Store!IInv /\ [Store!Next]_Store!vars => Store!IInv'
<1> SUFFICES ASSUME Store!IInv, Store!Next PROVE Store!IInv'
  BY StoreStutter
<1>1. ASSUME NEW i \in 1..MaxLoads, Store!Progress(i) PROVE Store!IInv'
  BY <1>1, AnswerMeIInv, FinishIInv, AnswerIInv, FailSectionIInv, CommitIInv, AbandonIInv
     DEF Store!Progress
<1> QED
  BY <1>1, ChangeIInv, NavigateIInv, RefreshIInv, TopUpIInv DEF Store!Next

\* The invariant of the store, for any sections, pages, loads and changes.
THEOREM StoreInductive == Store!Spec => []Store!IInv
<1> QED
  BY StoreInit, StoreNext, PTL DEF Store!Spec

\* What is on its way in a load that is over is nothing.
LEMMA AtRestServed == Store!IInv => PagesServed
<1> SUFFICES ASSUME Store!IInv PROVE PagesServed
  OBVIOUS
<1>1. ASSUME Store!AtRest
      PROVE  latest > 0 /\ ~due /\ hasLoaded /\ Store!Pending(latest) = {}
  BY <1>1, LatestLoad DEF Store!AtRest, Store!IInv, Store!OverInv
<1>2. Store!RouteServed
  BY <1>1 DEF Store!RouteServed, Store!IInv, Store!RouteInv
<1>3. Store!Resynced
  BY <1>1 DEF Store!Resynced, Store!IInv, Store!ResyncInv
<1> QED
  BY <1>2, <1>3 DEF PagesServed, Store!Served, Store!IInv

\* refreshChapterData and the top-up of ChapterContext: a page at rest has asked for all that
\* it reads, and shows nothing older than what the last refresh promised, but for what failed
\* or was overrun by a later load.
THEOREM PagesServedAlways == Store!Spec => []PagesServed
<1> QED
  BY StoreInductive, AtRestServed, PTL

Onward == \A s \in Sections : held'[s] >= held[s]

LEMMA OnwardStep == Store!IInv /\ [Store!Next]_Store!vars => Onward
<1> SUFFICES ASSUME Store!IInv, [Store!Next]_Store!vars PROVE Onward
  OBVIOUS
<1>1. CASE UNCHANGED held
  BY <1>1 DEF Onward, Store!IInv, Store!TypeOK
<1>2. ASSUME NEW i \in 1..MaxLoads, NEW s \in Sections, Store!Commit(i, s)
      PROVE  Onward
  <2>1. /\ i = latest /\ latest > 0 /\ loads[i].got[s] = "answered"
        /\ held' = [held EXCEPT ![s] = loads[i].data[s]]
    BY <1>2 DEF Store!Commit, Store!IsLatest, Store!Started
  <2>2. loads[i].data[s] >= held[s]
    BY <2>1, LatestLoad DEF Store!IInv, Store!AnswersInv, Store!TypeOK, Store!Load
  <2> QED
    BY <2>1, <2>2 DEF Onward, Store!IInv, Store!TypeOK
<1>3. UNCHANGED held \/ \E i \in 1..MaxLoads, s \in Sections : Store!Commit(i, s)
  BY DEF Store!Next, Store!Change, Store!Navigate, Store!Refresh, Store!TopUp, Store!Progress,
     Store!AnswerMe, Store!Finish, Store!Answer, Store!FailSection,
         Store!Abandon, Store!vars, Store!page
<1> QED
  BY <1>1, <1>2, <1>3

\* However the answers of overlapping loads come in, no section of a page goes back to older
\* data: only the latest load is applied, and its answers are newer than the page.
THEOREM NoGoingBackAlways == Store!Spec => NoGoingBack
<1>1. Store!IInv /\ [Store!Next]_Store!vars => Onward
  BY OnwardStep
<1>2. [][Onward]_Store!vars => NoGoingBack
  BY PTL DEF NoGoingBack, Store!NoGoingBack, Onward
<1> QED
  BY <1>1, <1>2, StoreInductive, PTL DEF Store!Spec

-----------------------------------------------------------------------------
(* The three together *)

\* A behaviour of MCEdits is a behaviour of each of its parts, so that what the theorems say
\* of a part holds of the specification that the run checks.
THEOREM EditsApart == MCSpec => Spec /\ Page!Spec /\ Store!Spec
<1>1. MCInit => Init /\ Page!Init /\ Store!Init
  BY DEF MCInit
<1>2. [MCNext]_<<part, vars, pageVars, storeVars>> =>
        [Next]_vars /\ [Page!Next]_Page!vars /\ [Store!Next]_Store!vars
  BY DEF MCNext, vars, pageVars, storeVars, Page!vars, Store!vars, Store!server, Store!page,
         Store!flags, Store!ghosts
<1> QED
  BY <1>1, <1>2, PTL DEF MCSpec, Spec, Page!Spec, Store!Spec
=============================================================================
