--------------------------- MODULE TenancyProofs ---------------------------
(***************************************************************************)
(* Theorems about Tenancy for any chapters, people and requests.  IInv is  *)
(* inductive.  Two facts about requests on their way carry it: an account  *)
(* that was counted has one membership, and one that is about to be        *)
(* deleted none elsewhere, but of who joined since the count (DoomInv);    *)
(* and where a membership is about to go the grants and the records are    *)
(* gone, but stale ones (DropInv).                                         *)
(***************************************************************************)
EXTENDS Tenancy, FiniteSetTheorems, TLAPS

JobsType == pc \in [Workers -> Steps] /\ job \in [Workers -> Job]

\* What a request that only ends leaves of the others.
Quiet ==
  /\ JobsType' /\ JobsInv'
  /\ \A v \in Workers, p \in People :
       Doomed(v, p)' => /\ Doomed(v, p) /\ pc'[v] = pc[v] /\ job'[v].org = job[v].org
                        /\ job[v].joined \subseteq job'[v].joined
  /\ \A v \in Workers :
       pc'[v] = "dropping" => pc[v] = "dropping" /\ Pair(v)' = Pair(v)

LEMMA NullJobType == NoJob \in Job /\ NoJob.org = None /\ NoJob.who = None
BY DEF NoJob, Job, Nowhere

\* A step of w leaves the other requests alone.
LEMMA Moves ==
  ASSUME JobsType, NEW w \in Workers, NEW step \in Steps, NEW j \in Job, Goto(w, step, j)
  PROVE  /\ JobsType'
         /\ pc'[w] = step /\ job'[w] = j
         /\ \A v \in Workers \ {w} : pc'[v] = pc[v] /\ job'[v] = job[v]
BY DEF JobsType, Goto

LEMMA FinishIsQuiet ==
  ASSUME JobsType, JobsInv, NEW w \in Workers, Finish(w)
  PROVE  Quiet
<1>1. /\ JobsType' /\ pc'[w] = "idle"
      /\ \A v \in Workers \ {w} : pc'[v] = pc[v] /\ job'[v] = job[v]
  BY Moves, NullJobType DEF Finish, Steps
<1>2. JobsInv'
  BY <1>1 DEF JobsInv, AboutOne, Writing
<1>3. ASSUME NEW v \in Workers, NEW p \in People, Doomed(v, p)'
      PROVE  /\ Doomed(v, p) /\ pc'[v] = pc[v] /\ job'[v].org = job[v].org
             /\ job[v].joined \subseteq job'[v].joined
  BY <1>1, <1>3 DEF Doomed
<1>4. ASSUME NEW v \in Workers, pc'[v] = "dropping"
      PROVE  pc[v] = "dropping" /\ Pair(v)' = Pair(v)
  BY <1>1, <1>4 DEF Pair
<1> QED
  BY <1>1, <1>2, <1>3, <1>4 DEF Quiet

LEMMA EndHoldersIsQuiet ==
  ASSUME JobsType, JobsInv, NEW w \in Workers, NEW S \in SUBSET People, EndHolders(w, S)
  PROVE  Quiet
<1>1. JobsType'
  BY NullJobType DEF EndHolders, JobsType, Steps, Job
<1>2. \A v \in Workers :
        \/ pc'[v] = "idle"
        \/ /\ pc'[v] = pc[v] /\ job'[v].org = job[v].org /\ job'[v].who = job[v].who
           /\ job'[v].dest = job[v].dest /\ job'[v].homes = job[v].homes \ S
           /\ job'[v].joined = job[v].joined
  BY DEF EndHolders, JobsType, Job
<1>3. JobsInv'
  BY <1>2 DEF JobsInv, AboutOne, Writing
<1>4. ASSUME NEW v \in Workers, NEW p \in People, Doomed(v, p)'
      PROVE  /\ Doomed(v, p) /\ pc'[v] = pc[v] /\ job'[v].org = job[v].org
             /\ job[v].joined \subseteq job'[v].joined
  BY <1>2, <1>4 DEF Doomed
<1>5. ASSUME NEW v \in Workers, pc'[v] = "dropping"
      PROVE  pc[v] = "dropping" /\ Pair(v)' = Pair(v)
  BY <1>2, <1>5 DEF Pair
<1> QED
  BY <1>1, <1>3, <1>4, <1>5 DEF Quiet

LEMMA JoinIsQuiet ==
  ASSUME JobsType, JobsInv, NEW w \in Workers, NEW p \in People, Join(w, p)
  PROVE  /\ Quiet
         /\ \A v \in Workers, q \in People : Doomed(v, q)' /\ q = p => q \in job'[v].joined
<1>1. JobsType'
  BY NullJobType DEF Join, JobsType, Steps, Job
<1>2. /\ pc'[w] = "idle"
      /\ \A v \in Workers \ {w} :
           /\ pc'[v] = pc[v]
           /\ job'[v].org = job[v].org /\ job'[v].who = job[v].who
           /\ job'[v].dest = job[v].dest /\ job'[v].homes = job[v].homes
           /\ job[v].joined \subseteq job'[v].joined
           /\ Doomed(v, p) => p \in job'[v].joined
  BY DEF Join, JobsType, Job
<1>3. JobsInv'
  BY <1>2 DEF JobsInv, AboutOne, Writing
<1>4. ASSUME NEW v \in Workers, NEW q \in People, Doomed(v, q)'
      PROVE  /\ Doomed(v, q) /\ pc'[v] = pc[v] /\ job'[v].org = job[v].org
             /\ job[v].joined \subseteq job'[v].joined
             /\ q = p => q \in job'[v].joined
  BY <1>2, <1>4 DEF Doomed
<1>5. ASSUME NEW v \in Workers, pc'[v] = "dropping"
      PROVE  pc[v] = "dropping" /\ Pair(v)' = Pair(v)
  BY <1>2, <1>5 DEF Pair
<1> QED
  BY <1>1, <1>2, <1>3, <1>4, <1>5 DEF Quiet

\* Memberships that go doom nobody else, and rows that go leave none behind.
LEMMA Fewer ==
  ASSUME Quiet, DoomInv, DropInv, IsFiniteSet(members),
         members' \subseteq members,
         (grants' \cup records') \ stale' \subseteq (grants \cup records) \ stale
  PROVE  DoomInv' /\ DropInv' /\ IsFiniteSet(members')
<1>1. DoomInv'
  BY DEF Quiet, DoomInv, Kept, About
<1>2. DropInv'
  BY DEF Quiet, DropInv
<1>3. IsFiniteSet(members')
  BY FS_Subset
<1> QED
  BY <1>1, <1>2, <1>3

\* The type without the requests.
TablesOK ==
  /\ orgs \subseteq Orgs
  /\ home \in [People -> orgs \cup {None}]
  /\ members \subseteq Anchored /\ grants \subseteq Anchored /\ records \subseteq Anchored
  /\ departed \subseteq Pairs /\ stale \subseteq Pairs

LEMMA Parts ==
  ASSUME IInv
  PROVE  /\ JobsType /\ TablesOK /\ JobsInv /\ DoomInv /\ DropInv /\ Erasure /\ NoStaleGrant
         /\ IsFiniteSet(members)
BY DEF IInv, TypeOK, TablesOK, JobsType

LEMMA InitIInv == Init => IInv
<1> SUFFICES ASSUME Init PROVE IInv
  OBVIOUS
<1>1. TypeOK
  BY NullJobType DEF Init, TypeOK, Steps, Nowhere, Anchored, Pairs
<1>2. IsFiniteSet(members)
  BY FS_EmptySet DEF Init
<1> QED
  BY <1>1, <1>2 DEF Init, IInv, JobsInv, AboutOne, Writing, DoomInv, Doomed, DropInv, Erasure,
    NoStaleGrant

LEMMA StutterIInv == IInv /\ UNCHANGED vars => IInv'
BY DEF IInv, TypeOK, Anchored, JobsInv, DoomInv, Kept, Doomed, About, DropInv, Pair, Erasure,
  NoStaleGrant, vars

\* A request that is about one person names a pair.
LEMMA PairType ==
  ASSUME JobsInv, NEW w \in Workers, pc[w] \in AboutOne
  PROVE  /\ job[w].org \in Orgs /\ job[w].who \in People
         /\ Pair(w) \in Pairs /\ Pair(w) = <<job[w].org, job[w].who>>
         /\ Pair(w)[1] = job[w].org /\ Pair(w)[2] = job[w].who
BY DEF JobsInv, Pair, Pairs

\* The steps that leave the tables alone and doom nobody.
LEMMA StartIInv ==
  ASSUME IInv, NEW w \in Workers, NEW step \in Steps, NEW j \in Job, Goto(w, step, j),
         UNCHANGED <<tables, ghosts>>,
         step \notin {"counted", "deleting", "dropping", "rehoming"},
         step \in AboutOne => j.org \in Orgs /\ j.who \in People,
         step = "tearing" => j.org \in Orgs
  PROVE  IInv'
<1>0. JobsType /\ TablesOK /\ JobsInv /\ DoomInv /\ DropInv /\ Erasure /\ NoStaleGrant
      /\ IsFiniteSet(members)
  BY Parts
<1>1. /\ JobsType' /\ pc'[w] = step /\ job'[w] = j
      /\ \A v \in Workers \ {w} : pc'[v] = pc[v] /\ job'[v] = job[v]
  BY <1>0, Moves
<1>2. JobsInv'
  BY <1>0, <1>1 DEF JobsInv
<1>3. DoomInv'
  <2>1. ASSUME NEW v \in Workers, NEW p \in People, Doomed(v, p)'
        PROVE  Doomed(v, p) /\ pc'[v] = pc[v] /\ job'[v] = job[v]
    BY <1>1, <2>1 DEF Doomed
  <2> QED
    BY <1>0, <2>1 DEF DoomInv, Kept, About, tables, ghosts
<1>4. DropInv'
  BY <1>0, <1>1 DEF DropInv, Pair, tables, ghosts
<1>5. TablesOK' /\ Erasure' /\ NoStaleGrant' /\ IsFiniteSet(members')
  BY <1>0 DEF TablesOK, Anchored, Erasure, NoStaleGrant, tables, ghosts
<1> QED
  BY <1>1, <1>2, <1>3, <1>4, <1>5 DEF IInv, TypeOK, TablesOK, JobsType

LEMMA StartsIInv ==
  ASSUME IInv, NEW w \in Workers, Start(w)
  PROVE  IInv'
<1>1. CASE \E o \in Orgs : StartTeardown(w, o)
  <2>1. PICK o \in Orgs : StartTeardown(w, o)
    BY <1>1
  <2>2. [NoJob EXCEPT !.org = o, !.homes = {p \in People : home[p] = o}] \in Job
    BY NullJobType DEF Job, NoJob
  <2>3. PICK j \in Job : Goto(w, "tearing", j) /\ j.org = o
    BY <2>1, <2>2 DEF StartTeardown, NoJob
  <2> QED
    BY <2>1, <2>3, StartIInv DEF StartTeardown, Steps, AboutOne, Writing
<1>2. CASE \E o \in Orgs, p \in People : StartApproval(w, o, p)
  <2>1. PICK o \in Orgs, p \in People : StartApproval(w, o, p)
    BY <1>2
  <2>2. [NoJob EXCEPT !.org = o, !.who = p, !.known = home[p] # None] \in Job
    BY NullJobType DEF Job, NoJob
  <2>3. PICK j \in Job : Goto(w, "approving", j) /\ j.org = o /\ j.who = p
    BY <2>1, <2>2 DEF StartApproval, NoJob
  <2> QED
    BY <2>1, <2>3, StartIInv DEF StartApproval, Steps, AboutOne, Writing
<1>3. CASE \E o \in Orgs, p \in People :
              \/ StartLeave(w, o, p) \/ StartDelete(w, o, p)
              \/ \E step \in Writing : StartWrite(w, step, o, p)
  <2>1. PICK o \in Orgs, p \in People, step \in {"leaving", "counting"} \cup Writing :
          Begin(w, step, o, p) /\ UNCHANGED <<tables, ghosts>>
    BY <1>3 DEF StartLeave, StartDelete, StartWrite
  <2>2. [NoJob EXCEPT !.org = o, !.who = p] \in Job
    BY NullJobType DEF Job, NoJob
  <2> QED
    BY <2>1, <2>2, StartIInv DEF Begin, Steps, AboutOne, Writing, NoJob
<1> QED
  BY <1>1, <1>2, <1>3 DEF Start

LEMMA DieIInv ==
  ASSUME IInv, NEW w \in Workers, Die(w)
  PROVE  IInv'
<1>0. JobsType /\ TablesOK /\ JobsInv /\ DoomInv /\ DropInv /\ Erasure /\ NoStaleGrant
      /\ IsFiniteSet(members)
  BY Parts
<1>1. Finish(w) /\ UNCHANGED <<tables, ghosts>>
  BY DEF Die
<1> QED
  BY <1>1, StartIInv, NullJobType DEF Finish, Steps, AboutOne, Writing

LEMMA ApproveIInv ==
  ASSUME IInv, NEW w \in Workers, Approve(w)
  PROVE  IInv'
<1> DEFINE o == job[w].org
           p == job[w].who
<1>0. JobsType /\ TablesOK /\ JobsInv /\ DoomInv /\ DropInv /\ Erasure /\ NoStaleGrant
      /\ IsFiniteSet(members)
  BY Parts
<1>1. o \in Orgs /\ p \in People /\ Pair(w) = <<o, p>> /\ <<o, p>> \in Pairs
  BY <1>0, PairType DEF Approve, AboutOne
<1>2. /\ Quiet
      /\ \A v \in Workers, q \in People : Doomed(v, q)' /\ q = p => q \in job'[v].joined
  <2>1. Join(w, p)
    BY DEF Approve
  <2> HIDE DEF p
  <2> QED
    BY <1>0, <1>1, <2>1, JoinIsQuiet
<1>3. /\ o \in orgs
      /\ home' = IF job[w].known THEN home ELSE [home EXCEPT ![p] = o]
      /\ job[w].known <=> home[p] # None
      /\ members' = members \cup {<<o, p>>}
      /\ grants \subseteq grants' /\ grants' \subseteq grants \cup {<<o, p>>}
      /\ departed' = departed \ {<<o, p>>}
      /\ stale' = IF BeingDropped(<<o, p>>) THEN stale \cup {<<o, p>>} ELSE stale
      /\ UNCHANGED <<orgs, records>>
  BY DEF Approve
<1>4. TablesOK'
  <2>1. home' \in [People -> orgs \cup {None}]
    BY <1>0, <1>1, <1>3 DEF TablesOK
  <2>2. \A q \in People : home[q] # None => home'[q] # None
    BY <1>0, <1>1, <1>3, NoneAssumption DEF TablesOK
  <2>3. home'[p] # None
    BY <1>0, <1>1, <1>3, NoneAssumption DEF TablesOK
  <2>4. Anchored \subseteq Anchored' /\ <<o, p>> \in Anchored'
    BY <1>1, <1>3, <2>2, <2>3 DEF Anchored, Pairs
  <2> QED
    BY <1>0, <1>1, <1>3, <2>1, <2>4 DEF TablesOK
<1>5. DoomInv'
  <2> SUFFICES ASSUME NEW v \in Workers, NEW q \in People, Doomed(v, q)',
                      q \notin job'[v].joined
               PROVE  Kept(v, q)'
    BY DEF DoomInv
  <2>1. /\ Doomed(v, q) /\ pc'[v] = pc[v] /\ job'[v].org = job[v].org
        /\ q \notin job[v].joined
    BY <1>2 DEF Quiet
  <2>2. q # p
    BY <1>2
  <2>3. About(q, members)' = About(q, members)
    BY <1>3, <2>2 DEF About
  <2> QED
    BY <1>0, <2>1, <2>3 DEF DoomInv, Kept
<1>6. DropInv'
  <2> SUFFICES ASSUME NEW v \in Workers, pc'[v] = "dropping"
               PROVE  Pair(v)' \notin (grants' \cup records') \ stale'
    BY DEF DropInv
  <2>1. pc[v] = "dropping" /\ Pair(v)' = Pair(v)
    BY <1>2 DEF Quiet
  <2>2. Pair(v) \notin (grants \cup records) \ stale
    BY <1>0, <2>1 DEF DropInv
  <2>3. Pair(v) = <<o, p>> => Pair(v) \in stale'
    BY <1>3, <2>1 DEF BeingDropped
  <2> QED
    BY <1>3, <2>1, <2>2, <2>3
<1>7. IsFiniteSet(members')
  BY <1>0, <1>3, FS_AddElement
<1>8. Erasure' /\ NoStaleGrant'
  BY <1>0, <1>3 DEF Erasure, NoStaleGrant
<1> QED
  BY <1>2, <1>4, <1>5, <1>6, <1>7, <1>8 DEF Quiet, IInv, TypeOK, TablesOK, JobsType

\* Whatever a request adds about somebody who is no member, or no longer for long, is stale.
LEMMA InsertFacts ==
  ASSUME JobsType, TablesOK, JobsInv, DropInv, NEW w \in Workers, pc[w] \in AboutOne,
         NEW rel \in SUBSET Anchored,
         Pair(w)[1] \in orgs, home[Pair(w)[2]] # None,
         stale' = IF Pair(w) \notin members \/ BeingDropped(Pair(w))
                  THEN stale \cup {Pair(w)} ELSE stale
  PROVE  /\ rel \cup {Pair(w)} \subseteq Anchored
         /\ stale' \subseteq Pairs /\ stale \subseteq stale'
         /\ Pair(w) \in members \cup stale'
         /\ BeingDropped(Pair(w)) => Pair(w) \in stale'
BY PairType DEF TablesOK, Anchored

LEMMA WritesIInv ==
  ASSUME IInv, NEW w \in Workers, GrantRole(w) \/ WriteRecord(w)
  PROVE  IInv'
<1>0. JobsType /\ TablesOK /\ JobsInv /\ DoomInv /\ DropInv /\ Erasure /\ NoStaleGrant
      /\ IsFiniteSet(members)
  BY Parts
<1>1. /\ Pair(w)[1] \in orgs /\ home[Pair(w)[2]] # None
      /\ stale' = IF Pair(w) \notin members \/ BeingDropped(Pair(w))
                  THEN stale \cup {Pair(w)} ELSE stale
      /\ Finish(w)
      /\ UNCHANGED <<orgs, home, members, departed>>
      /\ grants \subseteq grants' /\ grants' \subseteq grants \cup {Pair(w)}
      /\ records \subseteq records' /\ records' \subseteq records \cup {Pair(w)}
      /\ pc[w] \in AboutOne
  BY DEF GrantRole, WriteRecord, Insert, AboutOne, Writing
<1>2. Quiet
  BY <1>0, <1>1, FinishIsQuiet
<1>3. /\ grants \cup {Pair(w)} \subseteq Anchored /\ records \cup {Pair(w)} \subseteq Anchored
      /\ stale' \subseteq Pairs /\ stale \subseteq stale'
      /\ Pair(w) \in members \cup stale'
      /\ BeingDropped(Pair(w)) => Pair(w) \in stale'
  <2>1. grants \in SUBSET Anchored /\ records \in SUBSET Anchored
    BY <1>0 DEF TablesOK
  <2> QED
    BY <1>0, <1>1, <2>1, InsertFacts
<1>4. TablesOK'
  BY <1>0, <1>1, <1>3 DEF TablesOK, Anchored
<1>5. DoomInv'
  BY <1>0, <1>1, <1>2 DEF Quiet, DoomInv, Kept, About
<1>6. DropInv'
  <2> SUFFICES ASSUME NEW v \in Workers, pc'[v] = "dropping"
               PROVE  Pair(v)' \notin (grants' \cup records') \ stale'
    BY DEF DropInv
  <2>1. pc[v] = "dropping" /\ Pair(v)' = Pair(v)
    BY <1>2 DEF Quiet
  <2>2. Pair(v) \notin (grants \cup records) \ stale
    BY <1>0, <2>1 DEF DropInv
  <2>3. Pair(v) = Pair(w) => Pair(v) \in stale'
    BY <1>3, <2>1 DEF BeingDropped
  <2> QED
    BY <1>1, <1>3, <2>1, <2>2, <2>3
<1>7. Erasure' /\ NoStaleGrant'
  BY <1>0, <1>1, <1>3 DEF Erasure, NoStaleGrant
<1> QED
  BY <1>0, <1>1, <1>2, <1>4, <1>5, <1>6, <1>7 DEF Quiet, IInv, TypeOK, TablesOK, JobsType

LEMMA LeaveIInv ==
  ASSUME IInv, NEW w \in Workers, Leave(w)
  PROVE  IInv'
<1>0. JobsType /\ TablesOK /\ JobsInv /\ DoomInv /\ DropInv /\ Erasure /\ NoStaleGrant
      /\ IsFiniteSet(members)
  BY Parts
<1>1. /\ grants' = grants \ {Pair(w)} /\ members' = members \ {Pair(w)}
      /\ departed' = departed \cup {Pair(w)}
      /\ UNCHANGED <<orgs, home, records, stale>>
      /\ Finish(w)
  BY DEF Leave, Revoked
<1>2. Quiet
  BY <1>0, <1>1, FinishIsQuiet
<1>3. Pair(w) \in Pairs
  BY <1>0, PairType DEF Leave, AboutOne
<1>4. TablesOK'
  BY <1>0, <1>1, <1>3 DEF TablesOK, Anchored
<1>5. DoomInv' /\ DropInv' /\ IsFiniteSet(members')
  BY <1>0, <1>1, <1>2, Fewer
<1>6. Erasure' /\ NoStaleGrant'
  BY <1>0, <1>1 DEF Erasure, NoStaleGrant
<1> QED
  BY <1>2, <1>4, <1>5, <1>6 DEF Quiet, IInv, TypeOK, TablesOK, JobsType

\* Two memberships of one person count as two.
LEMMA OneMembership ==
  ASSUME IsFiniteSet(members), NEW p \in People, NEW x \in About(p, members),
         NEW y \in About(p, members), Cardinality(About(p, members)) <= 1
  PROVE  x = y
<1>1. IsFiniteSet(About(p, members))
  BY FS_Subset DEF About
<1>2. SUFFICES ASSUME x # y PROVE FALSE
  OBVIOUS
<1>3. /\ IsFiniteSet({x}) /\ Cardinality({x}) = 1
  BY FS_Singleton
<1>4. IsFiniteSet({x} \cup {y}) /\ Cardinality({x} \cup {y}) = 2
  <2>1. y \notin {x}
    BY <1>2
  <2>2. Cardinality({x} \cup {y}) = Cardinality({x}) + 1 /\ IsFiniteSet({x} \cup {y})
    BY <1>3, <2>1, FS_AddElement
  <2> QED
    BY <1>3, <2>2
<1>5. {x} \cup {y} \subseteq About(p, members)
  OBVIOUS
<1>6. Cardinality({x} \cup {y}) <= Cardinality(About(p, members))
  BY <1>1, <1>5, FS_Subset
<1>7. Cardinality(About(p, members)) \in Nat
  BY <1>1, FS_CardinalityType
<1> QED
  BY <1>4, <1>6, <1>7

\* The decisions on the way to the deletion of an account.
LEMMA DecideIInv ==
  ASSUME IInv, NEW w \in Workers, NEW step \in {"counted", "deleting"},
         pc[w] \in AboutOne, Goto(w, step, job[w]), UNCHANGED <<tables, ghosts>>,
         \A q \in People : Doomed(w, q)' => q \in job'[w].joined \/ Kept(w, q)'
  PROVE  IInv'
<1>0. JobsType /\ TablesOK /\ JobsInv /\ DoomInv /\ DropInv /\ Erasure /\ NoStaleGrant
      /\ IsFiniteSet(members)
  BY Parts
<1>1. job[w].org \in Orgs /\ job[w].who \in People /\ job[w] \in Job
  BY <1>0, PairType DEF JobsType
<1>2. /\ JobsType' /\ pc'[w] = step /\ job'[w] = job[w]
      /\ \A v \in Workers \ {w} : pc'[v] = pc[v] /\ job'[v] = job[v]
  BY <1>0, <1>1, Moves DEF Steps
<1>3. JobsInv'
  BY <1>0, <1>1, <1>2 DEF JobsInv
<1>4. DoomInv'
  <2> SUFFICES ASSUME NEW v \in Workers \ {w}, NEW q \in People, Doomed(v, q)'
               PROVE  q \in job'[v].joined \/ Kept(v, q)'
    BY DEF DoomInv
  <2>1. Doomed(v, q) /\ pc'[v] = pc[v] /\ job'[v] = job[v]
    BY <1>2 DEF Doomed
  <2> QED
    BY <1>0, <2>1 DEF DoomInv, Kept, About, tables, ghosts
<1>5. DropInv'
  BY <1>0, <1>2 DEF DropInv, Pair, tables, ghosts
<1>6. TablesOK' /\ Erasure' /\ NoStaleGrant' /\ IsFiniteSet(members')
  BY <1>0 DEF TablesOK, Anchored, Erasure, NoStaleGrant, tables, ghosts
<1> QED
  BY <1>2, <1>3, <1>4, <1>5, <1>6 DEF IInv, TypeOK, TablesOK, JobsType

LEMMA CountIInv ==
  ASSUME IInv, NEW w \in Workers, Count(w)
  PROVE  IInv'
<1> DEFINE p == job[w].who
<1>0. JobsType /\ JobsInv /\ IsFiniteSet(members)
  BY Parts
<1>1. job[w].org \in Orgs /\ p \in People /\ job[w] \in Job /\ UNCHANGED <<tables, ghosts>>
      /\ pc[w] \in AboutOne
  BY <1>0, PairType DEF Count, AboutOne, JobsType
<1>2. CASE Cardinality(About(p, members)) > 1
  <2>1. Goto(w, "erasing", job[w])
    BY <1>2 DEF Count, CountMemberships
  <2> QED
    BY <1>1, <2>1, StartIInv DEF Steps, AboutOne
<1>3. CASE ~(Cardinality(About(p, members)) > 1)
  <2>1. Goto(w, "counted", job[w])
    BY <1>3 DEF Count, CountMemberships
  <2>2. Cardinality(About(p, members)) \in Nat
    BY <1>0, FS_Subset, FS_CardinalityType DEF About
  <2>3. \A x, y \in About(p, members) : x = y
    BY <1>0, <1>1, <1>3, <2>2, OneMembership
  <2>4. pc'[w] = "counted" /\ job'[w] = job[w]
    BY <1>0, <2>1 DEF Goto, JobsType
  <2>5. ASSUME NEW q \in People, Doomed(w, q)'
        PROVE  Kept(w, q)'
    <3>1. q = p
      BY <2>4, <2>5 DEF Doomed
    <3> QED
      BY <1>1, <2>3, <2>4, <3>1 DEF Kept, About, tables
  <2> QED
    BY <1>1, <2>1, <2>5, DecideIInv
<1> QED
  BY <1>2, <1>3

\* One membership, which is here, is none elsewhere.
LEMMA RequireMemberIInv ==
  ASSUME IInv, NEW w \in Workers, RequireMember(w)
  PROVE  IInv'
<1> DEFINE p == job[w].who
<1>0. JobsType /\ JobsInv /\ DoomInv
  BY Parts
<1>1. /\ Goto(w, "deleting", job[w]) /\ UNCHANGED <<tables, ghosts>>
      /\ pc[w] = "counted" /\ pc[w] \in AboutOne /\ Pair(w) \in members
  BY DEF RequireMember, AboutOne
<1>2. p \in People /\ Pair(w) \in About(p, members) /\ Pair(w)[1] = job[w].org
  BY <1>0, <1>1, PairType DEF About
<1>3. p \in job[w].joined \/ \A x \in About(p, members) : x[1] = job[w].org
  <2>1. Doomed(w, p)
    BY <1>1 DEF Doomed
  <2>2. p \in job[w].joined \/ \A x, y \in About(p, members) : x = y
    BY <1>0, <1>1, <1>2, <2>1 DEF DoomInv, Kept
  <2> QED
    BY <1>2, <2>2
<1>4. pc'[w] = "deleting" /\ job'[w] = job[w]
  BY <1>0, <1>1 DEF Goto, JobsType
<1>5. ASSUME NEW q \in People, Doomed(w, q)'
      PROVE  q \in job'[w].joined \/ Kept(w, q)'
  <2>1. q = p
    BY <1>4, <1>5 DEF Doomed
  <2> QED
    BY <1>1, <1>3, <1>4, <2>1 DEF Kept, About, tables
<1> QED
  BY <1>1, <1>5, DecideIInv

LEMMA DeleteAccountIInv ==
  ASSUME IInv, NEW w \in Workers, DeleteAccount(w)
  PROVE  IInv'
<1> DEFINE p == job[w].who
<1>0. JobsType /\ TablesOK /\ JobsInv /\ DoomInv /\ DropInv /\ Erasure /\ NoStaleGrant
      /\ IsFiniteSet(members)
  BY Parts
<1>1. p \in People
  BY <1>0, PairType DEF DeleteAccount, AboutOne
<1>2. /\ home' = [home EXCEPT ![p] = None]
      /\ members' = {x \in members : x[2] # p}
      /\ grants' = {x \in grants : x[2] # p}
      /\ records' = {x \in records : x[2] # p}
      /\ departed' = {x \in departed : x[2] # p}
      /\ stale' = {x \in stale : x[2] # p}
      /\ EndHolders(w, {p})
      /\ UNCHANGED orgs
  BY DEF DeleteAccount, About
<1>3. Quiet
  BY <1>0, <1>1, <1>2, EndHoldersIsQuiet
<1>4. TablesOK'
  <2>1. \A x \in Anchored : x[2] # p => x \in Anchored'
    BY <1>0, <1>1, <1>2 DEF TablesOK, Anchored, Pairs
  <2>2. home' \in [People -> orgs' \cup {None}]
    BY <1>0, <1>1, <1>2 DEF TablesOK
  <2> QED
    BY <1>0, <1>2, <2>1, <2>2 DEF TablesOK
<1>5. DoomInv' /\ DropInv' /\ IsFiniteSet(members')
  BY <1>0, <1>2, <1>3, Fewer
<1>6. Erasure' /\ NoStaleGrant'
  BY <1>0, <1>2 DEF Erasure, NoStaleGrant
<1> QED
  BY <1>3, <1>4, <1>5, <1>6 DEF Quiet, IInv, TypeOK, TablesOK, JobsType

LEMMA EraseRecordsIInv ==
  ASSUME IInv, NEW w \in Workers, EraseRecords(w)
  PROVE  IInv'
<1>0. JobsType /\ TablesOK /\ JobsInv /\ DoomInv /\ DropInv /\ Erasure /\ NoStaleGrant
      /\ IsFiniteSet(members)
  BY Parts
<1>1. /\ records' = records \ {Pair(w)} /\ grants' = grants \ {Pair(w)}
      /\ stale' = stale \ {Pair(w)}
      /\ UNCHANGED <<orgs, home, members, departed>>
  BY DEF EraseRecords, Erased
<1>2. job[w].org \in Orgs /\ job[w].who \in People /\ job[w] \in Job
  BY <1>0, PairType DEF EraseRecords, AboutOne, JobsType
<1>3. /\ JobsType' /\ pc'[w] = "dropping" /\ job'[w] = job[w]
      /\ \A v \in Workers \ {w} : pc'[v] = pc[v] /\ job'[v] = job[v]
  BY <1>0, <1>2, Moves DEF EraseRecords, Steps
<1>4. JobsInv'
  BY <1>0, <1>2, <1>3 DEF JobsInv
<1>5. TablesOK'
  BY <1>0, <1>1 DEF TablesOK, Anchored
<1>6. DoomInv'
  <2>1. ASSUME NEW v \in Workers, NEW q \in People, Doomed(v, q)'
        PROVE  Doomed(v, q) /\ pc'[v] = pc[v] /\ job'[v] = job[v]
    BY <1>3, <2>1 DEF Doomed
  <2> QED
    BY <1>0, <1>1, <2>1 DEF DoomInv, Kept, About
<1>7. DropInv'
  <2> SUFFICES ASSUME NEW v \in Workers, pc'[v] = "dropping"
               PROVE  Pair(v)' \notin (grants' \cup records') \ stale'
    BY DEF DropInv
  <2>1. Pair(v)' = Pair(v)
    BY <1>3 DEF Pair
  <2>2. Pair(v) = Pair(w) \/ pc[v] = "dropping"
    BY <1>3
  <2> QED
    BY <1>0, <1>1, <2>1, <2>2 DEF DropInv
<1>8. Erasure' /\ NoStaleGrant' /\ IsFiniteSet(members')
  BY <1>0, <1>1 DEF Erasure, NoStaleGrant
<1> QED
  BY <1>3, <1>4, <1>5, <1>6, <1>7, <1>8 DEF IInv, TypeOK, TablesOK, JobsType

LEMMA DropMembershipIInv ==
  ASSUME IInv, NEW w \in Workers, DropMembership(w)
  PROVE  IInv'
<1>0. JobsType /\ TablesOK /\ JobsInv /\ DoomInv /\ DropInv /\ Erasure /\ NoStaleGrant
      /\ IsFiniteSet(members)
  BY Parts
<1>1. /\ members' = members \ {Pair(w)}
      /\ UNCHANGED <<orgs, home, grants, records, departed, stale>>
      /\ Finish(w)
  BY DEF DropMembership, ghosts
<1>2. Quiet
  BY <1>0, <1>1, FinishIsQuiet
<1>3. TablesOK'
  BY <1>0, <1>1 DEF TablesOK, Anchored
<1>4. DoomInv' /\ DropInv' /\ IsFiniteSet(members')
  BY <1>0, <1>1, <1>2, Fewer
<1>5. Erasure' /\ NoStaleGrant'
  <2>1. Pair(w) \notin (grants \cup records) \ stale
    BY <1>0 DEF DropInv, DropMembership
  <2> QED
    BY <1>0, <1>1, <2>1 DEF Erasure, NoStaleGrant
<1> QED
  BY <1>2, <1>3, <1>4, <1>5 DEF Quiet, IInv, TypeOK, TablesOK, JobsType

\* The decision of a teardown which accounts have nowhere else to go.
LEMMA SplitHomesIInv ==
  ASSUME IInv, NEW w \in Workers, SplitHomes(w)
  PROVE  IInv'
<1> DEFINE o == job[w].org
<1>0. JobsType /\ TablesOK /\ JobsInv /\ DoomInv /\ DropInv /\ Erasure /\ NoStaleGrant
      /\ IsFiniteSet(members)
  BY Parts
<1>1. o \in Orgs /\ job[w] \in Job /\ UNCHANGED <<tables, ghosts>> /\ pc[w] = "tearing"
  BY <1>0 DEF SplitHomes, JobsInv, JobsType
<1>2. PICK d \in [People -> Orgs \cup {None}] :
        /\ \A p \in People : IF p \in job[w].homes THEN d[p] \in NewHomes(o, p)
                             ELSE d[p] = None
        /\ Goto(w, "rehoming", [job[w] EXCEPT !.dest = d])
  BY DEF SplitHomes
<1> DEFINE j == [job[w] EXCEPT !.dest = d]
<1>3. j \in Job /\ j.org = o /\ j.homes = job[w].homes /\ j.dest = d
  BY <1>1 DEF Job
<1>4. /\ JobsType' /\ pc'[w] = "rehoming" /\ job'[w] = j
      /\ \A v \in Workers \ {w} : pc'[v] = pc[v] /\ job'[v] = job[v]
  BY <1>0, <1>2, <1>3, Moves DEF Steps
<1>5. \A p \in People : d[p] # o
  BY <1>1, <1>2, NoneAssumption DEF NewHomes, Elsewhere, Of, About
<1>6. \A p \in People : p \in job[w].homes /\ d[p] = None => \A x \in About(p, members) : x[1] = o
  <2> SUFFICES ASSUME NEW p \in People, p \in job[w].homes, d[p] = None,
                      NEW x \in About(p, members), x[1] # o
               PROVE  FALSE
    OBVIOUS
  <2>1. x \in members /\ x[1] \in Orgs
    BY <1>0 DEF About, TablesOK, Anchored
  <2>2. x[1] \in Elsewhere(o, p)
    BY <2>1 DEF Elsewhere, Of
  <2>3. None \in Elsewhere(o, p)
    BY <1>2, <2>2 DEF NewHomes
  <2>4. Elsewhere(o, p) \subseteq Orgs
    BY <1>0 DEF Elsewhere, About, TablesOK, Anchored, Pairs
  <2> QED
    BY <2>3, <2>4, NoneAssumption
<1>12. /\ pc'[w] = "rehoming" /\ job'[w].org = o /\ job'[w].homes = job[w].homes
       /\ job'[w].dest = d
       /\ \A v \in Workers \ {w} : pc'[v] = pc[v] /\ job'[v] = job[v]
  BY <1>3, <1>4
<1>7. JobsInv'
  <2> SUFFICES ASSUME NEW v \in Workers
               PROVE  (/\ pc[v] \in AboutOne => job[v].org \in Orgs /\ job[v].who \in People
                       /\ pc[v] \in {"tearing", "rehoming"} => job[v].org \in Orgs
                       /\ pc[v] = "rehoming" => \A p \in People : job[v].dest[p] # job[v].org)'
    BY DEF JobsInv
  <2>1. CASE v = w
    BY <1>1, <1>5, <1>12, <2>1 DEF AboutOne, Writing
  <2>2. CASE v # w
    BY <1>0, <1>12, <2>2 DEF JobsInv
  <2> QED
    BY <2>1, <2>2
<1>8. DoomInv'
  <2> SUFFICES ASSUME NEW v \in Workers, NEW q \in People, Doomed(v, q)'
               PROVE  q \in job'[v].joined \/ Kept(v, q)'
    BY DEF DoomInv
  <2>1. CASE v = w
    BY <1>1, <1>6, <1>12, <2>1 DEF Doomed, Kept, About, tables
  <2>2. CASE v # w
    <3>1. Doomed(v, q) /\ pc'[v] = pc[v] /\ job'[v] = job[v]
      BY <1>12, <2>2 DEF Doomed
    <3> QED
      BY <1>0, <1>1, <3>1 DEF DoomInv, Kept, About, tables, ghosts
  <2> QED
    BY <2>1, <2>2
<1>9. DropInv'
  BY <1>0, <1>1, <1>4 DEF DropInv, Pair, tables, ghosts
<1>10. TablesOK' /\ Erasure' /\ NoStaleGrant' /\ IsFiniteSet(members')
  BY <1>0, <1>1 DEF TablesOK, Anchored, Erasure, NoStaleGrant, tables, ghosts
<1> QED
  BY <1>4, <1>7, <1>8, <1>9, <1>10 DEF IInv, TypeOK, TablesOK, JobsType

LEMMA TearDownIInv ==
  ASSUME IInv, NEW w \in Workers, TearDown(w)
  PROVE  IInv'
<1> DEFINE o == job[w].org
           kept == {p \in job[w].homes : job[w].dest[p] # None}
           doomed == job[w].homes \ kept
<1>0. JobsType /\ TablesOK /\ JobsInv /\ DoomInv /\ DropInv /\ Erasure /\ NoStaleGrant
      /\ IsFiniteSet(members)
  BY Parts
<1>1. /\ o \in Orgs /\ job[w].homes \subseteq People
      /\ \A p \in kept : job[w].dest[p] \in orgs \ {o}
      /\ \A p \in People : home[p] = o => p \in job[w].homes
  BY <1>0 DEF TearDown, JobsInv, JobsType, Job
<1>2. /\ orgs' = orgs \ {o}
      /\ home' = [p \in People |-> IF p \in kept THEN job[w].dest[p]
                                   ELSE IF p \in doomed THEN None ELSE home[p]]
      /\ members' = {x \in members : x[1] # o /\ x[2] \notin doomed}
      /\ grants' = {x \in grants : x[1] # o /\ x[2] \notin doomed}
      /\ records' = {x \in records : x[1] # o /\ x[2] \notin doomed}
      /\ departed' = {x \in departed : x[1] # o /\ x[2] \notin doomed}
      /\ stale' = {x \in stale : x[1] # o /\ x[2] \notin doomed}
      /\ EndHolders(w, doomed)
  BY DEF TearDown
<1>3. Quiet
  <2>1. doomed \in SUBSET People
    BY <1>1
  <2> QED
    BY <1>0, <1>2, <2>1, EndHoldersIsQuiet
<1>4. home' \in [People -> orgs' \cup {None}]
  BY <1>0, <1>1, <1>2 DEF TablesOK
<1>5. \A x \in Anchored : x[1] # o /\ x[2] \notin doomed => x \in Anchored'
  <2> SUFFICES ASSUME NEW x \in Anchored, x[1] # o, x[2] \notin doomed
               PROVE  x \in Anchored'
    OBVIOUS
  <2>1. x \in Pairs /\ x[2] \in People /\ x[1] \in orgs' /\ home[x[2]] # None
    BY <1>2 DEF Anchored, Pairs
  <2>2. None \notin orgs
    BY <1>0, NoneAssumption DEF TablesOK
  <2>3. home'[x[2]] # None
    BY <1>1, <1>2, <2>1, <2>2
  <2> QED
    BY <2>1, <2>3 DEF Anchored
<1>6. TablesOK'
  BY <1>0, <1>2, <1>4, <1>5 DEF TablesOK
<1>7. DoomInv' /\ DropInv' /\ IsFiniteSet(members')
  BY <1>0, <1>2, <1>3, Fewer
<1>8. Erasure' /\ NoStaleGrant'
  BY <1>0, <1>2 DEF Erasure, NoStaleGrant
<1> QED
  BY <1>3, <1>6, <1>7, <1>8 DEF Quiet, IInv, TypeOK, TablesOK, JobsType

LEMMA NextIInv == IInv /\ [Next]_vars => IInv'
<1> SUFFICES ASSUME IInv, [Next]_vars PROVE IInv'
  OBVIOUS
<1>1. CASE UNCHANGED vars
  BY <1>1, StutterIInv
<1>2. ASSUME NEW w \in Workers,
             \/ Start(w) \/ Approve(w) \/ GrantRole(w) \/ WriteRecord(w)
             \/ Count(w) \/ RequireMember(w) \/ SplitHomes(w) \/ Removal(w) \/ Die(w)
      PROVE  IInv'
  BY <1>2, StartsIInv, ApproveIInv, WritesIInv, CountIInv, RequireMemberIInv,
     SplitHomesIInv, DieIInv, LeaveIInv, DeleteAccountIInv, EraseRecordsIInv, DropMembershipIInv, TearDownIInv DEF Removal
<1> QED
  BY <1>1, <1>2 DEF Next

\* IInv holds in every reachable state, of any chapters, people and requests.
THEOREM Inductive == Spec => []IInv
BY InitIInv, NextIInv, PTL DEF Spec

\* Every reachable state is well typed, and no row refers to a chapter or an account
\* that is no more, through erasures and teardowns that overlap.
THEOREM TypeCorrect == Spec => []TypeOK
<1>1. IInv => TypeOK
  BY DEF IInv
<1> QED
  BY <1>1, Inductive, PTL

\* deleteBrother and deleteOrg erase what they say: what a chapter has on record of
\* somebody who is no member is of one who left, or was written too late.
THEOREM ErasureAlways == Spec => []Erasure
<1>1. IInv => Erasure
  BY DEF IInv
<1> QED
  BY <1>1, Inductive, PTL

\* No role grant outlives its membership, but one that was written too late.
THEOREM NoStaleGrantAlways == Spec => []NoStaleGrant
<1>1. IInv => NoStaleGrant
  BY DEF IInv
<1> QED
  BY <1>1, Inductive, PTL

\* The steps that take no membership, and no record of a member.
LEMMA NothingLost ==
  ASSUME members \subseteq members', records \subseteq records'
  PROVE  Lost = {}
BY DEF Lost

\* The chapters of a person do not touch each other's roster and records, whatever
\* removals overlap, but where the person joined a chapter after the request of
\* another found that nothing keeps the account.
THEOREM OthersStandAlways == Spec => OthersStand
<1>1. ASSUME IInv, Next, NEW x \in Lost
      PROVE  \E w \in Workers :
               Removal(w) /\ (job[w].org = x[1] \/ x[2] \in job[w].joined)
  <2>1. PICK w \in Workers :
          \/ Start(w) \/ Approve(w) \/ GrantRole(w) \/ WriteRecord(w)
          \/ Count(w) \/ RequireMember(w) \/ SplitHomes(w) \/ Removal(w) \/ Die(w)
    BY <1>1 DEF Next
  <2>2. JobsType /\ TablesOK /\ JobsInv /\ DoomInv
    BY <1>1, Parts
  <2>3. x \in members /\ x \in Pairs /\ x[2] \in People
    BY <1>1, <2>2 DEF Lost, TablesOK, Anchored, Pairs
  <2>4. CASE Start(w) \/ Count(w) \/ RequireMember(w) \/ SplitHomes(w) \/ Die(w)
    <3>1. UNCHANGED tables
      BY <2>4 DEF Start, StartTeardown, StartApproval, StartLeave, StartDelete, StartWrite,
        Count, RequireMember, SplitHomes, Die
    <3> QED
      BY <1>1, <3>1, NothingLost DEF tables
  <2>5. CASE Approve(w) \/ GrantRole(w) \/ WriteRecord(w)
    <3>1. members \subseteq members' /\ records \subseteq records'
      BY <2>5 DEF Approve, GrantRole, WriteRecord, Insert
    <3> QED
      BY <1>1, <3>1, NothingLost
  <2>6. CASE Leave(w) \/ EraseRecords(w) \/ DropMembership(w)
    <3>1. pc[w] \in AboutOne
      BY <2>6 DEF Leave, EraseRecords, DropMembership, AboutOne
    <3>2. members \ members' \subseteq {Pair(w)} /\ records \ records' \subseteq {Pair(w)}
      BY <2>6 DEF Leave, EraseRecords, DropMembership, Erased
    <3>3. x = Pair(w)
      BY <1>1, <3>2 DEF Lost
    <3>4. x[1] = job[w].org
      BY <2>2, <3>1, <3>3, PairType
    <3> QED
      BY <2>6, <3>4 DEF Removal
  <2>7. CASE DeleteAccount(w)
    <3>1. x[2] = job[w].who /\ job[w].who \in People
      BY <1>1, <2>2, <2>7, PairType DEF DeleteAccount, About, Lost, AboutOne
    <3>2. Doomed(w, job[w].who) /\ pc[w] = "deleting"
      BY <2>7 DEF DeleteAccount, Doomed
    <3>3. x[2] \in job[w].joined \/ x[1] = job[w].org
      BY <2>2, <2>3, <3>1, <3>2 DEF DoomInv, Kept, About
    <3> QED
      BY <2>7, <3>3 DEF Removal
  <2>8. CASE TearDown(w)
    <3>1. x[1] = job[w].org \/ (x[2] \in job[w].homes /\ job[w].dest[x[2]] = None)
      <4> DEFINE doomed == job[w].homes \ {p \in job[w].homes : job[w].dest[p] # None}
      <4>1. /\ members' = {y \in members : y[1] # job[w].org /\ y[2] \notin doomed}
            /\ records' = {y \in records : y[1] # job[w].org /\ y[2] \notin doomed}
        BY <2>8 DEF TearDown
      <4> HIDE DEF doomed
      <4>2. x[1] = job[w].org \/ x[2] \in doomed
        BY <1>1, <4>1 DEF Lost
      <4> QED
        BY <4>2 DEF doomed
    <3>2. pc[w] = "rehoming"
      BY <2>8 DEF TearDown
    <3>3. x[2] \in job[w].joined \/ x[1] = job[w].org
      BY <2>2, <2>3, <3>1, <3>2 DEF DoomInv, Doomed, Kept, About
    <3> QED
      BY <2>8, <3>3 DEF Removal
  <2> QED
    BY <2>1, <2>4, <2>5, <2>6, <2>7, <2>8 DEF Removal
<1>2. ASSUME UNCHANGED vars
      PROVE  Lost = {}
  BY <1>2, NothingLost DEF vars
<1>3. IInv /\ [Next]_vars =>
        [\A x \in Lost : \E w \in Workers :
           Removal(w) /\ (job[w].org = x[1] \/ x[2] \in job[w].joined)]_vars
  BY <1>1, <1>2
<1> QED
  BY <1>3, Inductive, PTL DEF Spec, OthersStand
=============================================================================
