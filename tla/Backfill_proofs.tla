-------------------------- MODULE Backfill_proofs --------------------------
(***************************************************************************)
(* Invariance proofs for Backfill.  The invariant of the job table holds   *)
(* next to warm and the image endpoint too, but for what it says of links: *)
(* --exclusive may cancel a job that a worker has finished meanwhile.      *)
(***************************************************************************)
EXTENDS Backfill, AttachmentJobs_proofs

WarmState == [at : WarmSteps, chosen : SUBSET Listings, keep : SUBSET Media,
              todo : SUBSET Media, cursor : 0 .. MaxJobs, doomed : SUBSET Rows]

\* Whoever is about to insert a job has seen the image's row.
RequestedAreSaved ==
    /\ \A m \in warm.keep \cup warm.todo : saved[m] > 0
    /\ \A r \in Requests : request[r] # NoMedia => saved[request[r]] > 0

\* The processes that have found no job for m and are about to insert one.
WarmAdds(m) == IF warm.at = "insert" /\ m \in warm.todo THEN 1 ELSE 0

Waiting(m) == {r \in Requests : request[r] = m}

\* Each of them will have added one job, unless it fails.  An image without
\* timestamps may get its job from a sync, which is then like theirs.
AddsOnce(m) ==
    Untimed = {} =>
        Cardinality(BackfillJobs(m)) + WarmAdds(m) + Cardinality(Waiting(m))
            <= 1 + Cardinality(Requests)

TimedWants == Untimed = {} => WantsAreTimed

BInv ==
    /\ TableInv
    /\ BackfillTypeOK
    /\ RequestedAreSaved
    /\ TimedWants
    /\ \A m \in Media : AddsOnce(m)

----------------------------------------------------------------------------
(* Counting *)

LEMMA CountsOfJobs ==
    ASSUME NEW m
    PROVE  IsFiniteSet(BackfillJobs(m)) /\ Cardinality(BackfillJobs(m)) \in Nat
<1>1. IsFiniteSet(JobIds)
  BY FS_Interval, ConstantsAssumption DEF JobIds
<1>2. BackfillJobs(m) \in SUBSET JobIds
  BY DEF BackfillJobs, BlockingJobs, Rows
<1>3. IsFiniteSet(BackfillJobs(m))
  BY <1>1, <1>2, FS_Subset
<1> QED
  BY <1>3, FS_CardinalityType

LEMMA CountsOfRequests ==
    ASSUME NEW m
    PROVE  /\ IsFiniteSet(Waiting(m)) /\ Cardinality(Waiting(m)) \in Nat
           /\ Cardinality(Requests) \in Nat
           /\ Cardinality(Waiting(m)) <= Cardinality(Requests)
<1>1. IsFiniteSet(Requests)
  BY BackfillAssumption
<1>2. Waiting(m) \in SUBSET Requests
  BY DEF Waiting
<1>3. IsFiniteSet(Waiting(m)) /\ Cardinality(Waiting(m)) <= Cardinality(Requests)
  BY <1>1, <1>2, FS_Subset
<1> QED
  BY <1>1, <1>3, FS_CardinalityType

\* The same of the state after a step.
JobsCount(m) == IsFiniteSet(BackfillJobs(m)) /\ Cardinality(BackfillJobs(m)) \in Nat

LEMMA JobsCountAlways == \A m : JobsCount(m)
  BY CountsOfJobs DEF JobsCount

LEMMA JobsCountAfterwards == (\A m : JobsCount(m))'
  BY JobsCountAlways, PTL

LEMMA NobodyElse ==
    ASSUME NEW m, AddsOnce(m), BackfillJobs(m)' \subseteq BackfillJobs(m),
           WarmAdds(m)' <= WarmAdds(m), Waiting(m)' \subseteq Waiting(m)
    PROVE  AddsOnce(m)'
<1>1. /\ Cardinality(BackfillJobs(m)) \in Nat /\ Cardinality(BackfillJobs(m)') \in Nat
      /\ Cardinality(BackfillJobs(m)') <= Cardinality(BackfillJobs(m))
  <2>1. IsFiniteSet(BackfillJobs(m)) /\ Cardinality(BackfillJobs(m)) \in Nat
    BY CountsOfJobs
  <2>2. IsFiniteSet(BackfillJobs(m)') /\ Cardinality(BackfillJobs(m)') \in Nat
    BY JobsCountAfterwards DEF JobsCount
  <2> QED
    BY <2>1, <2>2, FS_Subset
<1>2. /\ Cardinality(Waiting(m)) \in Nat /\ Cardinality(Waiting(m)') \in Nat
      /\ Cardinality(Waiting(m)') <= Cardinality(Waiting(m))
      /\ Cardinality(Requests) \in Nat
  <2>1. IsFiniteSet(Waiting(m)) /\ Cardinality(Waiting(m)) \in Nat
        /\ Cardinality(Requests) \in Nat
    BY CountsOfRequests
  <2>2. IsFiniteSet(Waiting(m)') /\ Cardinality(Waiting(m)') <= Cardinality(Waiting(m))
    BY <2>1, FS_Subset
  <2> QED
    BY <2>1, <2>2, FS_CardinalityType
<1>3. WarmAdds(m) \in Nat /\ WarmAdds(m)' \in Nat
  BY DEF WarmAdds
<1> QED
  BY <1>1, <1>2, <1>3 DEF AddsOnce

\* With no job of the image yet, as many may be added as can be about to.
LEMMA NothingYet ==
    ASSUME NEW m, BackfillJobs(m)' = {},
           WarmAdds(m)' + Cardinality(Waiting(m)') <= 1 + Cardinality(Requests)
    PROVE  AddsOnce(m)'
<1>1. Cardinality(BackfillJobs(m)') = 0
  BY FS_EmptySet
<1>2. /\ WarmAdds(m)' \in Nat /\ Cardinality(Requests) \in Nat
      /\ Cardinality(Waiting(m)') \in Nat
  <2>1. IsFiniteSet(Requests) /\ Waiting(m)' \in SUBSET Requests
    BY BackfillAssumption DEF Waiting
  <2> QED
    BY <2>1, FS_Subset, FS_CardinalityType DEF WarmAdds
<1> QED
  BY <1>1, <1>2 DEF AddsOnce

\* One job more, and one process less that is about to add one.
LEMMA OneAdded ==
    ASSUME NEW m, AddsOnce(m), NEW j,
           BackfillJobs(m)' \subseteq BackfillJobs(m) \cup {j},
           Cardinality(Waiting(m)') \in Nat,
           WarmAdds(m)' + Cardinality(Waiting(m)') + 1
               <= WarmAdds(m) + Cardinality(Waiting(m))
    PROVE  AddsOnce(m)'
<1>1. /\ Cardinality(BackfillJobs(m)) \in Nat /\ Cardinality(BackfillJobs(m)') \in Nat
      /\ Cardinality(BackfillJobs(m)') <= Cardinality(BackfillJobs(m)) + 1
  <2>1. IsFiniteSet(BackfillJobs(m)) /\ Cardinality(BackfillJobs(m)) \in Nat
    BY CountsOfJobs
  <2>2. Cardinality(BackfillJobs(m)') \in Nat
    BY JobsCountAfterwards DEF JobsCount
  <2>3. /\ IsFiniteSet(BackfillJobs(m) \cup {j})
        /\ Cardinality(BackfillJobs(m) \cup {j}) =
              IF j \in BackfillJobs(m) THEN Cardinality(BackfillJobs(m))
              ELSE Cardinality(BackfillJobs(m)) + 1
    BY <2>1, FS_AddElement
  <2>4. Cardinality(BackfillJobs(m)') <= Cardinality(BackfillJobs(m) \cup {j})
    BY <2>3, FS_Subset
  <2> QED
    BY <2>1, <2>2, <2>3, <2>4
<1>2. /\ Cardinality(Waiting(m)) \in Nat /\ Cardinality(Requests) \in Nat
      /\ WarmAdds(m) \in Nat /\ WarmAdds(m)' \in Nat
  BY CountsOfRequests DEF WarmAdds
<1> QED
  BY <1>1, <1>2 DEF AddsOnce

----------------------------------------------------------------------------
(* The job table *)

LEMMA RelinkTable ==
    ASSUME TableInv, UNCHANGED <<feed, enq, jobs, storage, workVars, slow, aborts>>,
           link' \in [Media -> Contents \cup {NoContent}]
    PROVE  TableInv'
<1>1. TypeOK'
  BY DEF TableInv, TypeOK, feed, storage, workVars
<1>2. RowsInOrder' /\ FeedInOrder' /\ WantedAreSaved' /\ JobsAreSaved'
  BY DEF TableInv, RowsInOrder, Rows, FeedInOrder, WantedAreSaved, JobsAreSaved, feed
<1>3. HandsHoldRows' /\ CountIsCurrent' /\ AttemptsAreBounded'
  BY DEF TableInv, HandsHoldRows, Rows, CountIsCurrent, StillMine, AttemptsAreBounded,
         workVars
<1> QED
  BY <1>1, <1>2, <1>3 DEF TableInv

LEMMA CancelTable ==
    ASSUME TableInv, NEW doomed \in SUBSET Rows,
           jobs' = [j \in JobIds |-> IF j \in doomed
                                     THEN [jobs[j] EXCEPT !.status = "canceled"]
                                     ELSE jobs[j]],
           tableOnly' = tableOnly
    PROVE  TableInv' /\ Rows' = Rows /\ \A m : BackfillJobs(m)' \subseteq BackfillJobs(m)
<1>1. ASSUME NEW j \in JobIds
      PROVE  \/ jobs'[j] = jobs[j]
             \/ /\ j \in Rows /\ jobs'[j] \in Job /\ jobs'[j].status = "canceled"
                /\ jobs'[j].media = jobs[j].media /\ jobs'[j].rev = jobs[j].rev
                /\ jobs'[j].attempts = jobs[j].attempts
  <2>1. CASE j \notin doomed
    BY <2>1
  <2>2. CASE j \in doomed
    <3> DEFINE new == [jobs[j] EXCEPT !.status = "canceled"]
    <3>1. jobs[j] \in Job /\ jobs'[j] = new /\ j \in Rows
      BY <2>2, RowsAreJobs DEF TableInv
    <3>2. /\ new \in Job /\ new.status = "canceled" /\ new.media = jobs[j].media
          /\ new.rev = jobs[j].rev /\ new.attempts = jobs[j].attempts
      BY <3>1 DEF Job, Finished
    <3> HIDE DEF new
    <3> QED
      BY <3>1, <3>2
  <2> QED
    BY <2>1, <2>2
<1>2. UNCHANGED <<feed, enq, storage, link, workVars, slow, aborts>>
  BY DEF tableOnly
<1>3. Rows' = Rows
  BY <1>1, RowsAreJobs, ConstantsAssumption DEF TableInv, Rows
<1>4. TypeOK'
  <2>1. jobs' \in [JobIds -> Job \cup {NoJob}]
    BY <1>1 DEF TableInv, TypeOK
  <2> QED
    BY <1>2, <2>1 DEF TableInv, TypeOK, feed, storage, workVars
<1>5. RowsInOrder' /\ FeedInOrder' /\ WantedAreSaved' /\ HandsHoldRows'
  BY <1>2, <1>3
     DEF TableInv, RowsInOrder, FeedInOrder, WantedAreSaved, HandsHoldRows, feed, workVars
<1>6. JobsAreSaved' /\ AttemptsAreBounded' /\ CountIsCurrent'
  <2>1. \A j \in Rows : j \in JobIds
    BY DEF Rows
  <2>2. JobsAreSaved'
    BY <1>1, <1>2, <1>3, <2>1 DEF TableInv, JobsAreSaved, feed
  <2>3. AttemptsAreBounded'
    BY <1>1, <1>3, <2>1 DEF TableInv, AttemptsAreBounded, Active
  <2>4. CountIsCurrent'
    BY <1>1, <1>2 DEF TableInv, CountIsCurrent, StillMine, workVars
  <2> QED
    BY <2>2, <2>3, <2>4
<1>7. \A m : BackfillJobs(m)' \subseteq BackfillJobs(m)
  <2>1. \A j \in Rows : j \in JobIds
    BY DEF Rows
  <2> QED
    BY <1>1, <1>3, <2>1 DEF BackfillJobs, BlockingJobs, Blocking
<1> QED
  BY <1>3, <1>4, <1>5, <1>6, <1>7 DEF TableInv

\* One job without a revision for each image of ms.
Unrevised(ms) == {[media |-> m, rev |-> 0] : m \in ms}

LEMMA AddTable ==
    ASSUME TableInv, NEW ms \in SUBSET Media, \A m \in ms : saved[m] > 0,
           BulkInsert(Unrevised(ms)), tableOnly' = tableOnly
    PROVE  /\ TableInv' /\ Rows \subseteq Rows'
           /\ \A m \in Media : m \notin ms => BackfillJobs(m)' \subseteq BackfillJobs(m)
           /\ \A m \in ms : \E j : BackfillJobs(m)' \subseteq BackfillJobs(m) \cup {j}
<1> DEFINE wanted == Unrevised(ms)
<1>1. /\ wanted \in SUBSET Want /\ (\A x \in wanted : saved[x.media] > 0)
      /\ \A x \in wanted : x.media \in ms /\ x = [media |-> x.media, rev |-> 0]
  BY DEF Want, Unrevised
<1>2. IsFiniteSet(wanted)
  <2> DEFINE f == [m \in ms |-> [media |-> m, rev |-> 0]]
  <2>1. f \in Surjection(ms, wanted)
    BY DEF Surjection, Unrevised
  <2>2. IsFiniteSet(ms)
    BY ConstantsAssumption, FS_Subset
  <2> HIDE DEF f, wanted
  <2> QED
    BY <2>1, <2>2, FS_Surjection
<1>3. BulkInsert(wanted) /\ TypeOK /\ RowsInOrder
  BY DEF TableInv
<1> HIDE DEF wanted
<1>4. /\ jobs' \in [JobIds -> Job \cup {NoJob}] /\ RowsInOrder'
      /\ Rows \subseteq Rows' /\ \A j \in Rows : jobs'[j] = jobs[j]
      /\ \A j \in Rows' \ Rows : saved[jobs'[j].media] > 0 /\ Bounded(jobs'[j])
  BY <1>1, <1>2, <1>3, BulkInsertStep
<1>5. /\ \A j \in Rows' \ Rows : \E x \in wanted : jobs'[j] = NewJob(x)
      /\ \A i, j \in Rows' \ Rows : \A x \in wanted :
            jobs'[i] = NewJob(x) /\ jobs'[j] = NewJob(x) => i = j
  BY <1>1, <1>2, <1>3, BulkInsertedRows
<1>6. TableInv'
  <2>1. UNCHANGED <<feed, enq, storage, link, workVars, slow, aborts>>
    BY DEF tableOnly
  <2>2. TypeOK'
    BY <1>4, <2>1 DEF TableInv, TypeOK, feed, storage, workVars
  <2>3. FeedInOrder' /\ WantedAreSaved' /\ HandsHoldRows'
    BY <1>4, <2>1
       DEF TableInv, FeedInOrder, WantedAreSaved, HandsHoldRows, feed, workVars
  <2>4. JobsAreSaved' /\ AttemptsAreBounded'
    BY <1>4, <2>1
       DEF TableInv, JobsAreSaved, AttemptsAreBounded, Bounded, feed
  <2>5. CountIsCurrent'
    BY <1>4, <2>1 DEF TableInv, CountIsCurrent, HandsHoldRows, StillMine, workVars
  <2> QED
    BY <1>4, <2>2, <2>3, <2>4, <2>5 DEF TableInv
<1>7. ASSUME NEW m \in Media, NEW i \in BackfillJobs(m)', i \notin BackfillJobs(m)
      PROVE  /\ i \in Rows' \ Rows /\ m \in ms
             /\ jobs'[i] = NewJob([media |-> m, rev |-> 0])
  <2>1. i \in Rows' /\ jobs'[i].media = m
    BY <1>7 DEF BackfillJobs, BlockingJobs
  <2>2. i \notin Rows
    BY <1>4, <1>7 DEF BackfillJobs, BlockingJobs
  <2>3. PICK x \in wanted : jobs'[i] = NewJob(x)
    BY <1>5, <2>1, <2>2
  <2>4. x.media = m
    BY <2>1, <2>3 DEF NewJob
  <2> QED
    BY <1>1, <2>1, <2>2, <2>3, <2>4
<1>8. ASSUME NEW m \in ms
      PROVE  \E j : BackfillJobs(m)' \subseteq BackfillJobs(m) \cup {j}
  <2> DEFINE x == [media |-> m, rev |-> 0]
  <2>1. x \in wanted
    BY DEF wanted, Unrevised
  <2>2. CASE BackfillJobs(m)' \subseteq BackfillJobs(m)
    BY <2>2
  <2>3. CASE ~(BackfillJobs(m)' \subseteq BackfillJobs(m))
    <3>1. PICK j \in BackfillJobs(m)' : j \notin BackfillJobs(m)
      BY <2>3
    <3>2. j \in Rows' \ Rows /\ jobs'[j] = NewJob(x)
      BY <1>7, <3>1
    <3>3. ASSUME NEW i \in BackfillJobs(m)', i \notin BackfillJobs(m)
          PROVE  i = j
      <4>1. i \in Rows' \ Rows /\ jobs'[i] = NewJob(x)
        BY <1>7, <3>3
      <4> HIDE DEF x
      <4> QED
        BY <1>5, <2>1, <3>2, <4>1
    <3> QED
      BY <3>3
  <2> QED
    BY <2>2, <2>3
<1> QED
  BY <1>4, <1>6, <1>7, <1>8

\* Whoever has been saved stays saved.
LEMMA SavedStays ==
    ASSUME TableInv, [Next]_vars
    PROVE  \A m \in Media : saved[m] > 0 => saved'[m] > 0
<1>1. saved \in [Media -> Nat]
  BY DEF TableInv, TypeOK
<1>2. CASE UNCHANGED saved
  BY <1>2
<1>3. ASSUME NEW e \in Enqueuers, Enqueue(e)
      PROVE  \A m \in Media : saved[m] > 0 => saved'[m] > 0
  <2>1. CASE Collect(e)
    <3>1. /\ \A m \in Media : saved[m] <= saved'[m]
          /\ TypeOK'
      BY <2>1, CollectKeeps, FeedSteps DEF FeedGrows, Kept, TableInv
    <3>2. saved' \in [Media -> Nat]
      BY <3>1 DEF TypeOK
    <3> QED
      BY <1>1, <3>1, <3>2
  <2>2. CASE ~Collect(e)
    BY <1>2, <1>3, <2>2 DEF Enqueue, ReadBlocking, InsertJobs, LoseEnqueue, feed
  <2> QED
    BY <2>1, <2>2
<1>4. ASSUME NEW w \in Workers, RunCycle(w) PROVE UNCHANGED saved
  <2>1. ASSUME NEW j \in JobIds, ProcessJob(w, j) PROVE UNCHANGED saved
    BY <2>1, Zenon DEF ProcessJob, Download, Deduplicate, Store, StepFails, Succeed,
                       LinkMedia, ReadAttempts, Fail, feed
  <2> QED
    BY <1>4, <2>1 DEF RunCycle, Reap, Claim, FindNothing, EndCycle, feed
<1>5. CASE \E w \in Workers : \/ ReapFails(w) \/ AbortCycle(w)
                              \/ \E j \in JobIds : LinkFails(w, j)
  BY <1>2, <1>5 DEF ReapFails, AbortCycle, LinkFails, feed
<1>6. CASE \/ \E m \in Media : Publish(m)
           \/ \E l \in Listings : Tombstone(l)
           \/ \E j \in JobIds : LeaseRunsOut(j)
  BY <1>2, <1>6 DEF Publish, Tombstone, LeaseRunsOut, feed
<1> QED
  BY <1>2, <1>3, <1>4, <1>5, <1>6 DEF Next, vars, feed

\* The processes of AttachmentJobs add no job without a revision and end some.
LEMMA JobsWithoutRevision ==
    ASSUME TableInv, WantsAreTimed, [Next]_vars
    PROVE  \A m : BackfillJobs(m)' \subseteq BackfillJobs(m)
<1>1. /\ TypeOK /\ Rows \subseteq Rows' /\ RowsKeep
      /\ \A j \in Rows : Evolves(jobs[j], jobs'[j])
  BY NextTableInv, RowsStay, StepKeepsRows DEF TableInv
<1>2. ASSUME NEW j \in Rows' \ Rows PROVE jobs'[j].rev # 0
  <2>1. PICK e \in Enqueuers : InsertJobs(e)
    BY <1>2, SameRows
  <2>2. PICK x \in enq[e].wanted : jobs'[j] = NewJob(x)
    BY <1>2, <2>1, InsertedRows
  <2>3. x.rev > 0 /\ x.rev \in Nat
    BY DEF WantsAreTimed, TableInv, TypeOK, Call, Want
  <2> QED
    BY <2>2, <2>3 DEF NewJob
<1>3. \A j \in Rows : /\ jobs'[j].media = jobs[j].media /\ jobs'[j].rev = jobs[j].rev
                      /\ jobs'[j].status \in Blocking => jobs[j].status \in Blocking
  BY <1>1, BlockersStay DEF RowsKeep
<1> QED
  BY <1>2, <1>3 DEF BackfillJobs, BlockingJobs

----------------------------------------------------------------------------
(* One step *)

LEMMA OthersBInv ==
    ASSUME BInv, [Next]_vars, UNCHANGED backfillVars
    PROVE  BInv'
<1>1. TableInv /\ TimedWants /\ BackfillTypeOK /\ RequestedAreSaved
  BY DEF BInv
<1>2. TableInv' /\ TimedWants' /\ Rows \subseteq Rows'
  BY <1>1, NextTableInv, WantsStayTimed, RowsStay DEF TimedWants
<1>3. UNCHANGED <<onMarket, warm, request>>
  BY DEF backfillVars
<1>4. BackfillTypeOK'
  <2>1. TypeOK'
    BY <1>2 DEF TableInv
  <2> QED
    BY <1>1, <1>2, <1>3, <2>1 DEF BackfillTypeOK
<1>5. RequestedAreSaved'
  <2>1. \A m \in Media : saved[m] > 0 => saved'[m] > 0
    BY <1>1, SavedStays
  <2>2. /\ warm.keep \cup warm.todo \subseteq Media
        /\ \A r \in Requests : request[r] # NoMedia => request[r] \in Media
    BY <1>1 DEF BackfillTypeOK
  <2> QED
    BY <1>1, <1>3, <2>1, <2>2 DEF RequestedAreSaved
<1>6. ASSUME NEW m \in Media PROVE AddsOnce(m)'
  <2>1. CASE Untimed = {}
    <3>1. BackfillJobs(m)' \subseteq BackfillJobs(m)
      BY <1>1, <2>1, JobsWithoutRevision DEF TimedWants
    <3>2. WarmAdds(m)' <= WarmAdds(m) /\ Waiting(m)' \subseteq Waiting(m)
      BY <1>3 DEF WarmAdds, Waiting
    <3>3. AddsOnce(m)
      BY DEF BInv
    <3> QED
      BY <3>1, <3>2, <3>3, NobodyElse
  <2>2. CASE Untimed # {}
    BY <2>2 DEF AddsOnce
  <2> QED
    BY <2>1, <2>2
<1> QED
  BY <1>2, <1>4, <1>5, <1>6 DEF BInv

\* Steps that only read the tables.
LEMMA ReadersBInv ==
    ASSUME BInv, UNCHANGED vars, onMarket' \in SUBSET Listings,
           warm' \in WarmState, request' \in [Requests -> Media \cup {NoMedia}],
           \A m \in warm'.keep \cup warm'.todo : saved[m] > 0,
           \A r \in Requests : request'[r] # NoMedia => saved[request'[r]] > 0,
           \A m \in Media : AddsOnce(m)'
    PROVE  BInv'
<1>1. TableInv' /\ TypeOK'
  BY NextTableInv DEF BInv, TableInv
<1>2. UNCHANGED <<saved, jobs, enq>> /\ Rows' = Rows
  BY DEF vars, feed, Rows
<1>3. BackfillTypeOK'
  BY <1>1, <1>2 DEF BackfillTypeOK, WarmState
<1>4. RequestedAreSaved' /\ TimedWants'
  BY <1>2 DEF BInv, RequestedAreSaved, TimedWants, WantsAreTimed
<1> QED
  BY <1>1, <1>3, <1>4 DEF BInv

\* Those among them after which nobody more is about to insert a job.
LEMMA NoMoreBInv ==
    ASSUME BInv, UNCHANGED <<vars, request>>, onMarket' \in SUBSET Listings,
           warm' \in WarmState, warm'.at # "insert",
           \A m \in warm'.keep \cup warm'.todo : saved[m] > 0
    PROVE  BInv'
<1>1. ASSUME NEW m \in Media PROVE AddsOnce(m)'
  <2>1. BackfillJobs(m)' \subseteq BackfillJobs(m)
    BY DEF vars, BackfillJobs, BlockingJobs, Rows
  <2>2. WarmAdds(m)' <= WarmAdds(m) /\ Waiting(m)' \subseteq Waiting(m)
    BY DEF WarmAdds, Waiting
  <2>3. AddsOnce(m)
    BY DEF BInv
  <2> QED
    BY <2>1, <2>2, <2>3, NobodyElse
<1>2. /\ request' \in [Requests -> Media \cup {NoMedia}]
      /\ \A r \in Requests : request'[r] # NoMedia => saved[request'[r]] > 0
  BY DEF BInv, BackfillTypeOK, RequestedAreSaved
<1> QED
  BY <1>1, <1>2, ReadersBInv

LEMMA ChangeStatusBInv ==
    ASSUME BInv, NEW l \in Listings, ChangeStatus(l)
    PROVE  BInv'
<1>1. /\ UNCHANGED <<vars, warm, request>> /\ onMarket' \in SUBSET Listings
      /\ warm \in WarmState
  BY DEF ChangeStatus, BInv, BackfillTypeOK, WarmState
<1>2. ASSUME NEW m \in Media PROVE AddsOnce(m)'
  <2>1. BackfillJobs(m)' \subseteq BackfillJobs(m)
    BY <1>1 DEF vars, BackfillJobs, BlockingJobs, Rows
  <2>2. WarmAdds(m)' <= WarmAdds(m) /\ Waiting(m)' \subseteq Waiting(m)
    BY <1>1 DEF WarmAdds, Waiting
  <2>3. AddsOnce(m)
    BY DEF BInv
  <2> QED
    BY <2>1, <2>2, <2>3, NobodyElse
<1>3. /\ request' \in [Requests -> Media \cup {NoMedia}]
      /\ \A r \in Requests : request'[r] # NoMedia => saved[request'[r]] > 0
      /\ \A m \in warm'.keep \cup warm'.todo : saved[m] > 0
  BY <1>1 DEF BInv, BackfillTypeOK, RequestedAreSaved
<1> QED
  BY <1>1, <1>2, <1>3, ReadersBInv

LEMMA RestingState == Resting \in WarmState /\ Resting.at = "idle"
                         /\ Resting.keep = {} /\ Resting.todo = {}
<1>1. 0 \in 0 .. MaxJobs
  BY ConstantsAssumption
<1> QED
  BY <1>1 DEF Resting, WarmState, WarmSteps

LEMMA RepairLinksBInv ==
    ASSUME BInv, RepairLinks
    PROVE  BInv'
<1>1. /\ UNCHANGED <<feed, enq, jobs, storage, workVars, slow, aborts, onMarket, request>>
      /\ warm' = [warm EXCEPT !.at = "listings"]
      /\ TableInv /\ BackfillTypeOK /\ RequestedAreSaved
  BY DEF RepairLinks, Enter, BInv
<1>2. TableInv'
  <2>1. link' \in [Media -> Contents \cup {NoContent}]
    BY DEF RepairLinks
  <2> QED
    BY <1>1, <2>1, RelinkTable
<1>3. Rows' = Rows /\ saved' = saved
  BY <1>1 DEF Rows, feed
<1>4. /\ warm' \in WarmState /\ warm'.at = "listings"
      /\ warm'.keep = warm.keep /\ warm'.todo = warm.todo
  BY <1>1 DEF BackfillTypeOK, WarmState, WarmSteps
<1>5. BackfillTypeOK'
  BY <1>1, <1>2, <1>3, <1>4 DEF TableInv, BackfillTypeOK, WarmState
<1>6. RequestedAreSaved' /\ TimedWants'
  BY <1>1, <1>3, <1>4 DEF BInv, RequestedAreSaved, TimedWants, WantsAreTimed
<1>7. ASSUME NEW m \in Media PROVE AddsOnce(m)'
  <2>1. BackfillJobs(m)' \subseteq BackfillJobs(m)
    BY <1>1 DEF BackfillJobs, BlockingJobs, Rows
  <2>2. WarmAdds(m)' <= WarmAdds(m) /\ Waiting(m)' \subseteq Waiting(m)
    BY <1>1, <1>4 DEF WarmAdds, Waiting
  <2>3. AddsOnce(m)
    BY DEF BInv
  <2> QED
    BY <2>1, <2>2, <2>3, NobodyElse
<1> QED
  BY <1>2, <1>5, <1>6, <1>7 DEF BInv

\* A page of the scan has a last row.
LEMMA LastOfPage ==
    ASSUME NEW S \in SUBSET JobIds, S # {}
    PROVE  \E j \in S : \A i \in S : i <= j
<1> DEFINE T == {MaxJobs - i : i \in S}
<1>1. \A i \in S : i \in Nat /\ i <= MaxJobs /\ MaxJobs \in Nat
  BY ConstantsAssumption DEF JobIds
<1>2. T \subseteq Nat /\ T # {}
  BY <1>1
<1>3. PICK d \in T : \A y \in T : ~(<<y, d>> \in OpToRel(<, Nat))
  <2> HIDE DEF T
  <2> QED
    BY <1>2, NatLessThanWellFounded, WFMin, Zenon
<1>4. PICK j \in S : d = MaxJobs - j
  BY <1>3
<1>5. ASSUME NEW i \in S PROVE i <= j
  <2>1. MaxJobs - i \in T /\ MaxJobs - i \in Nat /\ MaxJobs - j \in Nat
    BY <1>1, <1>2, <1>4
  <2>2. ~(MaxJobs - i < MaxJobs - j)
    BY <1>3, <1>4, <2>1, Zenon DEF OpToRel
  <2> QED
    BY <1>1, <2>2
<1> QED
  BY <1>5

LEMMA ScanPageBInv ==
    ASSUME BInv, ScanPage
    PROVE  BInv'
<1>1. /\ UNCHANGED <<vars, request>> /\ onMarket' = onMarket /\ onMarket \in SUBSET Listings
      /\ warm \in WarmState /\ \A m \in warm.keep \cup warm.todo : saved[m] > 0
  BY DEF ScanPage, BInv, BackfillTypeOK, RequestedAreSaved, WarmState
<1>2. CASE Page = {}
  BY <1>1, <1>2, RestingState, NoMoreBInv DEF ScanPage
<1>3. CASE Page # {}
  <2> DEFINE last == CHOOSE j \in Page : \A i \in Page : i <= j
             doomed == {j \in Page : jobs[j].media \notin warm.keep}
  <2>1. Page \in SUBSET JobIds /\ Page \in SUBSET Rows
    BY DEF Page, Claimable, Rows
  <2>2. last \in 0 .. MaxJobs
    <3>1. last \in Page
      BY <1>3, <2>1, LastOfPage
    <3> HIDE DEF last
    <3> QED
      BY <2>1, <3>1, ConstantsAssumption DEF JobIds
  <2>3. doomed \in SUBSET Rows
    BY <2>1
  <2>4. warm' = [warm EXCEPT !.at = "cancel", !.doomed = doomed, !.cursor = last]
    BY <1>3 DEF ScanPage
  <2> HIDE DEF last, doomed
  <2>5. /\ warm' \in WarmState /\ warm'.at = "cancel"
        /\ warm'.keep = warm.keep /\ warm'.todo = warm.todo
    BY <1>1, <2>2, <2>3, <2>4 DEF WarmState, WarmSteps
  <2> QED
    BY <1>1, <2>5, NoMoreBInv
<1> QED
  BY <1>2, <1>3

\* The other steps of warm that leave it with nothing to insert.
LEMMA ChoosingBInv ==
    ASSUME BInv, ChooseListings \/ ChooseMedia \/ StopWarm
    PROVE  BInv'
<1>1. /\ UNCHANGED <<vars, request>> /\ onMarket' = onMarket /\ onMarket \in SUBSET Listings
      /\ warm \in WarmState /\ \A m \in warm.keep \cup warm.todo : saved[m] > 0
  BY DEF ChooseListings, ChooseMedia, StopWarm, BInv, BackfillTypeOK, RequestedAreSaved,
         WarmState
<1>2. CASE warm' = Resting
  BY <1>1, <1>2, RestingState, NoMoreBInv
<1>3. CASE ChooseListings /\ warm' # Resting
  <2>1. warm' = [warm EXCEPT !.at = "media", !.chosen = onMarket]
    BY <1>3 DEF ChooseListings
  <2>2. /\ warm' \in WarmState /\ warm'.at = "media"
        /\ warm'.keep = warm.keep /\ warm'.todo = warm.todo
    BY <1>1, <2>1 DEF WarmState, WarmSteps
  <2> QED
    BY <1>1, <2>2, NoMoreBInv
<1>4. CASE ChooseMedia /\ warm' # Resting
  <2> DEFINE keep == Unattached
  <2>1. warm' = [warm EXCEPT !.at = "existing", !.keep = keep]
    BY <1>4 DEF ChooseMedia
  <2>2. keep \in SUBSET Media /\ \A m \in keep : saved[m] > 0
    BY DEF Unattached, MediaRows
  <2> HIDE DEF keep
  <2>3. /\ warm' \in WarmState /\ warm'.at = "existing"
        /\ warm'.keep = keep /\ warm'.todo = warm.todo
    BY <1>1, <2>1, <2>2 DEF WarmState, WarmSteps
  <2> QED
    BY <1>1, <2>2, <2>3, NoMoreBInv
<1> QED
  BY <1>2, <1>3, <1>4 DEF StopWarm

\* What warm is about to insert had no job: with it, it is one process more.
LEMMA ReadExistingBInv ==
    ASSUME BInv, ReadExisting
    PROVE  BInv'
<1>1. /\ UNCHANGED <<vars, request>> /\ onMarket' = onMarket /\ onMarket \in SUBSET Listings
      /\ warm \in WarmState /\ \A m \in warm.keep : saved[m] > 0
  BY DEF ReadExisting, BInv, BackfillTypeOK, RequestedAreSaved, WarmState
<1>2. PICK todo \in SUBSET {m \in warm.keep : ~SpokenFor(m)} :
         warm' = [warm EXCEPT !.at = "insert", !.todo = todo]
  BY DEF ReadExisting
<1>3. /\ warm' \in WarmState /\ warm'.keep = warm.keep /\ warm'.todo = todo
      /\ \A m \in warm'.keep \cup warm'.todo : saved[m] > 0
  BY <1>1, <1>2 DEF WarmState, WarmSteps
<1>4. ASSUME NEW m \in Media PROVE AddsOnce(m)'
  <2>1. /\ BackfillJobs(m)' = BackfillJobs(m) /\ Waiting(m)' = Waiting(m)
        /\ AddsOnce(m)
    BY <1>1 DEF vars, BackfillJobs, BlockingJobs, Rows, Waiting, BInv
  <2>2. CASE m \in todo
    <3>1. BackfillJobs(m)' = {}
      BY <1>2, <2>1, <2>2 DEF SpokenFor, BackfillJobs
    <3>2. /\ Cardinality(Waiting(m)') <= Cardinality(Requests)
          /\ Cardinality(Waiting(m)') \in Nat /\ Cardinality(Requests) \in Nat
      BY <2>1, CountsOfRequests
    <3>3. WarmAdds(m)' = 0 \/ WarmAdds(m)' = 1
      BY DEF WarmAdds
    <3> QED
      BY <3>1, <3>2, <3>3, NothingYet
  <2>3. CASE m \notin todo
    <3>1. WarmAdds(m)' = 0
      BY <1>3, <2>3 DEF WarmAdds
    <3>2. WarmAdds(m)' <= WarmAdds(m)
      BY <3>1 DEF WarmAdds
    <3> QED
      BY <2>1, <3>2, NobodyElse
  <2> QED
    BY <2>2, <2>3
<1>5. /\ request' \in [Requests -> Media \cup {NoMedia}]
      /\ \A r \in Requests : request'[r] # NoMedia => saved[request'[r]] > 0
  BY <1>1 DEF BInv, BackfillTypeOK, RequestedAreSaved
<1> QED
  BY <1>1, <1>3, <1>4, <1>5, ReadersBInv

LEMMA WarmInsertBInv ==
    ASSUME BInv, WarmInsert
    PROVE  BInv'
<1>1. /\ TableInv /\ BackfillTypeOK /\ RequestedAreSaved
      /\ tableOnly' = tableOnly /\ UNCHANGED <<onMarket, request>>
      /\ warm.at = "insert" /\ BulkInsert(Unrevised(warm.todo))
      /\ warm' = IF Exclusive THEN [warm EXCEPT !.at = "scan"] ELSE Resting
  BY DEF WarmInsert, BInv, At, Unrevised
<1>2. warm.todo \in SUBSET Media /\ \A m \in warm.todo : saved[m] > 0
  BY <1>1 DEF BackfillTypeOK, RequestedAreSaved
<1>3. /\ TableInv' /\ Rows \subseteq Rows'
      /\ \A m \in Media : m \notin warm.todo => BackfillJobs(m)' \subseteq BackfillJobs(m)
      /\ \A m \in warm.todo : \E j : BackfillJobs(m)' \subseteq BackfillJobs(m) \cup {j}
  BY <1>1, <1>2, AddTable
<1>4. /\ warm' \in WarmState /\ warm'.at # "insert"
      /\ warm'.keep \subseteq warm.keep /\ warm'.todo \subseteq warm.todo
  <2>1. warm \in WarmState
    BY <1>1 DEF BackfillTypeOK, WarmState
  <2> QED
    BY <1>1, <2>1, RestingState DEF WarmState, WarmSteps
<1>5. BackfillTypeOK'
  BY <1>1, <1>3, <1>4 DEF TableInv, BackfillTypeOK, WarmState
<1>6. RequestedAreSaved' /\ TimedWants'
  BY <1>1, <1>4 DEF BInv, RequestedAreSaved, TimedWants, WantsAreTimed, tableOnly, feed
<1>7. ASSUME NEW m \in Media PROVE AddsOnce(m)'
  <2>1. WarmAdds(m)' = 0 /\ Waiting(m)' = Waiting(m) /\ AddsOnce(m)
    BY <1>1, <1>4 DEF WarmAdds, Waiting, BInv
  <2>2. Cardinality(Waiting(m)') \in Nat
    BY <2>1, CountsOfRequests
  <2>3. CASE m \in warm.todo
    <3>1. WarmAdds(m) = 1
      BY <1>1, <2>3 DEF WarmAdds
    <3>2. PICK j : BackfillJobs(m)' \subseteq BackfillJobs(m) \cup {j}
      BY <1>3, <2>3
    <3> QED
      BY <2>1, <2>2, <3>1, <3>2, OneAdded
  <2>4. CASE m \notin warm.todo
    <3>1. WarmAdds(m)' <= WarmAdds(m)
      BY <2>1 DEF WarmAdds
    <3> QED
      BY <1>3, <2>1, <2>4, <3>1, NobodyElse
  <2> QED
    BY <2>3, <2>4
<1> QED
  BY <1>3, <1>5, <1>6, <1>7 DEF BInv

LEMMA CancelPageBInv ==
    ASSUME BInv, CancelPage
    PROVE  BInv'
<1>1. /\ TableInv /\ BackfillTypeOK /\ RequestedAreSaved
      /\ tableOnly' = tableOnly /\ UNCHANGED <<onMarket, request>>
      /\ warm' = [warm EXCEPT !.at = "scan"]
  BY DEF CancelPage, BInv, Enter
<1>2. TableInv' /\ Rows' = Rows /\ \A m : BackfillJobs(m)' \subseteq BackfillJobs(m)
  <2> DEFINE doomed == warm.doomed
  <2>1. /\ doomed \in SUBSET Rows
        /\ jobs' = [j \in JobIds |-> IF j \in doomed
                                     THEN [jobs[j] EXCEPT !.status = "canceled"]
                                     ELSE jobs[j]]
    BY <1>1 DEF BackfillTypeOK, CancelPage
  <2> HIDE DEF doomed
  <2> QED
    BY <1>1, <2>1, CancelTable
<1>3. /\ warm' \in WarmState /\ warm'.at = "scan"
      /\ warm'.keep = warm.keep /\ warm'.todo = warm.todo
  <2>1. warm \in WarmState
    BY <1>1 DEF BackfillTypeOK, WarmState
  <2> QED
    BY <1>1, <2>1 DEF WarmState, WarmSteps
<1>4. BackfillTypeOK'
  BY <1>1, <1>2, <1>3 DEF TableInv, BackfillTypeOK, WarmState
<1>5. RequestedAreSaved' /\ TimedWants'
  BY <1>1, <1>3 DEF BInv, RequestedAreSaved, TimedWants, WantsAreTimed, tableOnly, feed
<1>6. ASSUME NEW m \in Media PROVE AddsOnce(m)'
  <2>1. WarmAdds(m)' <= WarmAdds(m) /\ Waiting(m)' \subseteq Waiting(m)
    BY <1>1, <1>3 DEF WarmAdds, Waiting
  <2>2. AddsOnce(m)
    BY DEF BInv
  <2> QED
    BY <1>2, <2>1, <2>2, NobodyElse
<1> QED
  BY <1>2, <1>4, <1>5, <1>6 DEF BInv

\* A miss found no job: with it, it is one waiting request more.
LEMMA MissBInv ==
    ASSUME BInv, NEW r \in Requests, NEW k \in Media, Miss(r, k)
    PROVE  BInv'
<1>1. /\ UNCHANGED <<vars, onMarket, warm>> /\ onMarket \in SUBSET Listings
      /\ warm \in WarmState /\ \A m \in warm.keep \cup warm.todo : saved[m] > 0
      /\ request \in [Requests -> Media \cup {NoMedia}]
      /\ request' = [request EXCEPT ![r] = k] /\ request[r] = NoMedia
      /\ saved[k] > 0
  BY DEF Miss, MediaRows, BInv, BackfillTypeOK, RequestedAreSaved, WarmState
<1>2. /\ request' \in [Requests -> Media \cup {NoMedia}]
      /\ \A q \in Requests : request'[q] = IF q = r THEN k ELSE request[q]
  BY <1>1
<1>3. ASSUME NEW m \in Media PROVE AddsOnce(m)'
  <2>1. /\ BackfillJobs(m)' = BackfillJobs(m) /\ WarmAdds(m)' = WarmAdds(m)
        /\ AddsOnce(m)
    BY <1>1 DEF vars, BackfillJobs, BlockingJobs, Rows, WarmAdds, BInv
  <2>2. CASE m = k
    <3>1. BackfillJobs(m)' = {}
      BY <2>1, <2>2 DEF Miss, SpokenFor, BackfillJobs
    <3>2. /\ Cardinality(Waiting(m)') <= Cardinality(Requests)
          /\ Cardinality(Waiting(m)') \in Nat /\ Cardinality(Requests) \in Nat
      <4>1. IsFiniteSet(Requests) /\ Waiting(m)' \in SUBSET Requests
        BY BackfillAssumption DEF Waiting
      <4> QED
        BY <4>1, FS_Subset, FS_CardinalityType
    <3>3. WarmAdds(m)' = 0 \/ WarmAdds(m)' = 1
      BY DEF WarmAdds
    <3> QED
      BY <3>1, <3>2, <3>3, NothingYet
  <2>3. CASE m # k
    <3>1. Waiting(m)' \subseteq Waiting(m)
      BY <1>2, <2>3 DEF Waiting
    <3>2. WarmAdds(m)' <= WarmAdds(m)
      BY <2>1 DEF WarmAdds
    <3> QED
      BY <2>1, <3>1, <3>2, NobodyElse
  <2> QED
    BY <2>2, <2>3
<1>4. \A q \in Requests : request'[q] # NoMedia => saved[request'[q]] > 0
  BY <1>1, <1>2 DEF BInv, RequestedAreSaved
<1>5. warm' \in WarmState /\ warm' = warm
  BY <1>1
<1> QED
  BY <1>1, <1>2, <1>3, <1>4, <1>5, ReadersBInv

LEMMA RegisterBInv ==
    ASSUME BInv, NEW r \in Requests, Register(r)
    PROVE  BInv'
<1>0. PICK k : k = request[r]
  OBVIOUS
<1>1. /\ TableInv /\ BackfillTypeOK /\ RequestedAreSaved
      /\ tableOnly' = tableOnly /\ UNCHANGED <<onMarket, warm>>
      /\ k # NoMedia
      /\ (BulkInsert(Unrevised({k})) \/ UNCHANGED jobs)
      /\ request \in [Requests -> Media \cup {NoMedia}]
      /\ request' = [request EXCEPT ![r] = NoMedia]
  <2>1. Unrevised({k}) = {[media |-> k, rev |-> 0]}
    BY DEF Unrevised
  <2> QED
    BY <1>0, <2>1 DEF Register, BInv, BackfillTypeOK
<1>2. k \in Media /\ saved[k] > 0 /\ k # NoMedia
  BY <1>0, <1>1 DEF RequestedAreSaved
<1>3. /\ TableInv' /\ Rows \subseteq Rows'
      /\ \A m \in Media : m # k => BackfillJobs(m)' \subseteq BackfillJobs(m)
      /\ \E j : BackfillJobs(k)' \subseteq BackfillJobs(k) \cup {j}
  <2>1. CASE UNCHANGED jobs
    <3>1. UNCHANGED vars
      BY <1>1, <2>1 DEF tableOnly, vars
    <3>2. TableInv' /\ Rows' = Rows
      BY <1>1, <2>1, <3>1, NextTableInv DEF Rows
    <3> QED
      BY <2>1, <3>2 DEF BackfillJobs, BlockingJobs
  <2>2. CASE BulkInsert(Unrevised({k}))
    <3> DEFINE ms == {k}
    <3>1. ms \in SUBSET Media /\ (\A m \in ms : saved[m] > 0) /\ BulkInsert(Unrevised(ms))
      BY <1>2, <2>2
    <3>2. k \in ms /\ \A m \in Media : m # k => m \notin ms
      OBVIOUS
    <3> HIDE DEF ms
    <3> QED
      BY <1>1, <3>1, <3>2, AddTable
  <2> QED
    BY <1>1, <2>1, <2>2
<1>4. \A q \in Requests : request'[q] = IF q = r THEN NoMedia ELSE request[q]
  BY <1>1
<1>5. BackfillTypeOK'
  <2>1. request' \in [Requests -> Media \cup {NoMedia}]
    BY <1>1
  <2> QED
    BY <1>1, <1>3, <2>1 DEF TableInv, BackfillTypeOK
<1>6. RequestedAreSaved' /\ TimedWants'
  BY <1>1, <1>4 DEF BInv, RequestedAreSaved, TimedWants, WantsAreTimed, tableOnly, feed
<1>7. ASSUME NEW m \in Media PROVE AddsOnce(m)'
  <2>1. WarmAdds(m)' = WarmAdds(m) /\ WarmAdds(m) \in Nat /\ AddsOnce(m)
    BY <1>1 DEF WarmAdds, BInv
  <2>2. IsFiniteSet(Waiting(m)) /\ Cardinality(Waiting(m)) \in Nat
    BY CountsOfRequests
  <2>3. CASE m = k
    <3>1. Waiting(m)' = Waiting(m) \ {r} /\ r \in Waiting(m)
      BY <1>0, <1>2, <1>4, <2>3 DEF Waiting
    <3>2. Cardinality(Waiting(m)') = Cardinality(Waiting(m)) - 1
      BY <2>2, <3>1, FS_RemoveElement
    <3>3. Cardinality(Waiting(m)') \in Nat
      BY <2>2, <3>1, FS_RemoveElement, FS_CardinalityType
    <3>4. PICK j : BackfillJobs(m)' \subseteq BackfillJobs(m) \cup {j}
      BY <1>3, <2>3
    <3>5. WarmAdds(m)' + Cardinality(Waiting(m)') + 1 <= WarmAdds(m) + Cardinality(Waiting(m))
      BY <2>1, <2>2, <3>2
    <3> QED
      BY <2>1, <3>3, <3>4, <3>5, OneAdded
  <2>4. CASE m # k
    <3>1. Waiting(m)' \subseteq Waiting(m) /\ WarmAdds(m)' <= WarmAdds(m)
      BY <1>2, <1>4, <2>1, BackfillAssumption DEF Waiting
    <3> QED
      BY <1>3, <2>1, <2>4, <3>1, NobodyElse
  <2> QED
    BY <2>3, <2>4
<1> QED
  BY <1>3, <1>5, <1>6, <1>7 DEF BInv

----------------------------------------------------------------------------

LEMMA InitBInv == BackfillInit => BInv
<1> SUFFICES ASSUME BackfillInit PROVE BInv
  OBVIOUS
<1>1. TableInv /\ TimedWants /\ Rows = {}
  <2>1. IInv
    BY InitIInv DEF BackfillInit
  <2> QED
    BY <2>1 DEF IInv, BackfillInit, Init, TimedWants, WantsAreTimed, IdleCall, Rows
<1>2. warm = Resting /\ request = [r \in Requests |-> NoMedia] /\ onMarket \in SUBSET Listings
  BY DEF BackfillInit
<1>3. BackfillTypeOK
  BY <1>1, <1>2, RestingState DEF TableInv, BackfillTypeOK, WarmState
<1>4. RequestedAreSaved
  BY <1>2, RestingState DEF RequestedAreSaved
<1>5. ASSUME NEW m \in Media PROVE AddsOnce(m)
  <2>1. BackfillJobs(m) = {} /\ Waiting(m) = {} /\ WarmAdds(m) = 0
    BY <1>1, <1>2, RestingState, BackfillAssumption
       DEF BackfillJobs, BlockingJobs, Waiting, WarmAdds
  <2>2. Cardinality({}) = 0 /\ Cardinality(Requests) \in Nat
    BY FS_EmptySet, FS_CardinalityType, BackfillAssumption
  <2> QED
    BY <2>1, <2>2 DEF AddsOnce
<1> QED
  BY <1>1, <1>3, <1>4, <1>5 DEF BInv

LEMMA StepBInv ==
    ASSUME BInv, [BackfillNext]_allVars
    PROVE  BInv'
<1>1. CASE Next /\ UNCHANGED backfillVars
  BY <1>1, OthersBInv
<1>2. CASE UNCHANGED allVars
  BY <1>2, OthersBInv DEF allVars
<1>3. CASE \E l \in Listings : ChangeStatus(l)
  BY <1>3, ChangeStatusBInv
<1>4. CASE Warm
  BY <1>4, RepairLinksBInv, ChoosingBInv, ReadExistingBInv, WarmInsertBInv, ScanPageBInv,
     CancelPageBInv DEF Warm
<1>5. CASE \E r \in Requests : (\E m \in Media : Miss(r, m)) \/ Register(r)
  BY <1>5, MissBInv, RegisterBInv
<1> QED
  BY <1>1, <1>2, <1>3, <1>4, <1>5 DEF BackfillNext

(***************************************************************************)
(* Next to warm and the image endpoint, for any number of requests,        *)
(* workers and enqueuers, everything keeps its type; what warm is about to *)
(* cancel are rows of the table.                                           *)
(***************************************************************************)
THEOREM BackfillTypes == BackfillSpec => []BackfillTypeOK
<1>1. BInv /\ [BackfillNext]_allVars => BInv'
  BY StepBInv
<1>2. BInv => BackfillTypeOK
  BY DEF BInv
<1> QED
  BY InitBInv, <1>1, <1>2, PTL DEF BackfillSpec

(***************************************************************************)
(* Run as often as one likes, warm and the image endpoint add a job for an *)
(* image at most once for each process that can race: whoever is about to  *)
(* insert one has found none, and there are no more of them than one warm  *)
(* command and the requests.  The syncs add no job without a revision, as  *)
(* long as payloads show their timestamps.                                 *)
(***************************************************************************)
THEOREM BackfillIsIdempotent ==
    ASSUME Untimed = {}
    PROVE  BackfillSpec => []BackfillAddsOnce
<1>1. BInv /\ [BackfillNext]_allVars => BInv'
  BY StepBInv
<1>2. BInv => BackfillAddsOnce
  <2> SUFFICES ASSUME BInv, NEW m \in Media
               PROVE  Cardinality(BackfillJobs(m)) <= 1 + Cardinality(Requests)
    BY DEF BackfillAddsOnce
  <2>1. AddsOnce(m)
    BY DEF BInv
  <2>2. /\ Cardinality(BackfillJobs(m)) \in Nat /\ Cardinality(Waiting(m)) \in Nat
        /\ Cardinality(Requests) \in Nat /\ WarmAdds(m) \in Nat
    BY CountsOfJobs, CountsOfRequests DEF WarmAdds
  <2> QED
    BY <2>1, <2>2 DEF AddsOnce
<1> QED
  BY InitBInv, <1>1, <1>2, PTL DEF BackfillSpec
============================================================================
