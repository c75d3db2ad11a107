----------------------- MODULE AttachmentJobs_proofs -----------------------
(***************************************************************************)
(* Invariance proofs for AttachmentJobs, for every set of images and       *)
(* workers, any number of attempts, leases that run out and crashes.       *)
(***************************************************************************)
EXTENDS AttachmentJobs, FiniteSetTheorems, FunctionTheorems, WellFoundedInduction,
        TLAPS

(***************************************************************************)
(* The invariant that is inductive, in two parts.  TableInv adds to the    *)
(* types and to the bound on attempts: that the rows are the first so many *)
(* ids, so that an insert writes over none of them; that whatever a worker *)
(* has in hand is a row, and its image one that was saved and has bytes to *)
(* download; and that a count read by failJob is still the row's while the *)
(* claim holds.  EarnedLinks adds to the property of links that a link     *)
(* about to be written comes from a job that succeeded.                    *)
(***************************************************************************)
RowsInOrder == \E n \in Nat : n <= MaxJobs /\ Rows = 1 .. n

FeedInOrder ==
    \A m \in Media : saved[m] <= published[m] /\ published[m] <= Len(Revisions[m])

WantedAreSaved ==
    \A e \in Enqueuers : /\ IsFiniteSet(enq[e].wanted)
                         /\ \A x \in enq[e].wanted : saved[x.media] > 0

JobsAreSaved == \A j \in Rows : saved[jobs[j].media] > 0

HandsHoldRows == \A w \in Workers, j \in JobIds : hand[w][j].at # "idle" => j \in Rows

CountIsCurrent ==
    \A w \in Workers, j \in JobIds :
        hand[w][j].at = "failed" /\ StillMine(w, j) =>
            hand[w][j].attempts = jobs[j].attempts

LinkingSucceeded ==
    \A w \in Workers, j \in JobIds : hand[w][j].at = "linking" =>
        jobs[j].status = "succeeded" /\ jobs[j].content = hand[w][j].content

TableInv ==
    /\ TypeOK
    /\ RowsInOrder
    /\ FeedInOrder
    /\ WantedAreSaved
    /\ JobsAreSaved
    /\ HandsHoldRows
    /\ CountIsCurrent
    /\ AttemptsAreBounded

EarnedLinks == LinkingSucceeded /\ LinksComeFromSuccess

IInv == TableInv /\ EarnedLinks

\* What is shown of a step.  The table needs no link for its invariant: that is
\* how the part of it without them holds in Backfill too.
Kept == TableInv' /\ (EarnedLinks => EarnedLinks')

\* The share of one row in AttemptsAreBounded.
Bounded(job) ==
    /\ job.attempts <= MaxAttempts
    /\ job.status \in Active => job.attempts < MaxAttempts

\* What a step may make of a row: it keeps its image, stays as it is once it is
\* finished, and a recorded failure is what counts as an attempt.
Evolves(old, new) ==
    /\ new \in Job
    /\ new.media = old.media
    /\ old.status \in Finished => new = old
    /\ new.attempts = old.attempts +
           IF old.status = "in_progress"
              /\ new.status \in {"retrying", "permanently_failed"}
           THEN 1 ELSE 0
    /\ Bounded(old) => Bounded(new)

----------------------------------------------------------------------------
(* Rows one at a time *)

LEMMA Fields ==
    ASSUME NEW job \in Job
    PROVE  /\ job.media \in Media /\ job.rev \in Nat /\ job.attempts \in Nat
           /\ job.status \in Active \cup Finished
           /\ job.by \in Workers \cup {NoWorker} /\ job.stale \in BOOLEAN
           /\ job.content \in Contents \cup {NoContent}
           /\ ~(job.status \in Active /\ job.status \in Finished)
  BY DEF Job, Active, Finished

\* Steps that record no failure.
LEMMA QuietEvolves ==
    ASSUME NEW job \in Job, NEW new \in Job, job.status \in Active,
           new.media = job.media, new.attempts = job.attempts,
           new.status \notin {"retrying", "permanently_failed"}
    PROVE  Evolves(job, new)
<1>1. job.attempts \in Nat /\ job.status \notin Finished
  BY Fields
<1>2. job.attempts = job.attempts + 0
  BY <1>1
<1>3. Bounded(job) => Bounded(new)
  BY DEF Bounded
<1> QED
  BY <1>1, <1>2, <1>3 DEF Evolves

LEMMA SameEvolves == ASSUME NEW job \in Job PROVE Evolves(job, job)
<1>1. job.attempts = job.attempts + 0
  BY Fields
<1>2. job.status = "in_progress" => job.status \notin {"retrying", "permanently_failed"}
  OBVIOUS
<1> QED
  BY <1>1, <1>2 DEF Evolves

LEMMA CancelEvolves ==
    ASSUME NEW job \in Job, job.status \in Cancelable
    PROVE  Evolves(job, CancelJob(job)) /\ CancelJob(job).status = "canceled"
<1>1. CancelJob(job) \in Job
  BY DEF Job, CancelJob, Finished
<1>2. /\ CancelJob(job).media = job.media /\ CancelJob(job).attempts = job.attempts
      /\ CancelJob(job).status = "canceled"
  BY DEF Job, CancelJob
<1> QED
  BY <1>1, <1>2, QuietEvolves DEF Cancelable

LEMMA ReturnEvolves ==
    ASSUME NEW job \in Job, job.status = "in_progress"
    PROVE  Evolves(job, ReturnJob(job)) /\ ReturnJob(job).status = "pending"
<1>1. ReturnJob(job) \in Job
  BY DEF Job, ReturnJob, Active
<1>2. /\ ReturnJob(job).media = job.media /\ ReturnJob(job).attempts = job.attempts
      /\ ReturnJob(job).status = "pending"
  BY DEF Job, ReturnJob
<1> QED
  BY <1>1, <1>2, QuietEvolves DEF Active

LEMMA ClaimEvolves ==
    ASSUME NEW job \in Job, NEW w \in Workers, job.status \in {"pending", "retrying"}
    PROVE  Evolves(job, ClaimJob(job, w)) /\ ClaimJob(job, w).by = w
<1>1. ClaimJob(job, w) \in Job
  BY DEF Job, ClaimJob, Active
<1>2. /\ ClaimJob(job, w).media = job.media
      /\ ClaimJob(job, w).attempts = job.attempts
      /\ ClaimJob(job, w).status = "in_progress"
      /\ ClaimJob(job, w).by = w
  BY DEF Job, ClaimJob
<1> QED
  BY <1>1, <1>2, QuietEvolves DEF Active

LEMMA StaleEvolves ==
    ASSUME NEW job \in Job, job.status = "in_progress"
    PROVE  /\ Evolves(job, [job EXCEPT !.stale = TRUE])
           /\ [job EXCEPT !.stale = TRUE].by = job.by
<1> DEFINE new == [job EXCEPT !.stale = TRUE]
<1>1. new \in Job
  BY DEF Job
<1>2. /\ new.media = job.media /\ new.attempts = job.attempts /\ new.by = job.by
      /\ new.status = "in_progress"
  BY DEF Job
<1> HIDE DEF new
<1>3. Evolves(job, new)
  BY <1>1, <1>2, QuietEvolves DEF Active
<1> QED
  BY <1>2, <1>3 DEF new

LEMMA FailEvolves ==
    ASSUME NEW job \in Job, job.status = "in_progress", NEW full \in BOOLEAN,
           NEW status, status = IF full \/ job.attempts + 1 >= MaxAttempts
                                THEN "permanently_failed" ELSE "retrying",
           NEW new, new = [job EXCEPT !.status = status,
                                      !.attempts = job.attempts + 1]
    PROVE  Evolves(job, new) /\ new.status # "in_progress"
<1>1. job.attempts \in Nat /\ job.status \notin Finished /\ job.status \in Active
  BY Fields DEF Active
<1>2. /\ new.media = job.media /\ new.attempts = job.attempts + 1
      /\ new.status = status
  BY DEF Job
<1>3. status \in {"retrying", "permanently_failed"}
  OBVIOUS
<1>4. new \in Job
  <2>1. status \in Active \cup Finished /\ job.attempts + 1 \in Nat
    BY <1>1, <1>3 DEF Active, Finished
  <2> DEFINE count == job.attempts + 1
  <2>2. new = [job EXCEPT !.status = status, !.attempts = count]
    OBVIOUS
  <2>3. count \in Nat
    BY <2>1
  <2> HIDE DEF count
  <2> QED
    BY <2>1, <2>2, <2>3 DEF Job
<1>5. Bounded(job) => Bounded(new)
  <2>1. status = "retrying" => job.attempts + 1 < MaxAttempts
    BY <1>1, ConstantsAssumption
  <2>2. status # "retrying" => status \notin Active
    BY <1>3 DEF Active
  <2> QED
    BY <1>1, <1>2, <2>1, <2>2, ConstantsAssumption DEF Bounded
<1> QED
  BY <1>1, <1>2, <1>3, <1>4, <1>5 DEF Evolves

LEMMA NewJobType ==
    ASSUME NEW x \in Want
    PROVE  NewJob(x) \in Job /\ NewJob(x).media = x.media /\ Bounded(NewJob(x))
  BY ConstantsAssumption DEF NewJob, Want, Job, Bounded, Active

LEMMA RowsAreJobs ==
    ASSUME TypeOK
    PROVE  /\ \A j \in Rows : j \in JobIds /\ jobs[j] \in Job
           /\ \A j \in JobIds \ Rows : jobs[j] = NoJob
  BY DEF TypeOK, Rows

----------------------------------------------------------------------------
(* The table *)

\* No row comes and each one evolves.
RowsEvolve ==
    /\ jobs' \in [JobIds -> Job \cup {NoJob}]
    /\ Rows' = Rows
    /\ \A j \in Rows : Evolves(jobs[j], jobs'[j])

LEMMA RowByRow ==
    ASSUME TypeOK, jobs' = [j \in JobIds |-> jobs'[j]],
           \A j \in JobIds : \/ jobs'[j] = jobs[j]
                             \/ j \in Rows /\ Evolves(jobs[j], jobs'[j])
    PROVE  RowsEvolve
<1>1. ASSUME NEW j \in JobIds
      PROVE  /\ jobs'[j] \in Job \cup {NoJob}
             /\ (jobs'[j] # NoJob) = (jobs[j] # NoJob)
             /\ j \in Rows => Evolves(jobs[j], jobs'[j])
  <2>1. jobs[j] \in Job \cup {NoJob}
    BY DEF TypeOK
  <2>2. CASE jobs'[j] = jobs[j]
    BY <2>1, <2>2, SameEvolves, RowsAreJobs
  <2>3. CASE j \in Rows /\ Evolves(jobs[j], jobs'[j])
    BY <2>3, ConstantsAssumption DEF Evolves, Rows
  <2> QED
    BY <2>2, <2>3
<1>2. jobs' \in [JobIds -> Job \cup {NoJob}]
  BY <1>1
<1>3. Rows' = Rows
  BY <1>1 DEF Rows
<1> QED
  BY <1>1, <1>2, <1>3 DEF RowsEvolve, Rows

LEMMA UnchangedEvolve == ASSUME TypeOK, UNCHANGED jobs PROVE RowsEvolve
<1>1. jobs' = [j \in JobIds |-> jobs'[j]]
  BY DEF TypeOK
<1> QED
  BY <1>1, RowByRow

LEMMA TombstoneEvolve ==
    ASSUME TypeOK, NEW l \in Listings, Tombstone(l)
    PROVE  /\ RowsEvolve
           /\ \A j \in JobIds : jobs'[j] = jobs[j] \/ jobs'[j].status = "canceled"
<1>1. jobs' = [j \in JobIds |-> jobs'[j]]
  BY DEF Tombstone
<1>2. ASSUME NEW j \in JobIds
      PROVE  \/ jobs'[j] = jobs[j]
             \/ /\ j \in Rows /\ jobs[j].status \in Cancelable
                /\ jobs'[j] = CancelJob(jobs[j])
  BY DEF Tombstone
<1>3. ASSUME NEW j \in JobIds
      PROVE  \/ jobs'[j] = jobs[j]
             \/ /\ j \in Rows /\ Evolves(jobs[j], jobs'[j])
                /\ jobs'[j].status = "canceled"
  BY <1>2, RowsAreJobs, CancelEvolves
<1> QED
  BY <1>1, <1>3, RowByRow

LEMMA ReapEvolve ==
    ASSUME TypeOK, NEW w \in Workers, Reap(w)
    PROVE  /\ RowsEvolve
           /\ \A j \in JobIds : jobs'[j] = jobs[j] \/ jobs'[j].status = "pending"
<1>1. jobs' = [j \in JobIds |-> jobs'[j]]
  BY DEF Reap
<1>2. ASSUME NEW j \in JobIds
      PROVE  \/ jobs'[j] = jobs[j]
             \/ /\ j \in Rows /\ jobs[j].status = "in_progress"
                /\ jobs'[j] = ReturnJob(jobs[j])
  BY DEF Reap, StaleClaims
<1>3. ASSUME NEW j \in JobIds
      PROVE  \/ jobs'[j] = jobs[j]
             \/ /\ j \in Rows /\ Evolves(jobs[j], jobs'[j])
                /\ jobs'[j].status = "pending"
  BY <1>2, RowsAreJobs, ReturnEvolves
<1> QED
  BY <1>1, <1>3, RowByRow

LEMMA LeaseEvolve ==
    ASSUME TypeOK, NEW i \in JobIds, LeaseRunsOut(i)
    PROVE  /\ RowsEvolve
           /\ \A j \in JobIds : \/ jobs'[j] = jobs[j]
                                \/ /\ j \in Rows /\ jobs'[j].by = jobs[j].by
                                   /\ jobs[j].status = "in_progress"
<1>1. /\ jobs \in [JobIds -> Job \cup {NoJob}]
      /\ i \in Rows /\ jobs[i].status = "in_progress"
      /\ jobs' = [jobs EXCEPT ![i].stale = TRUE]
  BY DEF LeaseRunsOut, TypeOK
<1>2. jobs' = [jobs EXCEPT ![i] = [jobs[i] EXCEPT !.stale = TRUE]]
  BY <1>1
<1> DEFINE new == [jobs[i] EXCEPT !.stale = TRUE]
<1>3. Evolves(jobs[i], new) /\ new.by = jobs[i].by
  BY <1>1, RowsAreJobs, StaleEvolves
<1>4. jobs' = [jobs EXCEPT ![i] = new]
  BY <1>2
<1> HIDE DEF new
<1>5. /\ jobs' = [j \in JobIds |-> jobs'[j]]
      /\ jobs'[i] = new /\ \A j \in JobIds : j # i => jobs'[j] = jobs[j]
  BY <1>1, <1>4
<1> QED
  BY <1>1, <1>3, <1>5, RowByRow

LEMMA ClaimEvolve ==
    ASSUME TypeOK, NEW w \in Workers, Claim(w)
    PROVE  /\ RowsEvolve
           /\ \A j \in JobIds : jobs'[j] = jobs[j] \/ jobs'[j].by = w
<1>1. PICK batch \in (SUBSET Claimable) \ {{}} :
         jobs' = [j \in JobIds |->
                     IF j \in batch THEN ClaimJob(jobs[j], w) ELSE jobs[j]]
  BY DEF Claim
<1>2. jobs' = [j \in JobIds |-> jobs'[j]]
  BY <1>1
<1>3. ASSUME NEW j \in JobIds
      PROVE  \/ jobs'[j] = jobs[j]
             \/ /\ j \in Rows /\ jobs[j].status \in {"pending", "retrying"}
                /\ jobs'[j] = ClaimJob(jobs[j], w)
  BY <1>1 DEF Claimable
<1>4. ASSUME NEW j \in JobIds
      PROVE  \/ jobs'[j] = jobs[j]
             \/ j \in Rows /\ Evolves(jobs[j], jobs'[j]) /\ jobs'[j].by = w
  BY <1>3, RowsAreJobs, ClaimEvolves
<1> QED
  BY <1>2, <1>4, RowByRow

LEMMA SucceedStep ==
    ASSUME TypeOK, NEW w \in Workers, NEW i \in Rows, Succeed(w, i)
    PROVE  /\ RowsEvolve
           /\ \A j \in JobIds : j # i => jobs'[j] = jobs[j]
           /\ StillMine(w, i) => /\ jobs'[i].status = "succeeded"
                                 /\ jobs'[i].content = hand[w][i].content
           /\ ~StillMine(w, i) => jobs'[i] = jobs[i]
<1>1. /\ jobs \in [JobIds -> Job \cup {NoJob}]
      /\ hand[w][i].content \in Contents \cup {NoContent}
      /\ i \in JobIds /\ jobs[i] \in Job
  BY RowsAreJobs DEF TypeOK, Hand, Hands
<1>2. CASE ~StillMine(w, i)
  BY <1>1, <1>2, UnchangedEvolve DEF Succeed
<1>3. CASE StillMine(w, i)
  <2> DEFINE c == hand[w][i].content
             new == [jobs[i] EXCEPT !.status = "succeeded", !.content = c]
  <2>1. jobs' = [jobs EXCEPT ![i] = new]
    BY <1>1, <1>3 DEF Succeed
  <2>2. jobs[i].status = "in_progress"
    BY <1>3 DEF StillMine
  <2>3. /\ new = [jobs[i] EXCEPT !.status = "succeeded", !.content = c]
        /\ c \in Contents \cup {NoContent}
    BY <1>1
  <2> HIDE DEF c, new
  <2>4. new \in Job
    BY <1>1, <2>3 DEF Job, Finished
  <2>5. /\ new.media = jobs[i].media /\ new.attempts = jobs[i].attempts
        /\ new.status = "succeeded" /\ new.content = c
    BY <1>1, <2>3 DEF Job
  <2>6. Evolves(jobs[i], new)
    BY <1>1, <2>2, <2>4, <2>5, QuietEvolves DEF Active
  <2>7. /\ jobs' = [j \in JobIds |-> jobs'[j]]
        /\ jobs'[i] = new /\ \A j \in JobIds : j # i => jobs'[j] = jobs[j]
    BY <1>1, <2>1
  <2>8. RowsEvolve
    BY <2>7, <2>6, RowByRow
  <2> QED
    BY <1>3, <2>7, <2>5, <2>8 DEF c
<1> QED
  BY <1>2, <1>3

LEMMA FailStep ==
    ASSUME TypeOK, CountIsCurrent, NEW w \in Workers, NEW i \in Rows, Fail(w, i)
    PROVE  /\ RowsEvolve
           /\ \A j \in JobIds : \/ jobs'[j] = jobs[j]
                                \/ j = i /\ jobs'[j].status # "in_progress"
<1>1. /\ jobs \in [JobIds -> Job \cup {NoJob}]
      /\ hand[w][i].full \in BOOLEAN
      /\ i \in JobIds /\ jobs[i] \in Job
  BY RowsAreJobs DEF TypeOK, Hand, Hands
<1>2. CASE ~StillMine(w, i)
  BY <1>2, UnchangedEvolve DEF Fail
<1>3. CASE StillMine(w, i)
  <2>1. hand[w][i].attempts = jobs[i].attempts
    BY <1>1, <1>3 DEF Fail, CountIsCurrent
  <2> DEFINE status == FailedStatus(w, i)
             new == [jobs[i] EXCEPT !.status = status,
                                    !.attempts = jobs[i].attempts + 1]
  <2>2. jobs' = [jobs EXCEPT ![i] = new]
    BY <1>1, <1>3, <2>1 DEF Fail
  <2>3. jobs[i].status = "in_progress"
    BY <1>3 DEF StillMine
  <2>4. status = IF hand[w][i].full \/ jobs[i].attempts + 1 >= MaxAttempts
                 THEN "permanently_failed" ELSE "retrying"
    BY <2>1 DEF FailedStatus
  <2>5. Evolves(jobs[i], new) /\ new.status # "in_progress"
    BY <1>1, <2>3, <2>4, FailEvolves
  <2> HIDE DEF new
  <2>6. /\ jobs' = [j \in JobIds |-> jobs'[j]]
        /\ jobs'[i] = new /\ \A j \in JobIds : j # i => jobs'[j] = jobs[j]
    BY <1>1, <2>2
  <2> QED
    BY <1>1, <2>5, <2>6, RowByRow
<1> QED
  BY <1>2, <1>3

\* The one step after which there are more rows, behind the ones there were.
LEMMA BulkInsertStep ==
    ASSUME TypeOK, RowsInOrder, NEW wanted \in SUBSET Want, IsFiniteSet(wanted),
           \A x \in wanted : saved[x.media] > 0, BulkInsert(wanted)
    PROVE  /\ jobs' \in [JobIds -> Job \cup {NoJob}]
           /\ RowsInOrder'
           /\ Rows \subseteq Rows'
           /\ \A j \in Rows : jobs'[j] = jobs[j]
           /\ \A j \in Rows' \ Rows : /\ saved[jobs'[j].media] > 0
                                     /\ Bounded(jobs'[j])
<1> DEFINE size == Cardinality(wanted)
<1>2. size \in Nat
  BY FS_CardinalityType
<1>3. PICK n \in Nat : n <= MaxJobs /\ Rows = 1 .. n
  BY DEF RowsInOrder
<1>4. LastJob = n
  <2>1. Cardinality(1 .. n) = IF 1 > n THEN 0 ELSE n - 1 + 1
    BY <1>3, FS_Interval
  <2> QED
    BY <1>3, <2>1 DEF LastJob
<1>5. n + size <= MaxJobs
  BY <1>4 DEF BulkInsert
<1>6. PICK order \in [1 .. size -> wanted] :
         jobs' = [j \in JobIds |-> IF j - LastJob \in DOMAIN order
                                   THEN NewJob(order[j - LastJob])
                                   ELSE jobs[j]]
  BY DEF BulkInsert
<1> HIDE DEF size
<1>7. ASSUME NEW j \in JobIds
      PROVE  /\ j \in Rows => jobs'[j] = jobs[j]
             /\ j \notin Rows /\ j <= n + size =>
                   \E x \in wanted : jobs'[j] = NewJob(x)
             /\ j > n + size => jobs'[j] = NoJob
  <2>1. j \in Nat /\ j > 0 /\ (j \in Rows <=> j <= n)
    BY <1>3, ConstantsAssumption DEF JobIds
  <2>2. CASE j <= n
    <3>1. j - LastJob \notin DOMAIN order
      BY <1>2, <1>4, <1>6, <2>1, <2>2
    <3> QED
      BY <1>2, <1>3, <1>6, <2>1, <2>2, <3>1
  <2>3. CASE n < j /\ j <= n + size
    <3>1. j - LastJob \in 1 .. size
      BY <1>2, <1>3, <1>4, <2>1, <2>3
    <3>2. order[j - LastJob] \in wanted /\ jobs'[j] = NewJob(order[j - LastJob])
      BY <1>6, <3>1
    <3> QED
      BY <1>2, <1>3, <2>1, <2>3, <3>2
  <2>4. CASE j > n + size
    <3>1. j - LastJob \notin DOMAIN order
      BY <1>2, <1>3, <1>4, <1>6, <2>1, <2>4
    <3>2. j \notin Rows
      BY <1>2, <1>3, <2>1, <2>4
    <3>3. jobs'[j] = jobs[j] /\ jobs[j] = NoJob
      BY <1>6, <3>1, <3>2, RowsAreJobs
    <3>4. ~(j <= n + size)
      BY <1>2, <1>3, <2>1, <2>4
    <3> QED
      BY <3>2, <3>3, <3>4
  <2> QED
    BY <1>2, <1>3, <2>1, <2>2, <2>3, <2>4
<1>8. ASSUME NEW x \in wanted
      PROVE  /\ NewJob(x) \in Job /\ NewJob(x) # NoJob
             /\ saved[NewJob(x).media] > 0 /\ Bounded(NewJob(x))
  <2>1. x \in Want /\ saved[x.media] > 0
    BY <1>8
  <2> QED
    BY <2>1, NewJobType, ConstantsAssumption
<1>9. ASSUME NEW j \in JobIds
      PROVE  /\ jobs'[j] \in Job \cup {NoJob}
             /\ jobs'[j] # NoJob <=> j <= n + size
             /\ j \in Rows => jobs'[j] = jobs[j]
             /\ jobs'[j] # NoJob /\ j \notin Rows =>
                   saved[jobs'[j].media] > 0 /\ Bounded(jobs'[j])
  <2>1. j \in Nat /\ (j \in Rows => j <= n)
    BY <1>3, ConstantsAssumption DEF JobIds
  <2>2. CASE j \in Rows
    BY <1>2, <1>3, <1>7, <2>1, <2>2, RowsAreJobs, ConstantsAssumption
  <2>3. CASE j \notin Rows /\ j <= n + size
    BY <1>7, <1>8, <2>3
  <2>4. CASE j > n + size
    BY <1>2, <1>3, <1>7, <2>1, <2>4
  <2> QED
    BY <1>2, <1>3, <2>1, <2>2, <2>3, <2>4
<1>10. Rows' = 1 .. n + size
  BY <1>2, <1>3, <1>5, <1>9, ConstantsAssumption DEF Rows, JobIds
<1>11. RowsInOrder'
  BY <1>2, <1>3, <1>5, <1>10 DEF RowsInOrder
<1>12. jobs' \in [JobIds -> Job \cup {NoJob}]
  BY <1>6, <1>9
<1>13. Rows \subseteq Rows'
  BY <1>2, <1>3, <1>10
<1> QED
  BY <1>9, <1>11, <1>12, <1>13 DEF Rows

LEMMA InsertStep ==
    ASSUME TypeOK, RowsInOrder, WantedAreSaved, NEW e \in Enqueuers, InsertJobs(e)
    PROVE  /\ jobs' \in [JobIds -> Job \cup {NoJob}]
           /\ RowsInOrder'
           /\ Rows \subseteq Rows'
           /\ \A j \in Rows : jobs'[j] = jobs[j]
           /\ \A j \in Rows' \ Rows : /\ saved[jobs'[j].media] > 0
                                     /\ Bounded(jobs'[j])
<1> DEFINE wanted == enq[e].wanted
<1>1. /\ wanted \in SUBSET Want /\ IsFiniteSet(wanted) /\ BulkInsert(wanted)
      /\ \A x \in wanted : saved[x.media] > 0
  BY DEF TypeOK, Call, WantedAreSaved, InsertJobs
<1> HIDE DEF wanted
<1> QED
  BY <1>1, BulkInsertStep

----------------------------------------------------------------------------
(* What is left to show of a step *)

LEMMA Preserved ==
    ASSUME TableInv, TypeOK', RowsInOrder', FeedInOrder', WantedAreSaved', CountIsCurrent',
           Rows \subseteq Rows',
           \A j \in Rows : Evolves(jobs[j], jobs'[j]),
           \A j \in Rows' \ Rows : saved[jobs'[j].media] > 0 /\ Bounded(jobs'[j]),
           \A m \in Media : saved'[m] >= saved[m],
           \A w \in Workers, j \in JobIds : hand'[w][j].at # "idle" => j \in Rows,
           \A w \in Workers, j \in JobIds : hand'[w][j].at = "linking" =>
               \/ hand'[w][j] = hand[w][j]
               \/ /\ jobs'[j].status = "succeeded"
                  /\ jobs'[j].content = hand'[w][j].content,
           EarnedLinks =>
               \A m \in Media : \/ link'[m] = link[m]
                                \/ \E j \in Rows : /\ jobs[j].media = m
                                                  /\ jobs[j].status = "succeeded"
                                                  /\ jobs[j].content = link'[m]
    PROVE  Kept
<1>1. JobsAreSaved'
  <2> SUFFICES ASSUME NEW j \in Rows' PROVE saved'[jobs'[j].media] > 0
    BY DEF JobsAreSaved
  <2>1. jobs'[j].media \in Media /\ saved'[jobs'[j].media] \in Nat
    <3>1. j \in JobIds /\ jobs'[j] \in Job
      BY DEF TypeOK, Rows
    <3> QED
      BY <3>1, Fields DEF TypeOK
  <2>2. saved[jobs'[j].media] \in Nat
    BY <2>1 DEF TableInv, TypeOK
  <2>3. saved[jobs'[j].media] > 0
    BY DEF TableInv, JobsAreSaved, Evolves
  <2> QED
    BY <2>1, <2>2, <2>3
<1>2. HandsHoldRows'
  BY DEF HandsHoldRows
<1>3. ASSUME NEW j \in Rows, jobs[j].status = "succeeded" PROVE jobs'[j] = jobs[j]
  BY <1>3 DEF Evolves, Finished
<1>4. ASSUME EarnedLinks PROVE LinkingSucceeded'
  BY <1>3, <1>4 DEF EarnedLinks, LinkingSucceeded, TableInv, HandsHoldRows
<1>5. ASSUME EarnedLinks PROVE LinksComeFromSuccess'
  <2> SUFFICES ASSUME NEW m \in Media, link'[m] # NoContent
               PROVE  \E j \in Rows : /\ jobs[j].media = m
                                     /\ jobs[j].status = "succeeded"
                                     /\ jobs[j].content = link'[m]
    BY <1>3 DEF LinksComeFromSuccess
  <2> QED
    BY <1>5 DEF EarnedLinks, LinksComeFromSuccess
<1>6. AttemptsAreBounded'
  BY DEF TableInv, AttemptsAreBounded, Evolves, Bounded
<1> QED
  BY <1>1, <1>2, <1>4, <1>5, <1>6 DEF Kept, TableInv, EarnedLinks

\* Steps that touch no worker's memory and no link.
LEMMA TablePreserved ==
    ASSUME TableInv, TypeOK', FeedInOrder', WantedAreSaved', RowsEvolve,
           UNCHANGED <<hand, link>>,
           \A m \in Media : saved'[m] >= saved[m],
           \A j \in JobIds : \/ jobs'[j] = jobs[j]
                             \/ jobs'[j].status # "in_progress"
                             \/ /\ j \in Rows /\ jobs'[j].by = jobs[j].by
                                /\ jobs[j].status = "in_progress"
    PROVE  Kept
<1>1. RowsInOrder'
  BY DEF TableInv, RowsInOrder, RowsEvolve
<1>2. CountIsCurrent'
  <2> SUFFICES ASSUME NEW w \in Workers, NEW j \in JobIds,
                      hand[w][j].at = "failed", StillMine(w, j)'
               PROVE  hand[w][j].attempts = jobs'[j].attempts
    BY DEF CountIsCurrent
  <2>1. StillMine(w, j)
    BY DEF StillMine
  <2>2. j \in Rows /\ hand[w][j].attempts = jobs[j].attempts
    BY <2>1 DEF TableInv, HandsHoldRows, CountIsCurrent
  <2>3. jobs[j] \in Job /\ Evolves(jobs[j], jobs'[j])
    BY <2>2, RowsAreJobs DEF RowsEvolve, TableInv
  <2>4. jobs'[j].status = "in_progress"
    BY DEF StillMine
  <2>5. jobs'[j].attempts = jobs[j].attempts + 0
    BY <2>3, <2>4 DEF Evolves
  <2> QED
    BY <2>2, <2>3, <2>5, Fields
<1> QED
  BY <1>1, <1>2, Preserved DEF RowsEvolve, TableInv, HandsHoldRows

\* Steps of one worker with one job.
LEMMA HandPreserved ==
    ASSUME TableInv, TypeOK', RowsEvolve, UNCHANGED <<feed, enq>>,
           NEW w \in Workers, NEW i \in Rows, NEW h, SetHand(w, i, h),
           \A j \in JobIds : \/ jobs'[j] = jobs[j]
                             \/ j = i /\ jobs'[j].status # "in_progress",
           h.at = "failed" => h.attempts = jobs[i].attempts,
           h.at = "linking" => /\ jobs'[i].status = "succeeded"
                               /\ jobs'[i].content = h.content,
           EarnedLinks =>
               \A m \in Media : \/ link'[m] = link[m]
                                \/ /\ jobs[i].media = m
                                   /\ jobs[i].status = "succeeded"
                                   /\ jobs[i].content = link'[m]
    PROVE  Kept
<1>1. /\ hand'[w][i] = h
      /\ \A v \in Workers, j \in JobIds :
            v # w \/ j # i => hand'[v][j] = hand[v][j]
  BY DEF TableInv, TypeOK, SetHand, Rows
<1>2. RowsInOrder'
  BY DEF TableInv, RowsInOrder, RowsEvolve
<1>3. CountIsCurrent'
  <2> SUFFICES ASSUME NEW v \in Workers, NEW j \in JobIds,
                      hand'[v][j].at = "failed", StillMine(v, j)'
               PROVE  hand'[v][j].attempts = jobs'[j].attempts
    BY DEF CountIsCurrent
  <2>1. jobs'[j] = jobs[j]
    BY DEF StillMine
  <2>2. CASE v = w /\ j = i
    BY <1>1, <2>1, <2>2
  <2>3. CASE v # w \/ j # i
    BY <1>1, <2>1, <2>3 DEF TableInv, CountIsCurrent, StillMine
  <2> QED
    BY <2>2, <2>3
<1>4. FeedInOrder' /\ WantedAreSaved'
  BY DEF TableInv, FeedInOrder, WantedAreSaved, feed
<1>5. \A m \in Media : saved'[m] >= saved[m]
  BY DEF TableInv, TypeOK, feed
<1>6. \A v \in Workers, j \in JobIds : hand'[v][j].at # "idle" => j \in Rows
  BY <1>1 DEF TableInv, HandsHoldRows
<1>7. \A v \in Workers, j \in JobIds : hand'[v][j].at = "linking" =>
          \/ hand'[v][j] = hand[v][j]
          \/ jobs'[j].status = "succeeded" /\ jobs'[j].content = hand'[v][j].content
  BY <1>1
<1> QED
  BY <1>2, <1>3, <1>4, <1>5, <1>6, <1>7, Preserved DEF RowsEvolve

----------------------------------------------------------------------------
(* One step *)

LEMMA FeedSteps ==
    ASSUME TableInv
    PROVE  /\ \A m \in Media : Publish(m) => Kept /\ RowsEvolve
           /\ \A e \in Enqueuers :
                 Collect(e) \/ ReadBlocking(e) \/ LoseEnqueue(e) => Kept /\ RowsEvolve
<1>1. ASSUME NEW m \in Media, Publish(m) PROVE Kept /\ RowsEvolve
  <2>1. TypeOK' /\ RowsEvolve
    BY <1>1, UnchangedEvolve DEF Publish, TableInv, TypeOK, storage, workVars
  <2>2. FeedInOrder'
    <3> SUFFICES ASSUME NEW k \in Media
                 PROVE  saved'[k] <= published'[k] /\ published'[k] <= Len(Revisions[k])
      BY DEF FeedInOrder
    <3>1. saved[k] \in Nat /\ published[k] \in Nat
      BY DEF TableInv, TypeOK
    <3>2. Revisions[k] \in Seq(Contents)
      BY ConstantsAssumption
    <3>3. Len(Revisions[k]) \in Nat
      BY <3>2
    <3>4. saved[k] <= published[k] /\ published[k] <= Len(Revisions[k])
      BY DEF TableInv, FeedInOrder
    <3>5. saved' = saved /\ (k # m => published'[k] = published[k])
      BY <1>1 DEF Publish, TableInv, TypeOK
    <3>6. k = m => published'[k] = published[k] + 1 /\ published[k] < Len(Revisions[k])
      BY <1>1 DEF Publish, TableInv, TypeOK
    <3> QED
      BY <3>1, <3>3, <3>4, <3>5, <3>6
  <2>3. WantedAreSaved' /\ UNCHANGED <<hand, link, jobs>>
    BY <1>1 DEF Publish, TableInv, WantedAreSaved, workVars
  <2>4. \A k \in Media : saved'[k] >= saved[k]
    BY <1>1 DEF Publish, TableInv, TypeOK
  <2> QED
    BY <2>1, <2>2, <2>3, <2>4, TablePreserved
<1>2. ASSUME NEW e \in Enqueuers, Collect(e) PROVE Kept /\ RowsEvolve
  <2>1. PICK ms \in (SUBSET {m \in Media : published[m] > 0}) \ {{}} :
           \E rev \in [ms -> UNION {Timestamps(m) : m \in ms}] :
              /\ \A m \in ms : rev[m] \in Timestamps(m)
              /\ saved' = [m \in Media |-> IF m \in ms THEN published[m] ELSE saved[m]]
              /\ enq' = [enq EXCEPT ![e] =
                    [at |-> "collected",
                     wanted |-> {[media |-> m, rev |-> rev[m]] : m \in ms}]]
    BY <1>2, Zenon DEF Collect
  <2>2. PICK rev \in [ms -> UNION {Timestamps(m) : m \in ms}] :
           /\ \A m \in ms : rev[m] \in Timestamps(m)
           /\ saved' = [m \in Media |-> IF m \in ms THEN published[m] ELSE saved[m]]
           /\ enq' = [enq EXCEPT ![e] =
                 [at |-> "collected",
                  wanted |-> {[media |-> m, rev |-> rev[m]] : m \in ms}]]
    BY <2>1, Zenon
  <2>3. ms \in SUBSET Media /\ \A m \in ms : published[m] > 0
    BY <2>1
  <2> DEFINE wanted == {[media |-> m, rev |-> rev[m]] : m \in ms}
  <2>4. \A m \in ms : rev[m] \in Nat
    BY <2>2, <2>3 DEF Timestamps, TableInv, TypeOK
  <2>5. wanted \subseteq Want /\ \A x \in wanted : x.media \in ms
    BY <2>4, <2>3 DEF Want
  <2>6. IsFiniteSet(wanted)
    <3> DEFINE f == [m \in ms |-> [media |-> m, rev |-> rev[m]]]
    <3>1. f \in Surjection(ms, wanted)
      BY DEF Surjection
    <3>2. IsFiniteSet(ms)
      BY <2>3, ConstantsAssumption, FS_Subset
    <3> HIDE DEF f, wanted
    <3> QED
      BY <3>1, <3>2, FS_Surjection
  <2>7. enq' = [enq EXCEPT ![e] = [at |-> "collected", wanted |-> wanted]]
    BY <2>2
  <2> HIDE DEF wanted
  <2>8. saved' \in [Media -> Nat] /\ published' = published
        /\ \A k \in Media : saved'[k] >= saved[k] /\ (k \in ms => saved'[k] > 0)
                          /\ saved'[k] <= published[k]
    <3>1. \A k \in Media : saved'[k] = IF k \in ms THEN published[k] ELSE saved[k]
      BY <2>2
    <3>2. \A k \in Media : /\ published[k] \in Nat /\ saved[k] \in Nat
                          /\ saved[k] <= published[k]
      BY DEF TableInv, TypeOK, FeedInOrder
    <3>3. \A k \in Media : saved'[k] \in Nat /\ saved'[k] >= saved[k]
                          /\ (k \in ms => saved'[k] > 0) /\ saved'[k] <= published[k]
      BY <2>3, <3>1, <3>2
    <3> QED
      BY <1>2, <2>2, <3>3 DEF Collect
  <2>9. /\ enq' \in [Enqueuers -> Call]
        /\ enq'[e].wanted = wanted
        /\ \A d \in Enqueuers : d # e => enq'[d] = enq[d]
    BY <2>5, <2>7 DEF TableInv, TypeOK, Call
  <2>10. WantedAreSaved'
    <3> SUFFICES ASSUME NEW d \in Enqueuers
                 PROVE  /\ IsFiniteSet(enq'[d].wanted)
                        /\ \A x \in enq'[d].wanted : saved'[x.media] > 0
      BY DEF WantedAreSaved
    <3>1. CASE d = e
      BY <2>5, <2>6, <2>8, <2>9, <3>1
    <3>2. CASE d # e
      <4>1. enq'[d] = enq[d] /\ enq[d].wanted \subseteq Want
        BY <2>9, <3>2 DEF TableInv, TypeOK, Call
      <4>2. ASSUME NEW x \in enq[d].wanted PROVE saved'[x.media] > 0
        <5>1. x.media \in Media /\ saved[x.media] > 0
          BY <4>1 DEF Want, TableInv, WantedAreSaved
        <5>2. saved[x.media] \in Nat /\ saved'[x.media] \in Nat
          BY <2>8, <5>1 DEF TableInv, TypeOK
        <5> QED
          BY <2>8, <5>1, <5>2
      <4> QED
        BY <4>1, <4>2 DEF TableInv, WantedAreSaved
    <3> QED
      BY <3>1, <3>2
  <2>11. UNCHANGED <<published, jobs, storage, link, workVars, slow, aborts>>
    BY <1>2 DEF Collect
  <2>12. TypeOK' /\ RowsEvolve
    BY <2>8, <2>9, <2>11, UnchangedEvolve DEF TableInv, TypeOK, storage, workVars
  <2>13. FeedInOrder'
    BY <2>8 DEF TableInv, FeedInOrder
  <2> QED
    BY <2>8, <2>10, <2>11, <2>12, <2>13, TablePreserved DEF workVars
<1>3. ASSUME NEW e \in Enqueuers, ReadBlocking(e) \/ LoseEnqueue(e)
      PROVE  Kept /\ RowsEvolve
  <2>1. PICK call \in Call :
           /\ enq' = [enq EXCEPT ![e] = call]
           /\ call.wanted \subseteq enq[e].wanted
    <3>1. enq[e] \in Call /\ enq[e].wanted \subseteq Want
      BY DEF TableInv, TypeOK, Call
    <3>2. CASE ReadBlocking(e)
      <4> DEFINE open == {x \in enq[e].wanted : ~Covered(x)}
      <4>1. enq' = [enq EXCEPT ![e] = [at |-> "read", wanted |-> open]]
        BY <3>2 DEF ReadBlocking
      <4>2. [at |-> "read", wanted |-> open] \in Call /\ open \subseteq enq[e].wanted
        BY <3>1 DEF Call
      <4> HIDE DEF open
      <4> QED
        BY <4>1, <4>2
    <3>3. CASE LoseEnqueue(e)
      <4>1. IdleCall \in Call /\ IdleCall.wanted = {}
        BY DEF IdleCall, Call
      <4> QED
        BY <3>3, <4>1 DEF LoseEnqueue
    <3> QED
      BY <1>3, <3>2, <3>3
  <2>2. UNCHANGED <<feed, jobs, storage, link, workVars, slow, aborts>>
    BY <1>3 DEF ReadBlocking, LoseEnqueue
  <2>3. TypeOK' /\ RowsEvolve
    BY <2>1, <2>2, UnchangedEvolve DEF TableInv, TypeOK, feed, storage, workVars
  <2>4. WantedAreSaved'
    <3>1. IsFiniteSet(enq[e].wanted)
      BY DEF TableInv, WantedAreSaved
    <3>2. IsFiniteSet(call.wanted)
      BY <2>1, <3>1, FS_Subset
    <3>3. /\ enq'[e] = call /\ \A d \in Enqueuers : d # e => enq'[d] = enq[d]
          /\ saved' = saved
      BY <2>1, <2>2 DEF TableInv, TypeOK, feed
    <3> QED
      BY <2>1, <3>2, <3>3 DEF TableInv, WantedAreSaved
  <2>5. FeedInOrder'
    BY <2>2 DEF TableInv, FeedInOrder, feed
  <2>6. \A m \in Media : saved'[m] >= saved[m]
    BY <2>2 DEF TableInv, TypeOK, feed
  <2> QED
    BY <2>2, <2>3, <2>4, <2>5, <2>6, TablePreserved DEF workVars
<1> QED
  BY <1>1, <1>2, <1>3

\* Feed and enqueuers stay as they are.
LEMMA FeedAlone ==
    ASSUME TableInv, UNCHANGED <<feed, enq>>
    PROVE  /\ FeedInOrder' /\ WantedAreSaved'
           /\ \A m \in Media : saved'[m] >= saved[m]
  BY DEF TableInv, TypeOK, FeedInOrder, WantedAreSaved, feed

LEMMA InsertTableInv ==
    ASSUME TableInv, NEW e \in Enqueuers, InsertJobs(e)
    PROVE  Kept /\ \A j \in Rows : jobs'[j] = jobs[j] /\ jobs[j] \in Job
<1>1. /\ jobs' \in [JobIds -> Job \cup {NoJob}] /\ RowsInOrder'
      /\ Rows \subseteq Rows' /\ \A j \in Rows : jobs'[j] = jobs[j]
      /\ \A j \in Rows' \ Rows : saved[jobs'[j].media] > 0 /\ Bounded(jobs'[j])
  BY InsertStep DEF TableInv
<1>2. /\ UNCHANGED <<feed, storage, link, workVars, slow, aborts>>
      /\ enq' = [enq EXCEPT ![e] = IdleCall]
  BY DEF InsertJobs
<1>3. IdleCall \in Call /\ IdleCall.wanted = {}
  BY DEF IdleCall, Call
<1>4. TypeOK'
  BY <1>1, <1>2, <1>3 DEF TableInv, TypeOK, feed, storage, workVars
<1>5. FeedInOrder' /\ \A m \in Media : saved'[m] >= saved[m]
  BY <1>2 DEF TableInv, TypeOK, FeedInOrder, feed
<1>6. WantedAreSaved'
  <2>1. /\ enq'[e] = IdleCall /\ \A d \in Enqueuers : d # e => enq'[d] = enq[d]
        /\ saved' = saved
    BY <1>2 DEF TableInv, TypeOK, feed
  <2> QED
    BY <1>3, <2>1, FS_EmptySet DEF TableInv, WantedAreSaved
<1>7. \A j \in Rows : j \in JobIds /\ jobs[j] \in Job /\ Evolves(jobs[j], jobs'[j])
  BY <1>1, SameEvolves, RowsAreJobs DEF TableInv
<1>8. CountIsCurrent'
  BY <1>1, <1>2 DEF TableInv, CountIsCurrent, HandsHoldRows, StillMine, workVars
<1>9. /\ \A w \in Workers, j \in JobIds : hand'[w][j].at # "idle" => j \in Rows
      /\ hand' = hand /\ link' = link
  BY <1>2 DEF TableInv, HandsHoldRows, workVars
<1> QED
  BY <1>1, <1>4, <1>5, <1>6, <1>7, <1>8, <1>9, Preserved

LEMMA TableSteps ==
    ASSUME TableInv
    PROVE  /\ \A l \in Listings : Tombstone(l) => Kept /\ RowsEvolve
           /\ \A w \in Workers : Reap(w) => Kept /\ RowsEvolve
           /\ \A j \in JobIds : LeaseRunsOut(j) => Kept /\ RowsEvolve
<1>1. ASSUME NEW l \in Listings, Tombstone(l) PROVE Kept /\ RowsEvolve
  <2>1. /\ RowsEvolve
        /\ \A j \in JobIds : jobs'[j] = jobs[j] \/ jobs'[j].status = "canceled"
    BY <1>1, TombstoneEvolve DEF TableInv
  <2>2. UNCHANGED <<feed, enq, storage, link, workVars, slow, aborts>>
    BY <1>1 DEF Tombstone
  <2>3. TypeOK'
    BY <2>1, <2>2 DEF RowsEvolve, TableInv, TypeOK, feed, storage, workVars
  <2> QED
    BY <2>1, <2>2, <2>3, FeedAlone, TablePreserved DEF workVars
<1>2. ASSUME NEW w \in Workers, Reap(w) PROVE Kept /\ RowsEvolve
  <2>1. /\ RowsEvolve
        /\ \A j \in JobIds : jobs'[j] = jobs[j] \/ jobs'[j].status = "pending"
    BY <1>2, ReapEvolve DEF TableInv
  <2>2. /\ UNCHANGED <<feed, enq, storage, link, hand, slow, aborts>>
        /\ cycle' = [cycle EXCEPT ![w] = "claim"]
    BY <1>2 DEF Reap
  <2>3. TypeOK'
    BY <2>1, <2>2 DEF RowsEvolve, TableInv, TypeOK, feed, storage
  <2> QED
    BY <2>1, <2>2, <2>3, FeedAlone, TablePreserved
<1>3. ASSUME NEW i \in JobIds, LeaseRunsOut(i) PROVE Kept /\ RowsEvolve
  <2>1. /\ RowsEvolve
        /\ \A j \in JobIds : \/ jobs'[j] = jobs[j]
                             \/ /\ j \in Rows /\ jobs'[j].by = jobs[j].by
                                /\ jobs[j].status = "in_progress"
    BY <1>3, LeaseEvolve DEF TableInv
  <2>2. UNCHANGED <<feed, enq, storage, link, workVars, aborts>>
    BY <1>3 DEF LeaseRunsOut
  <2>3. slow' \in 0 .. MaxSlow
    BY <1>3, ConstantsAssumption DEF LeaseRunsOut, TableInv, TypeOK
  <2>4. TypeOK'
    BY <2>1, <2>2, <2>3 DEF RowsEvolve, TableInv, TypeOK, feed, storage, workVars
  <2> QED
    BY <2>1, <2>2, <2>4, FeedAlone, TablePreserved DEF workVars
<1> QED
  BY <1>1, <1>2, <1>3

\* Steps of a worker's cycle outside processJob.
LEMMA CycleSteps ==
    ASSUME TableInv, NEW w \in Workers
    PROVE  ReapFails(w) \/ FindNothing(w) \/ EndCycle(w) \/ AbortCycle(w) \/ Claim(w)
               => Kept /\ RowsEvolve
<1>1. \A phase \in AfterCycle(w) : phase \in {"reap", "claim", "work", "gone"}
  BY DEF AfterCycle
<1>2. ASSUME ReapFails(w) \/ FindNothing(w) \/ EndCycle(w) PROVE Kept /\ RowsEvolve
  <2>1. UNCHANGED <<feed, enq, jobs, storage, link, hand, slow>>
    BY <1>2 DEF ReapFails, FindNothing, EndCycle
  <2>2. aborts' \in 0 .. MaxAborts
    BY <1>2, ConstantsAssumption DEF ReapFails, FindNothing, EndCycle, TableInv, TypeOK
  <2>3. cycle' \in [Workers -> {"reap", "claim", "work", "gone"}]
    BY <1>1, <1>2 DEF ReapFails, FindNothing, EndCycle, TableInv, TypeOK
  <2>4. TypeOK' /\ RowsEvolve
    BY <2>1, <2>2, <2>3, UnchangedEvolve DEF TableInv, TypeOK, feed, storage
  <2> QED
    BY <2>1, <2>4, FeedAlone, TablePreserved
<1>3. Idle \in Hand /\ Idle.at = "idle"
  BY DEF Idle, Hand, Hands, Steps
<1>4. ASSUME AbortCycle(w) PROVE Kept /\ RowsEvolve
  <2>1. /\ UNCHANGED <<feed, enq, jobs, storage, link, slow>>
        /\ hand' = [hand EXCEPT ![w] = [j \in JobIds |-> Idle]]
    BY <1>4 DEF AbortCycle
  <2>2. aborts' \in 0 .. MaxAborts
    BY <1>4, ConstantsAssumption DEF AbortCycle, TableInv, TypeOK
  <2>3. cycle' \in [Workers -> {"reap", "claim", "work", "gone"}]
    BY <1>1, <1>4 DEF AbortCycle, TableInv, TypeOK
  <2>4. /\ hand' \in [Workers -> [JobIds -> Hand]]
        /\ \A v \in Workers, j \in JobIds :
              hand'[v][j] = hand[v][j] \/ hand'[v][j].at = "idle"
    BY <1>3, <2>1 DEF TableInv, TypeOK
  <2>5. TypeOK' /\ RowsEvolve
    BY <2>1, <2>2, <2>3, <2>4, UnchangedEvolve DEF TableInv, TypeOK, feed, storage
  <2>6. RowsInOrder' /\ CountIsCurrent'
    BY <2>1, <2>4, <2>5
       DEF TableInv, RowsInOrder, RowsEvolve, CountIsCurrent, StillMine
  <2>7. \A v \in Workers, j \in JobIds :
            /\ hand'[v][j].at # "idle" => j \in Rows
            /\ hand'[v][j].at = "linking" => hand'[v][j] = hand[v][j]
    BY <2>4 DEF TableInv, HandsHoldRows
  <2> QED
    BY <2>1, <2>5, <2>6, <2>7, FeedAlone, Preserved DEF RowsEvolve
<1>5. ASSUME Claim(w) PROVE Kept /\ RowsEvolve
  <2>1. /\ RowsEvolve
        /\ \A j \in JobIds : jobs'[j] = jobs[j] \/ jobs'[j].by = w
    BY <1>5, ClaimEvolve DEF TableInv
  <2>2. /\ UNCHANGED <<feed, enq, storage, link, slow, aborts>>
        /\ cycle' = [cycle EXCEPT ![w] = "work"]
    BY <1>5 DEF Claim
  <2>3. PICK batch \in SUBSET Rows :
           hand' = [hand EXCEPT ![w] =
                       [j \in JobIds |->
                           IF j \in batch THEN [Idle EXCEPT !.at = "claimed"] ELSE Idle]]
    BY <1>5 DEF Claim, Claimable
  <2>4. [Idle EXCEPT !.at = "claimed"] \in Hand
        /\ [Idle EXCEPT !.at = "claimed"].at = "claimed"
    BY DEF Idle, Hand, Hands, Steps
  <2>5. /\ hand' \in [Workers -> [JobIds -> Hand]]
        /\ \A v \in Workers, j \in JobIds :
              \/ v # w /\ hand'[v][j] = hand[v][j]
              \/ hand'[v][j].at = "idle"
              \/ hand'[v][j].at = "claimed" /\ j \in Rows
    BY <1>3, <2>3, <2>4 DEF TableInv, TypeOK
  <2>6. TypeOK'
    BY <2>1, <2>2, <2>5 DEF RowsEvolve, TableInv, TypeOK, feed, storage
  <2>7. RowsInOrder' /\ CountIsCurrent'
    <3>1. RowsInOrder'
      BY <2>1 DEF TableInv, RowsInOrder, RowsEvolve
    <3>2. ASSUME NEW v \in Workers, NEW j \in JobIds,
                 hand'[v][j].at = "failed", StillMine(v, j)'
          PROVE  hand'[v][j].attempts = jobs'[j].attempts
      <4>1. v # w /\ hand'[v][j] = hand[v][j]
        BY <2>5, <3>2
      <4>2. jobs'[j] = jobs[j]
        BY <2>1, <3>2, <4>1 DEF StillMine
      <4> QED
        BY <3>2, <4>1, <4>2 DEF TableInv, CountIsCurrent, StillMine
    <3> QED
      BY <3>1, <3>2 DEF CountIsCurrent
  <2>8. \A v \in Workers, j \in JobIds :
            /\ hand'[v][j].at # "idle" => j \in Rows
            /\ hand'[v][j].at = "linking" => hand'[v][j] = hand[v][j]
    BY <2>5 DEF TableInv, HandsHoldRows
  <2> QED
    BY <2>1, <2>2, <2>6, <2>7, <2>8, FeedAlone, Preserved DEF RowsEvolve
<1> QED
  BY <1>2, <1>4, <1>5

\* Steps of processJob that leave the table alone.
LEMMA ReadingSteps ==
    ASSUME TableInv, NEW w \in Workers, NEW j \in JobIds
    PROVE  (\/ Download(w, j) \/ Deduplicate(w, j) \/ Store(w, j) \/ StepFails(w, j)
            \/ LinkMedia(w, j) \/ LinkFails(w, j) \/ ReadAttempts(w, j))
               => Kept /\ RowsEvolve
<1> DEFINE mine == hand[w][j]
           m == jobs[j].media
<1>1. /\ mine \in Hands /\ mine.at \in Steps /\ mine.attempts \in Nat
      /\ mine.content \in Contents \cup {NoContent}
      /\ mine.at \in {"downloaded", "uploading"} => mine.content \in Contents
      /\ mine.at # "idle" => j \in Rows
      /\ j \in Rows => jobs[j] \in Job /\ m \in Media /\ jobs[j].attempts \in Nat
  BY RowsAreJobs, Fields DEF TableInv, TypeOK, Hand, Hands, HandsHoldRows
<1>2. ASSUME NEW h \in Hand, SetHand(w, j, h)
      PROVE  hand' \in [Workers -> [JobIds -> Hand]]
  BY <1>2 DEF SetHand, TableInv, TypeOK
<1>3. Idle \in Hand /\ Idle.at = "idle"
  BY DEF Idle, Hand, Hands, Steps
<1>4. \A full \in BOOLEAN :
         LET h == [Idle EXCEPT !.at = "failing", !.full = full]
         IN  h \in Hand /\ h.at = "failing"
  BY DEF Idle, Hand, Hands, Steps
<1>5. /\ [Idle EXCEPT !.at = "failing"] \in Hand
      /\ [Idle EXCEPT !.at = "failing"].at = "failing"
  BY DEF Idle, Hand, Hands, Steps
\* What these steps have in common.
<1>6. ASSUME NEW h \in Hand, SetHand(w, j, h), mine.at # "idle",
             UNCHANGED <<feed, enq, jobs, cycle, slow>>,
             attachments' \subseteq Contents, objects' \subseteq Media \X Contents,
             link' \in [Media -> Contents \cup {NoContent}],
             aborts' \in 0 .. MaxAborts,
             h.at = "failed" => h.attempts = jobs[j].attempts,
             h.at # "linking",
             EarnedLinks =>
                 \A k \in Media : \/ link'[k] = link[k]
                                  \/ /\ jobs[j].media = k
                                     /\ jobs[j].status = "succeeded"
                                     /\ jobs[j].content = link'[k]
      PROVE  Kept /\ RowsEvolve
  <2>1. j \in Rows /\ UNCHANGED <<feed, enq>> /\ jobs' = jobs
    BY <1>1, <1>6
  <2>2. TypeOK'
    BY <1>2, <1>6 DEF TableInv, TypeOK, feed
  <2>3. RowsEvolve
    BY <2>1, UnchangedEvolve DEF TableInv
  <2> QED
    BY <1>6, <2>1, <2>2, <2>3, HandPreserved
<1>7. /\ attachments \subseteq Contents /\ objects \subseteq Media \X Contents
      /\ link \in [Media -> Contents \cup {NoContent}] /\ aborts \in 0 .. MaxAborts
  BY DEF TableInv, TypeOK
<1>8. ASSUME Download(w, j) PROVE Kept /\ RowsEvolve
  <2>1. PICK n \in saved[m] .. published[m] :
           SetHand(w, j, [mine EXCEPT !.at = "downloaded", !.content = Revisions[m][n]])
    BY <1>8 DEF Download
  <2>2. j \in Rows /\ mine.at = "claimed"
    BY <1>1, <1>8 DEF Download
  <2>3. Revisions[m][n] \in Contents
    <3>1. Revisions[m] \in Seq(Contents)
      BY <1>1, <2>2, ConstantsAssumption
    <3>2. Len(Revisions[m]) \in Nat
      BY <3>1
    <3>3. /\ saved[m] \in Nat /\ published[m] \in Nat /\ saved[m] > 0
          /\ published[m] <= Len(Revisions[m])
      BY <1>1, <2>2 DEF TableInv, TypeOK, JobsAreSaved, FeedInOrder
    <3>4. n \in 1 .. Len(Revisions[m])
      BY <3>2, <3>3
    <3> QED
      BY <3>1, <3>4
  <2> DEFINE bytes == Revisions[m][n]
             h == [mine EXCEPT !.at = "downloaded", !.content = bytes]
  <2>4. SetHand(w, j, h) /\ bytes \in Contents
    BY <2>1, <2>3
  <2> HIDE DEF bytes
  <2>5. h \in Hand /\ h.at = "downloaded"
    BY <1>1, <2>4 DEF Hand, Hands, Steps
  <2> HIDE DEF h, mine
  <2>6. UNCHANGED <<feed, enq, jobs, storage, link, cycle, slow, aborts>>
    BY <1>8 DEF Download
  <2> QED
    BY <1>6, <1>7, <2>2, <2>4, <2>5, <2>6 DEF storage
<1>9. ASSUME Deduplicate(w, j) PROVE Kept /\ RowsEvolve
  <2> DEFINE at == IF HasAttachment(w, j) THEN "stored" ELSE "uploading"
             h == [mine EXCEPT !.at = at]
  <2>1. SetHand(w, j, h) /\ mine.at = "downloaded"
    BY <1>9 DEF Deduplicate
  <2>2. at \in {"stored", "uploading"}
    OBVIOUS
  <2> HIDE DEF at
  <2>3. h \in Hand /\ h.at = at
    BY <1>1, <2>1, <2>2 DEF Hand, Hands, Steps
  <2> HIDE DEF h, mine
  <2>4. UNCHANGED <<feed, enq, jobs, storage, link, cycle, slow, aborts>>
    BY <1>9 DEF Deduplicate
  <2> QED
    BY <1>6, <1>7, <2>1, <2>2, <2>3, <2>4 DEF storage
<1>10. ASSUME Store(w, j) PROVE Kept /\ RowsEvolve
  <2> DEFINE h == IF HasAttachment(w, j) THEN [Idle EXCEPT !.at = "failing"]
                                         ELSE [mine EXCEPT !.at = "stored"]
  <2>1. /\ SetHand(w, j, h) /\ mine.at = "uploading"
        /\ objects' = objects \cup {ObjectKey(m, mine.content)}
        /\ attachments' = attachments \cup {mine.content}
        /\ UNCHANGED <<feed, enq, jobs, link, cycle, slow, aborts>>
    BY <1>10 DEF Store
  <2>2. /\ [mine EXCEPT !.at = "stored"] \in Hand
        /\ [mine EXCEPT !.at = "stored"].at = "stored"
    BY <1>1 DEF Hand, Hands, Steps
  <2>3. h \in Hand /\ h.at \in {"failing", "stored"}
    BY <1>5, <2>2
  <2>4. /\ attachments' \subseteq Contents /\ objects' \subseteq Media \X Contents
    BY <1>1, <1>7, <2>1 DEF ObjectKey
  <2> HIDE DEF h, mine
  <2> QED
    BY <1>6, <1>7, <2>1, <2>3, <2>4
<1>11. ASSUME StepFails(w, j) PROVE Kept /\ RowsEvolve
  <2>1. PICK full \in BOOLEAN :
           SetHand(w, j, [Idle EXCEPT !.at = "failing", !.full = full])
    BY <1>11 DEF StepFails
  <2> DEFINE h == [Idle EXCEPT !.at = "failing", !.full = full]
  <2>2. h \in Hand /\ h.at = "failing"
    BY <1>4
  <2>3. SetHand(w, j, h)
    BY <2>1
  <2> HIDE DEF h
  <2>4. /\ mine.at # "idle"
        /\ UNCHANGED <<feed, enq, jobs, storage, link, cycle, slow, aborts>>
    BY <1>11 DEF StepFails
  <2> HIDE DEF mine
  <2> QED
    BY <1>6, <1>7, <2>2, <2>3, <2>4 DEF storage
<1>12. ASSUME LinkMedia(w, j) PROVE Kept /\ RowsEvolve
  <2>1. /\ mine.at = "linking" /\ SetHand(w, j, Idle)
        /\ link' = [link EXCEPT ![m] = mine.content]
        /\ UNCHANGED <<feed, enq, jobs, storage, cycle, slow, aborts>>
    BY <1>12 DEF LinkMedia
  <2>2. m \in Media
    BY <1>1, <2>1
  <2>3. /\ link' \in [Media -> Contents \cup {NoContent}]
        /\ \A k \in Media : \/ link'[k] = link[k]
                            \/ k = m /\ link'[k] = mine.content
    BY <1>1, <1>7, <2>1, <2>2
  <2>4. ASSUME EarnedLinks
        PROVE  \A k \in Media : \/ link'[k] = link[k]
                                \/ /\ jobs[j].media = k
                                   /\ jobs[j].status = "succeeded"
                                   /\ jobs[j].content = link'[k]
    <3>1. jobs[j].status = "succeeded" /\ jobs[j].content = mine.content
      BY <2>1, <2>4 DEF EarnedLinks, LinkingSucceeded
    <3> QED
      BY <2>3, <3>1
  <2> HIDE DEF mine
  <2> QED
    BY <1>3, <1>6, <1>7, <2>1, <2>3, <2>4 DEF storage
<1>13. ASSUME LinkFails(w, j) PROVE Kept /\ RowsEvolve
  <2>1. /\ mine.at # "idle" /\ SetHand(w, j, Idle)
        /\ aborts < MaxAborts /\ aborts' = aborts + 1
        /\ UNCHANGED <<feed, enq, jobs, storage, link, cycle, slow>>
    BY <1>13 DEF LinkFails
  <2>2. aborts' \in 0 .. MaxAborts
    BY <1>7, <2>1, ConstantsAssumption
  <2> HIDE DEF mine
  <2> QED
    BY <1>3, <1>6, <1>7, <2>1, <2>2 DEF storage
<1>14. ASSUME ReadAttempts(w, j) PROVE Kept /\ RowsEvolve
  <2> DEFINE count == jobs[j].attempts
             h == [mine EXCEPT !.at = "failed", !.attempts = count]
  <2>1. SetHand(w, j, h) /\ mine.at = "failing"
    BY <1>14 DEF ReadAttempts
  <2>2. count \in Nat /\ count = jobs[j].attempts
    BY <1>1, <2>1
  <2> HIDE DEF count
  <2>3. h \in Hand /\ h.attempts = jobs[j].attempts /\ h.at = "failed"
    BY <1>1, <2>1, <2>2 DEF Hand, Hands, Steps
  <2> HIDE DEF h, mine
  <2>4. UNCHANGED <<feed, enq, jobs, storage, link, cycle, slow, aborts>>
    BY <1>14 DEF ReadAttempts
  <2> QED
    BY <1>6, <1>7, <2>1, <2>3, <2>4 DEF storage
<1> QED
  BY <1>8, <1>9, <1>10, <1>11, <1>12, <1>13, <1>14

\* The guarded updates that end a job.
LEMMA EndingSteps ==
    ASSUME TableInv, NEW w \in Workers, NEW j \in JobIds
    PROVE  Succeed(w, j) \/ Fail(w, j) => Kept /\ RowsEvolve
<1> DEFINE mine == hand[w][j]
<1>1. /\ mine \in Hands /\ mine \in Hand
      /\ mine.at # "idle" => j \in Rows
  BY DEF TableInv, TypeOK, Hand, HandsHoldRows
<1>2. Idle \in Hand /\ Idle.at = "idle"
  BY DEF Idle, Hand, Hands, Steps
<1>3. ASSUME NEW h \in Hand, SetHand(w, j, h), RowsEvolve,
             UNCHANGED <<feed, enq, storage, link, cycle, slow, aborts>>
      PROVE  TypeOK'
  <2>1. hand' \in [Workers -> [JobIds -> Hand]]
    BY <1>3 DEF SetHand, TableInv, TypeOK
  <2> QED
    BY <1>3, <2>1 DEF TableInv, TypeOK, RowsEvolve, feed, storage
<1>4. ASSUME Succeed(w, j) PROVE Kept /\ RowsEvolve
  <2>1. /\ mine.at = "stored" /\ j \in Rows
        /\ UNCHANGED <<feed, enq, storage, link, cycle, slow, aborts>>
    BY <1>1, <1>4 DEF Succeed
  <2>2. /\ RowsEvolve
        /\ \A i \in JobIds : i # j => jobs'[i] = jobs[i]
        /\ StillMine(w, j) => /\ jobs'[j].status = "succeeded"
                              /\ jobs'[j].content = mine.content
        /\ ~StillMine(w, j) => jobs'[j] = jobs[j]
    BY <1>4, <2>1, SucceedStep DEF TableInv
  <2>3. CASE StillMine(w, j)
    <3> DEFINE h == [mine EXCEPT !.at = "linking"]
    <3>1. SetHand(w, j, h)
      BY <1>4, <2>3 DEF Succeed
    <3>2. h \in Hand /\ h.at = "linking" /\ h.content = mine.content
      BY <1>1 DEF Hand, Hands, Steps
    <3> HIDE DEF h, mine
    <3>3. TypeOK'
      BY <1>3, <2>1, <2>2, <3>1, <3>2
    <3> QED
      BY <2>1, <2>2, <2>3, <3>1, <3>2, <3>3, HandPreserved
  <2>4. CASE ~StillMine(w, j)
    <3>1. SetHand(w, j, Idle)
      BY <1>4, <2>4 DEF Succeed
    <3>2. TypeOK'
      BY <1>2, <1>3, <2>1, <2>2, <3>1
    <3> HIDE DEF mine
    <3> QED
      BY <1>2, <2>1, <2>2, <2>4, <3>1, <3>2, HandPreserved
  <2> QED
    BY <2>3, <2>4
<1>5. ASSUME Fail(w, j) PROVE Kept /\ RowsEvolve
  <2>1. /\ j \in Rows /\ SetHand(w, j, Idle)
        /\ UNCHANGED <<feed, enq, storage, link, cycle, slow, aborts>>
    BY <1>1, <1>5 DEF Fail
  <2>2. /\ RowsEvolve
        /\ \A i \in JobIds : \/ jobs'[i] = jobs[i]
                             \/ i = j /\ jobs'[i].status # "in_progress"
    BY <1>5, <2>1, FailStep DEF TableInv
  <2>3. TypeOK'
    BY <1>2, <1>3, <2>1, <2>2
  <2> HIDE DEF mine
  <2> QED
    BY <1>2, <2>1, <2>2, <2>3, HandPreserved
<1> QED
  BY <1>4, <1>5

----------------------------------------------------------------------------

LEMMA InitIInv == Init => IInv
<1> SUFFICES ASSUME Init PROVE IInv
  OBVIOUS
<1>1. Rows = {}
  BY DEF Init, Rows
<1>2. IdleCall \in Call /\ IdleCall.wanted = {} /\ IsFiniteSet({})
  BY FS_EmptySet DEF IdleCall, Call
<1>3. Idle \in Hand /\ Idle.at = "idle"
  BY DEF Idle, Hand, Hands, Steps
<1>4. TypeOK
  BY <1>2, <1>3, ConstantsAssumption DEF Init, TypeOK
<1>5. RowsInOrder
  <2>1. Rows = 1 .. 0 /\ 0 <= MaxJobs
    BY <1>1, ConstantsAssumption
  <2> QED
    BY <2>1 DEF RowsInOrder
<1>6. FeedInOrder
  <2> SUFFICES ASSUME NEW m \in Media PROVE 0 <= Len(Revisions[m])
    BY DEF Init, FeedInOrder
  <2>1. Revisions[m] \in Seq(Contents)
    BY ConstantsAssumption
  <2>2. Len(Revisions[m]) \in Nat
    BY <2>1
  <2> QED
    BY <2>2
<1>7. WantedAreSaved
  BY <1>2 DEF Init, WantedAreSaved
<1>8. JobsAreSaved /\ AttemptsAreBounded
  BY <1>1 DEF JobsAreSaved, AttemptsAreBounded
<1>9. HandsHoldRows /\ CountIsCurrent /\ LinkingSucceeded
  BY <1>3 DEF Init, HandsHoldRows, CountIsCurrent, LinkingSucceeded
<1>10. LinksComeFromSuccess
  BY DEF Init, LinksComeFromSuccess
<1> QED
  BY <1>4, <1>5, <1>6, <1>7, <1>8, <1>9, <1>10 DEF IInv, TableInv, EarnedLinks

LEMMA NextKept ==
    ASSUME TableInv, [Next]_vars
    PROVE  Kept /\ \A j \in Rows : Evolves(jobs[j], jobs'[j])
<1>1. CASE \E m \in Media : Publish(m)
  BY <1>1, FeedSteps DEF RowsEvolve
<1>2. CASE \E l \in Listings : Tombstone(l)
  BY <1>2, TableSteps DEF RowsEvolve
<1>3. ASSUME NEW e \in Enqueuers, Enqueue(e)
      PROVE  Kept /\ \A j \in Rows : Evolves(jobs[j], jobs'[j])
  <2>1. CASE InsertJobs(e)
    BY <2>1, InsertTableInv, SameEvolves
  <2>2. CASE Collect(e) \/ ReadBlocking(e) \/ LoseEnqueue(e)
    BY <2>2, FeedSteps DEF RowsEvolve
  <2> QED
    BY <1>3, <2>1, <2>2 DEF Enqueue
<1>4. ASSUME NEW w \in Workers,
             \/ RunCycle(w) \/ ReapFails(w) \/ AbortCycle(w)
             \/ \E j \in JobIds : LinkFails(w, j)
      PROVE  Kept /\ RowsEvolve
  <2>1. CASE Reap(w)
    BY <2>1, TableSteps
  <2>2. CASE ReapFails(w) \/ FindNothing(w) \/ EndCycle(w) \/ AbortCycle(w) \/ Claim(w)
    BY <2>2, CycleSteps
  <2>3. ASSUME NEW j \in JobIds, ProcessJob(w, j) \/ LinkFails(w, j)
        PROVE  Kept /\ RowsEvolve
    <3>1. CASE \/ Download(w, j) \/ Deduplicate(w, j) \/ Store(w, j)
               \/ StepFails(w, j) \/ LinkMedia(w, j) \/ LinkFails(w, j)
               \/ ReadAttempts(w, j)
      BY <3>1, ReadingSteps
    <3>2. CASE Succeed(w, j) \/ Fail(w, j)
      BY <3>2, EndingSteps
    <3> QED
      BY <2>3, <3>1, <3>2 DEF ProcessJob
  <2> QED
    BY <1>4, <2>1, <2>2, <2>3 DEF RunCycle
<1>5. CASE \E j \in JobIds : LeaseRunsOut(j)
  BY <1>5, TableSteps DEF RowsEvolve
<1>6. CASE UNCHANGED vars
  <2>1. UNCHANGED <<feed, enq, jobs, storage, link, workVars, slow, aborts>>
    BY <1>6 DEF vars
  <2>2. RowsEvolve
    BY <2>1, UnchangedEvolve DEF TableInv
  <2>3. TypeOK'
    BY <2>1 DEF TableInv, TypeOK, feed, storage, workVars
  <2> QED
    BY <2>1, <2>2, <2>3, FeedAlone, TablePreserved DEF workVars, RowsEvolve
<1> QED
  BY <1>1, <1>2, <1>3, <1>4, <1>5, <1>6 DEF Next, RowsEvolve

LEMMA NextTableInv ==
    ASSUME TableInv, [Next]_vars
    PROVE  TableInv' /\ \A j \in Rows : Evolves(jobs[j], jobs'[j])
  BY NextKept DEF Kept

LEMMA NextIInv ==
    ASSUME IInv, [Next]_vars
    PROVE  IInv' /\ \A j \in Rows : Evolves(jobs[j], jobs'[j])
  BY NextKept DEF Kept, IInv

(***************************************************************************)
(* What holds of the table and of what the processes remember of it, after *)
(* every step of every enqueuer, worker, reaper and tombstone.             *)
(***************************************************************************)
THEOREM Invariance == Spec => []IInv
<1>1. IInv /\ [Next]_vars => IInv'
  BY NextIInv
<1> QED
  BY InitIInv, <1>1, PTL DEF Spec

(***************************************************************************)
(* The rows of the table, what the enqueuers want and what the workers     *)
(* have in hand keep their types; in particular a worker stores and        *)
(* uploads only bytes it has downloaded.                                   *)
(***************************************************************************)
THEOREM TypeCorrect == Spec => []TypeOK
<1>1. IInv => TypeOK
  BY DEF IInv, TableInv, EarnedLinks
<1> QED
  BY Invariance, <1>1, PTL

(***************************************************************************)
(* The guarded updates of sync/attachment_claim.go leave a finished job    *)
(* alone, however many workers still hold an expired claim on it.          *)
(***************************************************************************)
THEOREM FinishedJobsStay == Spec => FinishedIsFinal
<1>1. IInv /\ [Next]_vars =>
          [\A j \in Rows : jobs[j].status \in Finished => jobs'[j] = jobs[j]]_jobs
  BY NextIInv DEF Evolves
<1> QED
  BY Invariance, <1>1, PTL DEF Spec, FinishedIsFinal

(***************************************************************************)
(* Only a worker whose guarded update took the job to succeeded points the *)
(* media row at the bytes it downloaded.                                   *)
(***************************************************************************)
THEOREM LinksAreEarned == Spec => []LinksComeFromSuccess
<1>1. IInv => LinksComeFromSuccess
  BY DEF IInv, TableInv, EarnedLinks
<1> QED
  BY Invariance, <1>1, PTL

(***************************************************************************)
(* failJob reads the count outside its guarded update, and yet no job goes *)
(* past the attempts it is allowed: while the claim holds, nobody else     *)
(* changes the count.                                                      *)
(***************************************************************************)
THEOREM AttemptsStayBounded == Spec => []AttemptsAreBounded
<1>1. IInv => AttemptsAreBounded
  BY DEF IInv, TableInv, EarnedLinks
<1> QED
  BY Invariance, <1>1, PTL

(***************************************************************************)
(* An attempt is counted exactly when a failure is recorded: reaping,      *)
(* cancelling and losing a claim cost none.                                *)
(***************************************************************************)
THEOREM AttemptsAreFailures == Spec => AttemptsCountFailures
<1>1. IInv /\ [Next]_vars =>
          [\A j \in Rows :
              jobs'[j].attempts = jobs[j].attempts +
                  IF /\ jobs[j].status = "in_progress"
                     /\ jobs'[j].status \in {"retrying", "permanently_failed"}
                  THEN 1 ELSE 0]_jobs
  BY NextIInv DEF Evolves
<1> QED
  BY Invariance, <1>1, PTL DEF Spec, AttemptsCountFailures

----------------------------------------------------------------------------

(***************************************************************************)
(* What the job table promises of revisions: a succeeded job has bytes at  *)
(* least as new as it was enqueued for, and with one enqueuer there is one *)
(* job per revision.                                                       *)
(***************************************************************************)

\* The content is that of a published revision of m, of rev or a later one.
Shows(m, rev, content) ==
    \E n \in 1 .. published[m] : n >= rev /\ Revisions[m][n] = content

\* Where a worker has bytes in hand that no job records yet.
HasBytes == {"downloaded", "uploading", "stored"}

RevisionsAreSaved == \A j \in Rows : jobs[j].rev <= saved[jobs[j].media]

WantsArePublished ==
    \A e \in Enqueuers : \A x \in enq[e].wanted : x.rev <= saved[x.media]

BytesAreCurrent ==
    \A w \in Workers, j \in JobIds : hand[w][j].at \in HasBytes =>
        Shows(jobs[j].media, jobs[j].rev, hand[w][j].content)

RInv ==
    /\ RevisionsAreSaved
    /\ WantsArePublished
    /\ BytesAreCurrent
    /\ SuccessIsCurrent

----------------------------------------------------------------------------
(* What a step does to revisions and bytes *)

FeedGrows ==
    \A m \in Media : saved[m] <= saved'[m] /\ published[m] <= published'[m]

WantsSaved ==
    \A e \in Enqueuers : \A x \in enq'[e].wanted :
        x \in enq[e].wanted \/ x.rev <= saved'[x.media]

\* A row keeps its revision, and succeeds only with bytes a worker has stored.
RowKeeps(j) ==
    /\ jobs'[j].rev = jobs[j].rev
    /\ jobs'[j].status = "succeeded" =>
          \/ jobs[j].status = "succeeded" /\ jobs'[j].content = jobs[j].content
          \/ \E w \in Workers : /\ hand[w][j].at \in HasBytes
                                /\ jobs'[j].content = hand[w][j].content

RowsKeep == \A j \in Rows : RowKeeps(j)

NewRowsSaved ==
    \A j \in Rows' \ Rows : /\ jobs'[j].rev <= saved[jobs'[j].media]
                            /\ jobs'[j].status # "succeeded"

BytesKept ==
    \A w \in Workers, j \in JobIds : hand'[w][j].at \in HasBytes =>
        \/ hand[w][j].at \in HasBytes /\ hand'[w][j].content = hand[w][j].content
        \/ j \in Rows /\ Shows(jobs[j].media, jobs[j].rev, hand'[w][j].content)

LEMMA RevisionsPreserved ==
    ASSUME TableInv, TableInv', RInv, Rows \subseteq Rows',
           \A j \in Rows : Evolves(jobs[j], jobs'[j]),
           FeedGrows, WantsSaved, RowsKeep, NewRowsSaved, BytesKept
    PROVE  RInv'
<1>1. /\ TypeOK /\ TypeOK' /\ HandsHoldRows
      /\ \A m \in Media : /\ saved[m] \in Nat /\ saved'[m] \in Nat
                          /\ published[m] \in Nat /\ published'[m] \in Nat
  BY DEF TableInv, TypeOK
<1>2. \A j \in Rows : /\ j \in JobIds /\ jobs[j] \in Job /\ jobs[j].media \in Media
                      /\ jobs[j].rev \in Nat
  BY <1>1, RowsAreJobs, Fields
<1>3. \A j \in Rows' : /\ j \in JobIds /\ jobs'[j] \in Job /\ jobs'[j].media \in Media
                       /\ jobs'[j].rev \in Nat
  <2>1. ASSUME NEW j \in Rows' PROVE j \in JobIds /\ jobs'[j] \in Job
    BY <1>1, <2>1 DEF TypeOK, Rows
  <2> QED
    BY <2>1, Fields
<1>4. \A j \in Rows : jobs'[j].media = jobs[j].media /\ jobs'[j].rev = jobs[j].rev
  BY DEF Evolves, RowsKeep, RowKeeps
<1>5. RevisionsAreSaved'
  <2>1. ASSUME NEW j \in Rows' PROVE jobs'[j].rev <= saved'[jobs'[j].media]
    <3>1. CASE j \in Rows
      <4>1. jobs[j].rev <= saved[jobs[j].media]
        BY <3>1 DEF RInv, RevisionsAreSaved
      <4> QED
        BY <1>1, <1>2, <1>4, <3>1, <4>1 DEF FeedGrows
    <3>2. CASE j \notin Rows
      <4>1. jobs'[j].rev <= saved[jobs'[j].media]
        BY <2>1, <3>2 DEF NewRowsSaved
      <4> QED
        BY <1>1, <1>3, <2>1, <4>1 DEF FeedGrows
    <3> QED
      BY <3>1, <3>2
  <2> QED
    BY <2>1 DEF RevisionsAreSaved
<1>6. WantsArePublished'
  <2>1. ASSUME NEW e \in Enqueuers, NEW x \in enq'[e].wanted
        PROVE  x.rev <= saved'[x.media]
    <3>1. CASE x \in enq[e].wanted
      <4>1. x.rev <= saved[x.media] /\ x.rev \in Nat /\ x.media \in Media
        BY <1>1, <3>1 DEF RInv, WantsArePublished, TypeOK, Call, Want
      <4> QED
        BY <1>1, <4>1 DEF FeedGrows
    <3>2. CASE x \notin enq[e].wanted
      BY <2>1, <3>2 DEF WantsSaved
    <3> QED
      BY <3>1, <3>2
  <2> QED
    BY <2>1 DEF WantsArePublished
\* Bytes that were current are: upstream's revisions stay published.
<1>7. ASSUME NEW j \in Rows, NEW c, Shows(jobs[j].media, jobs[j].rev, c)
      PROVE  \E n \in 1 .. published'[jobs'[j].media] :
                 n >= jobs'[j].rev /\ Revisions[jobs'[j].media][n] = c
  BY <1>1, <1>2, <1>4, <1>7 DEF Shows, FeedGrows
<1>8. BytesAreCurrent'
  <2>1. ASSUME NEW w \in Workers, NEW j \in JobIds, hand'[w][j].at \in HasBytes
        PROVE  \E n \in 1 .. published'[jobs'[j].media] :
                 n >= jobs'[j].rev /\ Revisions[jobs'[j].media][n] = hand'[w][j].content
    <3>1. CASE hand[w][j].at \in HasBytes /\ hand'[w][j].content = hand[w][j].content
      <4>1. j \in Rows
        BY <1>1, <3>1 DEF HandsHoldRows, HasBytes
      <4>2. Shows(jobs[j].media, jobs[j].rev, hand[w][j].content)
        BY <3>1 DEF RInv, BytesAreCurrent
      <4> QED
        BY <1>7, <3>1, <4>1, <4>2
    <3>2. CASE j \in Rows /\ Shows(jobs[j].media, jobs[j].rev, hand'[w][j].content)
      BY <1>7, <3>2
    <3> QED
      BY <2>1, <3>1, <3>2 DEF BytesKept
  <2> QED
    BY <2>1 DEF BytesAreCurrent, Shows
<1>9. SuccessIsCurrent'
  <2>1. ASSUME NEW j \in Rows', jobs'[j].status = "succeeded"
        PROVE  \E n \in 1 .. published'[jobs'[j].media] :
                 n >= jobs'[j].rev /\ Revisions[jobs'[j].media][n] = jobs'[j].content
    <3>1. j \in Rows
      BY <2>1 DEF NewRowsSaved
    <3>2. CASE jobs[j].status = "succeeded" /\ jobs'[j].content = jobs[j].content
      <4>1. Shows(jobs[j].media, jobs[j].rev, jobs[j].content)
        BY <3>1, <3>2 DEF RInv, SuccessIsCurrent, Shows
      <4> QED
        BY <1>7, <3>1, <3>2, <4>1
    <3>3. ASSUME NEW w \in Workers, hand[w][j].at \in HasBytes,
                 jobs'[j].content = hand[w][j].content
          PROVE  \E n \in 1 .. published'[jobs'[j].media] :
                   n >= jobs'[j].rev /\ Revisions[jobs'[j].media][n] = jobs'[j].content
      <4>1. Shows(jobs[j].media, jobs[j].rev, hand[w][j].content)
        BY <1>2, <3>1, <3>3 DEF RInv, BytesAreCurrent
      <4> QED
        BY <1>7, <3>1, <3>3, <4>1
    <3> QED
      BY <2>1, <3>1, <3>2, <3>3 DEF RowsKeep, RowKeeps
  <2> QED
    BY <2>1 DEF SuccessIsCurrent
<1> QED
  BY <1>5, <1>6, <1>8, <1>9 DEF RInv

----------------------------------------------------------------------------
(* The steps one by one *)

LEMMA QuietFeed == ASSUME TypeOK, UNCHANGED feed PROVE FeedGrows
  BY DEF TypeOK, feed, FeedGrows

LEMMA QuietWants == ASSUME UNCHANGED enq PROVE WantsSaved
  BY DEF WantsSaved

LEMMA QuietRows == ASSUME UNCHANGED jobs PROVE RowsKeep /\ NewRowsSaved
  BY DEF RowsKeep, RowKeeps, NewRowsSaved, Rows

LEMMA QuietHands == ASSUME UNCHANGED hand PROVE BytesKept
  BY DEF BytesKept

\* None of the transitions of a row but success touches revision or bytes.
LEMMA RowTransitions ==
    ASSUME NEW job \in Job, NEW w \in Workers
    PROVE  /\ CancelJob(job).rev = job.rev /\ CancelJob(job).status = "canceled"
           /\ ReturnJob(job).rev = job.rev /\ ReturnJob(job).status = "pending"
           /\ ClaimJob(job, w).rev = job.rev /\ ClaimJob(job, w).status = "in_progress"
  BY DEF Job, CancelJob, ReturnJob, ClaimJob

LEMMA PublishKeeps ==
    ASSUME TableInv, NEW m \in Media, Publish(m)
    PROVE  FeedGrows /\ WantsSaved /\ RowsKeep /\ NewRowsSaved /\ BytesKept
<1>1. FeedGrows
  BY DEF TableInv, TypeOK, Publish, FeedGrows
<1> QED
  BY <1>1, QuietWants, QuietRows, QuietHands DEF Publish, workVars

\* The new rows of a step that adds none.
LEMMA NoNewRows == ASSUME RowsEvolve PROVE NewRowsSaved
  BY DEF RowsEvolve, NewRowsSaved

LEMMA TombstoneKeeps ==
    ASSUME TableInv, NEW l \in Listings, Tombstone(l)
    PROVE  FeedGrows /\ WantsSaved /\ RowsKeep /\ NewRowsSaved /\ BytesKept
<1>1. TypeOK
  BY DEF TableInv
<1>2. ASSUME NEW j \in Rows
      PROVE  RowKeeps(j)
  <2>1. j \in JobIds /\ jobs[j] \in Job
    BY <1>1, RowsAreJobs
  <2>2. jobs'[j] = jobs[j] \/ jobs'[j] = CancelJob(jobs[j])
    BY <2>1 DEF Tombstone
  <2>3. CancelJob(jobs[j]).rev = jobs[j].rev /\ CancelJob(jobs[j]).status = "canceled"
    BY <2>1 DEF Job, CancelJob
  <2> QED
    BY <2>2, <2>3 DEF RowKeeps
<1>3. NewRowsSaved
  BY <1>1, TombstoneEvolve, NoNewRows
<1> QED
  BY <1>1, <1>2, <1>3, QuietFeed, QuietWants, QuietHands DEF Tombstone, RowsKeep, workVars

LEMMA ReapKeeps ==
    ASSUME TableInv, NEW w \in Workers, Reap(w)
    PROVE  FeedGrows /\ WantsSaved /\ RowsKeep /\ NewRowsSaved /\ BytesKept
<1>1. TypeOK
  BY DEF TableInv
<1>2. ASSUME NEW j \in Rows
      PROVE  RowKeeps(j)
  <2>1. j \in JobIds /\ jobs[j] \in Job
    BY <1>1, RowsAreJobs
  <2>2. jobs'[j] = jobs[j] \/ jobs'[j] = ReturnJob(jobs[j])
    BY <2>1 DEF Reap
  <2> QED
    BY <2>1, <2>2, RowTransitions DEF RowKeeps
<1>3. NewRowsSaved
  BY <1>1, ReapEvolve, NoNewRows
<1> QED
  BY <1>1, <1>2, <1>3, QuietFeed, QuietWants, QuietHands DEF Reap, RowsKeep

LEMMA LeaseKeeps ==
    ASSUME TableInv, NEW i \in JobIds, LeaseRunsOut(i)
    PROVE  FeedGrows /\ WantsSaved /\ RowsKeep /\ NewRowsSaved /\ BytesKept
<1>1. TypeOK /\ i \in Rows
  BY DEF TableInv, LeaseRunsOut
<1>2. ASSUME NEW j \in Rows
      PROVE  RowKeeps(j)
  <2>1. j \in JobIds /\ jobs[j] \in Job /\ jobs \in [JobIds -> Job \cup {NoJob}]
    BY <1>1, RowsAreJobs DEF TypeOK
  <2>2. jobs'[j] = jobs[j] \/ jobs'[j] = [jobs[j] EXCEPT !.stale = TRUE]
    BY <2>1 DEF LeaseRunsOut
  <2>3. /\ [jobs[j] EXCEPT !.stale = TRUE].rev = jobs[j].rev
        /\ [jobs[j] EXCEPT !.stale = TRUE].status = jobs[j].status
        /\ [jobs[j] EXCEPT !.stale = TRUE].content = jobs[j].content
    BY <2>1 DEF Job
  <2> QED
    BY <2>2, <2>3 DEF RowKeeps
<1>3. NewRowsSaved
  BY <1>1, LeaseEvolve, NoNewRows
<1> QED
  BY <1>1, <1>2, <1>3, QuietFeed, QuietWants, QuietHands
     DEF LeaseRunsOut, RowsKeep, workVars

LEMMA ClaimKeeps ==
    ASSUME TableInv, NEW w \in Workers, Claim(w)
    PROVE  FeedGrows /\ WantsSaved /\ RowsKeep /\ NewRowsSaved /\ BytesKept
<1>1. TypeOK
  BY DEF TableInv
<1>2. PICK batch \in SUBSET Claimable :
         /\ jobs' = [j \in JobIds |->
                        IF j \in batch THEN ClaimJob(jobs[j], w) ELSE jobs[j]]
         /\ hand' = [hand EXCEPT ![w] =
                        [j \in JobIds |-> IF j \in batch THEN [Idle EXCEPT !.at = "claimed"]
                                          ELSE Idle]]
  BY DEF Claim
<1>3. ASSUME NEW j \in Rows
      PROVE  RowKeeps(j)
  <2>1. j \in JobIds /\ jobs[j] \in Job
    BY <1>1, RowsAreJobs
  <2>2. jobs'[j] = jobs[j] \/ jobs'[j] = ClaimJob(jobs[j], w)
    BY <1>2, <2>1
  <2> QED
    BY <2>1, <2>2, RowTransitions DEF RowKeeps
<1>4. BytesKept
  <2>1. /\ [Idle EXCEPT !.at = "claimed"].at \notin HasBytes /\ Idle.at \notin HasBytes
        /\ hand \in [Workers -> [JobIds -> Hand]]
    BY <1>1 DEF Idle, HasBytes, TypeOK
  <2>2. \A v \in Workers, j \in JobIds :
           hand'[v][j] = hand[v][j] \/ hand'[v][j].at \notin HasBytes
    BY <1>2, <2>1
  <2> QED
    BY <2>2 DEF BytesKept
<1>5. NewRowsSaved
  BY <1>1, ClaimEvolve, NoNewRows
<1> QED
  BY <1>1, <1>3, <1>4, <1>5, QuietFeed, QuietWants DEF Claim, RowsKeep

\* A worker's other steps of its loop.
LEMMA LoopKeeps ==
    ASSUME TableInv, NEW w \in Workers,
           ReapFails(w) \/ FindNothing(w) \/ EndCycle(w) \/ AbortCycle(w)
    PROVE  FeedGrows /\ WantsSaved /\ RowsKeep /\ NewRowsSaved /\ BytesKept
<1>1. TypeOK /\ UNCHANGED <<feed, enq, jobs>>
  BY DEF TableInv, ReapFails, FindNothing, EndCycle, AbortCycle
<1>2. BytesKept
  <2>1. CASE UNCHANGED hand
    BY <2>1, QuietHands
  <2>2. CASE AbortCycle(w)
    <3>1. \A v \in Workers, j \in JobIds :
             hand'[v][j] = hand[v][j] \/ hand'[v][j].at \notin HasBytes
      BY <1>1, <2>2 DEF AbortCycle, TypeOK, Idle, HasBytes
    <3> QED
      BY <3>1 DEF BytesKept
  <2> QED
    BY <2>1, <2>2 DEF ReapFails, FindNothing, EndCycle
<1> QED
  BY <1>1, <1>2, QuietFeed, QuietWants, QuietRows

LEMMA CollectKeeps ==
    ASSUME TableInv, NEW e \in Enqueuers, Collect(e)
    PROVE  FeedGrows /\ WantsSaved /\ RowsKeep /\ NewRowsSaved /\ BytesKept
<1>1. /\ published \in [Media -> Nat] /\ saved \in [Media -> Nat]
      /\ enq \in [Enqueuers -> Call] /\ \A m \in Media : saved[m] <= published[m]
  BY DEF TableInv, TypeOK, FeedInOrder
<1>2. PICK ms \in SUBSET {m \in Media : published[m] > 0} :
        \E rev \in [ms -> UNION {Timestamps(m) : m \in ms}] :
          /\ \A m \in ms : rev[m] \in Timestamps(m)
          /\ saved' = [m \in Media |-> IF m \in ms THEN published[m] ELSE saved[m]]
          /\ enq' = [enq EXCEPT ![e] =
                [at |-> "collected",
                 wanted |-> {[media |-> m, rev |-> rev[m]] : m \in ms}]]
  BY Zenon DEF Collect
<1>3. PICK rev \in [ms -> UNION {Timestamps(m) : m \in ms}] :
          /\ \A m \in ms : rev[m] \in Timestamps(m)
          /\ saved' = [m \in Media |-> IF m \in ms THEN published[m] ELSE saved[m]]
          /\ enq' = [enq EXCEPT ![e] =
                [at |-> "collected",
                 wanted |-> {[media |-> m, rev |-> rev[m]] : m \in ms}]]
  BY <1>2, Zenon
<1>4. published' = published /\ UNCHANGED <<jobs, workVars>>
  BY DEF Collect
<1>5. FeedGrows
  BY <1>1, <1>3, <1>4 DEF FeedGrows
<1>6. \A m \in ms : m \in Media /\ rev[m] <= published[m] /\ saved'[m] = published[m]
  BY <1>1, <1>3 DEF Timestamps
<1>7. ASSUME NEW d \in Enqueuers, NEW x \in enq'[d].wanted
      PROVE  x \in enq[d].wanted \/ x.rev <= saved'[x.media]
  <2>1. CASE d # e
    BY <1>1, <1>3, <1>7, <2>1
  <2>2. CASE d = e
    <3>1. enq'[d].wanted = {[media |-> m, rev |-> rev[m]] : m \in ms}
      BY <1>1, <1>3, <2>2
    <3>2. PICK m \in ms : x = [media |-> m, rev |-> rev[m]]
      BY <1>7, <3>1
    <3> QED
      BY <1>6, <3>2
  <2> QED
    BY <2>1, <2>2
<1> QED
  BY <1>4, <1>5, <1>7, QuietRows, QuietHands DEF WantsSaved, workVars

LEMMA ForgetKeeps ==
    ASSUME TableInv, NEW e \in Enqueuers, ReadBlocking(e) \/ LoseEnqueue(e)
    PROVE  FeedGrows /\ WantsSaved /\ RowsKeep /\ NewRowsSaved /\ BytesKept
<1>1. TypeOK /\ UNCHANGED <<feed, jobs, hand>> /\ enq \in [Enqueuers -> Call]
  BY DEF TableInv, TypeOK, ReadBlocking, LoseEnqueue, workVars
<1>2. \A d \in Enqueuers : enq'[d].wanted \subseteq enq[d].wanted
  BY <1>1 DEF ReadBlocking, LoseEnqueue, IdleCall
<1> QED
  BY <1>1, <1>2, QuietFeed, QuietRows, QuietHands DEF WantsSaved

\* The steps of processJob: its hand alone changes, and the row that is ended.
LEMMA HandKeeps ==
    ASSUME TableInv, NEW w \in Workers, NEW j \in JobIds, NEW h \in Hand, SetHand(w, j, h),
           h.at \in HasBytes =>
               \/ hand[w][j].at \in HasBytes /\ h.content = hand[w][j].content
               \/ j \in Rows /\ Shows(jobs[j].media, jobs[j].rev, h.content)
    PROVE  BytesKept
<1>1. hand \in [Workers -> [JobIds -> Hand]]
  BY DEF TableInv, TypeOK
<1>2. \A v \in Workers, i \in JobIds :
         \/ v = w /\ i = j /\ hand'[v][i] = h
         \/ hand'[v][i] = hand[v][i]
  BY <1>1 DEF SetHand
<1> QED
  BY <1>2 DEF BytesKept

LEMMA DownloadKeeps ==
    ASSUME TableInv, RInv, NEW w \in Workers, NEW j \in JobIds, Download(w, j)
    PROVE  FeedGrows /\ WantsSaved /\ RowsKeep /\ NewRowsSaved /\ BytesKept
<1> DEFINE mine == hand[w][j]
           m == jobs[j].media
<1>1. /\ TypeOK /\ mine \in Hands /\ mine.at = "claimed" /\ j \in Rows
      /\ UNCHANGED <<feed, enq, jobs>>
  BY DEF TableInv, TypeOK, Hand, HandsHoldRows, Download
<1>2. /\ jobs[j] \in Job /\ m \in Media /\ jobs[j].rev \in Nat
      /\ saved[m] \in Nat /\ published[m] \in Nat
  <2>1. jobs[j] \in Job
    BY <1>1, RowsAreJobs
  <2> QED
    BY <1>1, <2>1, Fields DEF TypeOK
<1>3. PICK n \in saved[m] .. published[m] :
         SetHand(w, j, [mine EXCEPT !.at = "downloaded", !.content = Revisions[m][n]])
  BY DEF Download
<1>4. /\ 0 < saved[m] /\ published[m] <= Len(Revisions[m]) /\ jobs[j].rev <= saved[m]
  BY <1>1, <1>2 DEF TableInv, JobsAreSaved, FeedInOrder, RInv, RevisionsAreSaved
<1>5. n \in 1 .. published[m] /\ n >= jobs[j].rev /\ n \in 1 .. Len(Revisions[m])
  <2>1. Revisions[m] \in Seq(Contents)
    BY <1>2, ConstantsAssumption
  <2>2. Len(Revisions[m]) \in Nat
    BY <2>1
  <2> QED
    BY <1>2, <1>4, <2>2
<1>6. Revisions[m][n] \in Contents
  <2>1. Revisions[m] \in Seq(Contents)
    BY <1>2, ConstantsAssumption
  <2> QED
    BY <1>5, <2>1
<1>7. Shows(m, jobs[j].rev, Revisions[m][n])
  BY <1>5 DEF Shows
<1> DEFINE bytes == Revisions[m][n]
           h == [mine EXCEPT !.at = "downloaded", !.content = bytes]
<1>8. SetHand(w, j, h) /\ bytes \in Contents /\ Shows(m, jobs[j].rev, bytes)
  BY <1>3, <1>6, <1>7
<1> HIDE DEF bytes
<1>9. h \in Hand /\ h.content = bytes
  BY <1>1, <1>8 DEF Hand, Hands, Steps
<1> HIDE DEF h, mine
<1>10. BytesKept
  BY <1>1, <1>8, <1>9, HandKeeps
<1> QED
  BY <1>1, <1>10, QuietFeed, QuietWants, QuietRows

LEMMA StepKeepsBytes ==
    ASSUME TableInv, NEW w \in Workers, NEW j \in JobIds,
           \/ Deduplicate(w, j) \/ Store(w, j) \/ StepFails(w, j)
           \/ LinkMedia(w, j) \/ LinkFails(w, j) \/ ReadAttempts(w, j)
    PROVE  FeedGrows /\ WantsSaved /\ RowsKeep /\ NewRowsSaved /\ BytesKept
<1> DEFINE mine == hand[w][j]
<1>1. /\ TypeOK /\ UNCHANGED <<feed, enq, jobs>> /\ mine \in Hands
      /\ hand \in [Workers -> [JobIds -> Hand]]
  BY DEF TableInv, TypeOK, Hand, Deduplicate, Store, StepFails, LinkMedia, LinkFails,
         ReadAttempts
<1>2. \/ hand'[w][j].at \notin HasBytes
      \/ mine.at \in HasBytes /\ hand'[w][j].content = mine.content
  <2>1. CASE Deduplicate(w, j)
    BY <1>1, <2>1 DEF Deduplicate, SetHand, Hands, HasBytes
  <2>2. CASE Store(w, j)
    BY <1>1, <2>2 DEF Store, SetHand, Hands, HasBytes, Idle
  <2>3. CASE StepFails(w, j)
    <3>1. PICK full \in BOOLEAN :
             hand' = [hand EXCEPT ![w][j] = [Idle EXCEPT !.at = "failing", !.full = full]]
      BY <2>3 DEF StepFails, SetHand
    <3> DEFINE h == [Idle EXCEPT !.at = "failing", !.full = full]
    <3>2. h.at = "failing"
      BY DEF Idle
    <3>3. hand' = [hand EXCEPT ![w][j] = h]
      BY <3>1
    <3> HIDE DEF h
    <3>4. hand'[w][j] = h
      BY <1>1, <3>3
    <3> QED
      BY <3>2, <3>4 DEF HasBytes
  <2>4. CASE LinkMedia(w, j) \/ LinkFails(w, j)
    BY <1>1, <2>4 DEF LinkMedia, LinkFails, SetHand, HasBytes, Idle
  <2>5. CASE ReadAttempts(w, j)
    <3> DEFINE count == jobs[j].attempts
    <3>1. hand' = [hand EXCEPT ![w][j] = [mine EXCEPT !.at = "failed", !.attempts = count]]
      BY <2>5 DEF ReadAttempts, SetHand
    <3> HIDE DEF count
    <3>2. hand'[w][j].at = "failed"
      BY <1>1, <3>1 DEF Hands
    <3> QED
      BY <3>2 DEF HasBytes
  <2> QED
    BY <2>1, <2>2, <2>3, <2>4, <2>5
<1>3. \A v \in Workers, i \in JobIds : ~(v = w /\ i = j) => hand'[v][i] = hand[v][i]
  <2>1. \E h : SetHand(w, j, h)
    BY Zenon DEF Deduplicate, Store, StepFails, LinkMedia, LinkFails, ReadAttempts
  <2> QED
    BY <1>1, <2>1 DEF SetHand
<1>4. BytesKept
  BY <1>2, <1>3 DEF BytesKept
<1> QED
  BY <1>1, <1>4, QuietFeed, QuietWants, QuietRows

LEMMA EndKeeps ==
    ASSUME TableInv, NEW w \in Workers, NEW i \in JobIds, Succeed(w, i) \/ Fail(w, i)
    PROVE  FeedGrows /\ WantsSaved /\ RowsKeep /\ NewRowsSaved /\ BytesKept
<1>1. /\ TypeOK /\ UNCHANGED <<feed, enq>> /\ i \in Rows /\ jobs[i] \in Job
      /\ jobs \in [JobIds -> Job \cup {NoJob}] /\ hand \in [Workers -> [JobIds -> Hand]]
  <2>1. i \in Rows /\ TypeOK
    BY DEF TableInv, HandsHoldRows, Succeed, Fail
  <2> QED
    BY <2>1, RowsAreJobs DEF TypeOK, Succeed, Fail
<1>2. BytesKept
  <2>1. hand'[w][i].at \notin HasBytes
    <3>1. CASE Succeed(w, i)
      BY <1>1, <3>1 DEF Succeed, SetHand, HasBytes, Idle, Hand, Hands
    <3>2. CASE Fail(w, i)
      BY <1>1, <3>2 DEF Fail, SetHand, HasBytes, Idle
    <3> QED
      BY <3>1, <3>2
  <2>2. \A v \in Workers, j \in JobIds : ~(v = w /\ j = i) => hand'[v][j] = hand[v][j]
    BY <1>1 DEF Succeed, Fail, SetHand
  <2> QED
    BY <2>1, <2>2 DEF BytesKept
<1>3. NewRowsSaved
  BY <1>1, SucceedStep, FailStep, NoNewRows DEF TableInv
<1>4. RowsKeep
  <2>1. CASE Succeed(w, i)
    <3> DEFINE c == hand[w][i].content
    <3>1. \A j \in JobIds : j # i => jobs'[j] = jobs[j]
      BY <1>1, <2>1, SucceedStep
    <3>2. /\ hand[w][i].at \in HasBytes
          /\ \/ jobs'[i] = jobs[i]
             \/ jobs'[i] = [jobs[i] EXCEPT !.status = "succeeded", !.content = c]
      BY <1>1, <2>1 DEF Succeed, HasBytes
    <3> HIDE DEF c
    <3>3. \/ jobs'[i] = jobs[i]
          \/ jobs'[i].rev = jobs[i].rev /\ jobs'[i].content = c
      BY <1>1, <3>2 DEF Job
    <3> QED
      BY <1>1, <3>1, <3>2, <3>3, RowsAreJobs DEF RowsKeep, RowKeeps, c
  <2>2. CASE Fail(w, i)
    <3> DEFINE status == FailedStatus(w, i)
               count == hand[w][i].attempts + 1
    <3>1. status # "succeeded"
      BY DEF FailedStatus
    <3>2. \/ jobs' = jobs
          \/ jobs' = [jobs EXCEPT ![i].status = status, ![i].attempts = count]
      BY <2>2 DEF Fail
    <3> HIDE DEF status, count
    <3>3. \A j \in JobIds : j # i => jobs'[j] = jobs[j]
      BY <1>1, <3>2
    <3>4. \/ jobs'[i] = jobs[i]
          \/ jobs'[i].rev = jobs[i].rev /\ jobs'[i].status # "succeeded"
      BY <1>1, <3>1, <3>2 DEF Job
    <3> QED
      BY <1>1, <3>3, <3>4, RowsAreJobs DEF RowsKeep, RowKeeps
  <2> QED
    BY <2>1, <2>2
<1> QED
  BY <1>1, <1>2, <1>3, <1>4, QuietFeed, QuietWants

----------------------------------------------------------------------------
(* The rows that an enqueuer inserts *)

\* Each new row is one of the wanted jobs, no two the same.
LEMMA BulkInsertedRows ==
    ASSUME TypeOK, RowsInOrder, NEW wanted \in SUBSET Want, IsFiniteSet(wanted),
           \A x \in wanted : saved[x.media] > 0, BulkInsert(wanted)
    PROVE  /\ \A j \in Rows : jobs'[j] = jobs[j]
           /\ \A j \in Rows' \ Rows : \E x \in wanted : jobs'[j] = NewJob(x)
           /\ \A i, j \in Rows' \ Rows : \A x \in wanted :
                 jobs'[i] = NewJob(x) /\ jobs'[j] = NewJob(x) => i = j
           /\ \A i \in Rows : \A j \in Rows' \ Rows : i < j
<1> DEFINE size == Cardinality(wanted)
<1>2. size \in Nat
  BY FS_CardinalityType
<1>3. PICK n \in Nat : n <= MaxJobs /\ Rows = 1 .. n
  BY DEF RowsInOrder
<1>4. LastJob = n
  <2>1. Cardinality(1 .. n) = IF 1 > n THEN 0 ELSE n - 1 + 1
    BY <1>3, FS_Interval
  <2> QED
    BY <1>3, <2>1 DEF LastJob
<1>5. PICK order \in [1 .. size -> wanted] :
         /\ \A x \in wanted : \E k \in DOMAIN order : order[k] = x
         /\ jobs' = [j \in JobIds |-> IF j - LastJob \in DOMAIN order
                                      THEN NewJob(order[j - LastJob])
                                      ELSE jobs[j]]
  BY DEF BulkInsert
\* As many places as wanted jobs, and each of these at some place.
<1>6. order \in Injection(1 .. size, wanted)
  <2>1. order \in Surjection(1 .. size, wanted)
    BY <1>5 DEF Surjection
  <2>2. IsFiniteSet(1 .. size) /\ Cardinality(1 .. size) = size
    <3> HIDE DEF size
    <3>1. Cardinality(1 .. size) = IF 1 > size THEN 0 ELSE size - 1 + 1
      BY <1>2, FS_Interval
    <3>2. IsFiniteSet(1 .. size)
      BY <1>2, FS_Interval
    <3> QED
      BY <1>2, <3>1, <3>2
  <2>3. Cardinality(wanted) = Cardinality(1 .. size)
    BY <2>2
  <2> QED
    BY <2>1, <2>2, <2>3, FS_Surjection
<1> HIDE DEF size
<1>7. \A i, j \in 1 .. size : order[i] = order[j] => i = j
  BY <1>6, Fun_InjectionProperties
<1>9. \A j \in Rows : jobs'[j] = jobs[j]
  BY BulkInsertStep
<1>10. ASSUME NEW j \in Rows' \ Rows
       PROVE  /\ j \in JobIds /\ n < j /\ j - n \in 1 .. size
              /\ order[j - n] \in wanted /\ jobs'[j] = NewJob(order[j - n])
  <2>1. j \in JobIds /\ jobs'[j] # NoJob /\ jobs[j] = NoJob /\ j \notin 1 .. n
    BY <1>3, <1>10 DEF Rows
  <2>2. j - LastJob \in DOMAIN order
    BY <1>5, <2>1
  <2> QED
    BY <1>2, <1>3, <1>4, <1>5, <2>1, <2>2, ConstantsAssumption DEF JobIds
<1>11. \A i \in Rows : \A j \in Rows' \ Rows : i < j
  BY <1>3, <1>10, ConstantsAssumption DEF JobIds
<1>12. ASSUME NEW x \in wanted, NEW y \in wanted, NewJob(x) = NewJob(y)
       PROVE  x = y
  <2>1. x \in Want /\ y \in Want
    OBVIOUS
  <2>2. x.media = y.media /\ x.rev = y.rev
    BY <1>12 DEF NewJob
  <2> QED
    BY <2>1, <2>2 DEF Want
<1>13. ASSUME NEW i \in Rows' \ Rows, NEW j \in Rows' \ Rows, jobs'[i] = jobs'[j]
       PROVE  i = j
  <2>1. order[i - n] = order[j - n]
    BY <1>10, <1>12, <1>13
  <2>2. i - n = j - n /\ i \in Nat /\ j \in Nat
    BY <1>7, <1>10, <2>1, ConstantsAssumption DEF JobIds
  <2> QED
    BY <1>3, <2>2
<1> QED
  BY <1>9, <1>10, <1>11, <1>13

LEMMA InsertedRows ==
    ASSUME TableInv, NEW e \in Enqueuers, InsertJobs(e)
    PROVE  /\ \A j \in Rows : jobs'[j] = jobs[j]
           /\ \A j \in Rows' \ Rows : \E x \in enq[e].wanted : jobs'[j] = NewJob(x)
           /\ \A i, j \in Rows' \ Rows : \A x \in enq[e].wanted :
                 jobs'[i] = NewJob(x) /\ jobs'[j] = NewJob(x) => i = j
           /\ \A i \in Rows : \A j \in Rows' \ Rows : i < j
<1> DEFINE wanted == enq[e].wanted
<1>1. /\ wanted \in SUBSET Want /\ IsFiniteSet(wanted) /\ BulkInsert(wanted)
      /\ (\A x \in wanted : saved[x.media] > 0) /\ TypeOK /\ RowsInOrder
  BY DEF TableInv, TypeOK, Call, WantedAreSaved, InsertJobs
<1> HIDE DEF wanted
<1>2. /\ \A j \in Rows : jobs'[j] = jobs[j]
      /\ \A j \in Rows' \ Rows : \E x \in wanted : jobs'[j] = NewJob(x)
      /\ \A i, j \in Rows' \ Rows : \A x \in wanted :
            jobs'[i] = NewJob(x) /\ jobs'[j] = NewJob(x) => i = j
      /\ \A i \in Rows : \A j \in Rows' \ Rows : i < j
  BY <1>1, BulkInsertedRows
<1> QED
  BY <1>2 DEF wanted

LEMMA InsertKeeps ==
    ASSUME TableInv, RInv, NEW e \in Enqueuers, InsertJobs(e)
    PROVE  FeedGrows /\ WantsSaved /\ RowsKeep /\ NewRowsSaved /\ BytesKept
<1>1. TypeOK /\ UNCHANGED <<feed, hand>> /\ enq \in [Enqueuers -> Call]
      /\ enq' = [enq EXCEPT ![e] = IdleCall]
  BY DEF TableInv, TypeOK, InsertJobs, workVars
<1>2. WantsSaved
  BY <1>1 DEF WantsSaved, IdleCall
<1>3. RowsKeep
  BY InsertedRows DEF RowsKeep, RowKeeps
<1>4. ASSUME NEW j \in Rows' \ Rows
      PROVE  jobs'[j].rev <= saved[jobs'[j].media] /\ jobs'[j].status # "succeeded"
  <2>1. PICK x \in enq[e].wanted : jobs'[j] = NewJob(x)
    BY <1>4, InsertedRows
  <2>2. x.rev <= saved[x.media]
    BY DEF RInv, WantsArePublished
  <2> QED
    BY <2>1, <2>2 DEF NewJob
<1>5. NewRowsSaved
  BY <1>4 DEF NewRowsSaved
<1> QED
  BY <1>1, <1>2, <1>3, <1>5, QuietFeed, QuietHands

----------------------------------------------------------------------------
(* The bytes of a succeeded job *)

LEMMA StepKeepsRevisions ==
    ASSUME TableInv, RInv, [Next]_vars
    PROVE  FeedGrows /\ WantsSaved /\ RowsKeep /\ NewRowsSaved /\ BytesKept
<1> DEFINE AllKeep == FeedGrows /\ WantsSaved /\ RowsKeep /\ NewRowsSaved /\ BytesKept
<1>1. CASE \E m \in Media : Publish(m)
  BY <1>1, PublishKeeps
<1>2. CASE \E l \in Listings : Tombstone(l)
  BY <1>2, TombstoneKeeps
<1>3. ASSUME NEW e \in Enqueuers, Enqueue(e)
      PROVE  AllKeep
  BY <1>3, CollectKeeps, ForgetKeeps, InsertKeeps DEF Enqueue
<1>4. ASSUME NEW w \in Workers,
             \/ RunCycle(w) \/ ReapFails(w) \/ AbortCycle(w)
             \/ \E j \in JobIds : LinkFails(w, j)
      PROVE  AllKeep
  <2>1. CASE Reap(w) \/ Claim(w)
    BY <2>1, ReapKeeps, ClaimKeeps
  <2>2. CASE ReapFails(w) \/ FindNothing(w) \/ EndCycle(w) \/ AbortCycle(w)
    BY <2>2, LoopKeeps
  <2>3. ASSUME NEW j \in JobIds, ProcessJob(w, j) \/ LinkFails(w, j)
        PROVE  AllKeep
    BY <2>3, DownloadKeeps, StepKeepsBytes, EndKeeps DEF ProcessJob
  <2> QED
    BY <1>4, <2>1, <2>2, <2>3 DEF RunCycle
<1>5. CASE \E j \in JobIds : LeaseRunsOut(j)
  BY <1>5, LeaseKeeps
<1>6. CASE UNCHANGED vars
  BY <1>6, QuietFeed, QuietWants, QuietRows, QuietHands DEF vars, workVars, TableInv
<1> QED
  BY <1>1, <1>2, <1>3, <1>4, <1>5, <1>6 DEF Next

\* For the revisions of the rows alone it does not matter what is wanted.
LEMMA StepKeepsRows ==
    ASSUME TableInv, [Next]_vars
    PROVE  RowsKeep
<1>1. CASE UNCHANGED jobs
  BY <1>1, QuietRows
<1>2. CASE \E l \in Listings : Tombstone(l)
  BY <1>2, TombstoneKeeps
<1>3. ASSUME NEW e \in Enqueuers, Enqueue(e) PROVE RowsKeep
  <2>1. CASE InsertJobs(e)
    BY <2>1, InsertedRows DEF RowsKeep, RowKeeps
  <2>2. CASE ~InsertJobs(e)
    BY <1>1, <1>3, <2>2 DEF Enqueue, Collect, ReadBlocking, LoseEnqueue
  <2> QED
    BY <2>1, <2>2
<1>4. ASSUME NEW w \in Workers, RunCycle(w) PROVE RowsKeep
  <2>1. CASE Reap(w) \/ Claim(w)
    BY <2>1, ReapKeeps, ClaimKeeps
  <2>2. ASSUME NEW j \in JobIds, ProcessJob(w, j) PROVE RowsKeep
    <3>1. CASE Succeed(w, j) \/ Fail(w, j)
      BY <3>1, EndKeeps
    <3>2. CASE ~Succeed(w, j) /\ ~Fail(w, j)
      <4>1. UNCHANGED jobs
        BY <2>2, <3>2 DEF ProcessJob, Download, Deduplicate, Store, StepFails,
                          LinkMedia, ReadAttempts
      <4> QED
        BY <1>1, <4>1
    <3> QED
      BY <3>1, <3>2
  <2>3. CASE FindNothing(w) \/ EndCycle(w)
    BY <1>1, <2>3 DEF FindNothing, EndCycle
  <2> QED
    BY <1>4, <2>1, <2>2, <2>3 DEF RunCycle
<1>5. CASE \E w \in Workers : \/ ReapFails(w) \/ AbortCycle(w)
                              \/ \E j \in JobIds : LinkFails(w, j)
  BY <1>1, <1>5 DEF ReapFails, AbortCycle, LinkFails
<1>6. CASE \E j \in JobIds : LeaseRunsOut(j)
  BY <1>6, LeaseKeeps
<1>7. CASE \E m \in Media : Publish(m)
  BY <1>1, <1>7 DEF Publish
<1> QED
  BY <1>1, <1>2, <1>3, <1>4, <1>5, <1>6, <1>7 DEF Next, vars

\* No step but an insert changes which rows there are, and that adds to them.
LEMMA RowsStay ==
    ASSUME TableInv, [Next]_vars
    PROVE  Rows \subseteq Rows'
<1>1. TableInv' /\ \A j \in Rows : Evolves(jobs[j], jobs'[j])
  BY NextTableInv
<1>2. \A j \in Rows : j \in JobIds /\ jobs'[j] \in Job
  BY <1>1 DEF Evolves, Rows
<1> QED
  BY <1>2, ConstantsAssumption DEF Rows

(***************************************************************************)
(* Whatever a worker downloaded, deduplicated or took over, a succeeded    *)
(* job holds the bytes of the revision it was enqueued for or of a newer   *)
(* one, for any number of workers, retries and expired leases.             *)
(***************************************************************************)
THEOREM SucceedsWithCurrentBytes == Spec => []SuccessIsCurrent
<1>1. Init => TableInv /\ RInv
  <2>1. Init => RInv
    BY DEF Init, RInv, RevisionsAreSaved, WantsArePublished, BytesAreCurrent,
           SuccessIsCurrent, Rows, IdleCall, Idle, HasBytes
  <2> QED
    BY <2>1, InitIInv DEF IInv
<1>2. TableInv /\ RInv /\ [Next]_vars => (TableInv /\ RInv)'
  <2> SUFFICES ASSUME TableInv, RInv, [Next]_vars
               PROVE  TableInv' /\ RInv'
    OBVIOUS
  <2>1. TableInv' /\ \A j \in Rows : Evolves(jobs[j], jobs'[j])
    BY NextTableInv
  <2> QED
    BY <2>1, RowsStay, StepKeepsRevisions, RevisionsPreserved
<1>3. TableInv /\ RInv => SuccessIsCurrent
  BY DEF RInv
<1> QED
  BY <1>1, <1>2, <1>3, PTL DEF Spec

----------------------------------------------------------------------------
(* What the image endpoint finds *)

\* Upstream serves content c for m, in some revision.
Serves(m, c) == \E n \in 1 .. Len(Revisions[m]) : Revisions[m][n] = c

OwnBytes ==
    \A m1, m2 \in Media : \A c \in Contents : Serves(m1, c) /\ Serves(m2, c) => m1 = m2

\* Where a worker believes its bytes to be in storage.
HasStored == {"stored", "linking"}

AttachmentsHaveObjects ==
    \A c \in attachments : \E m \in Media : Serves(m, c) /\ ObjectKey(m, c) \in objects

StoredHaveObjects ==
    \A w \in Workers, j \in JobIds : hand[w][j].at \in HasStored =>
        ObjectKey(jobs[j].media, hand[w][j].content) \in objects

ObjInv == AttachmentsHaveObjects /\ StoredHaveObjects /\ LinkedObjectsExist

\* What a worker has in hand are bytes of the job's image.
LEMMA HeldBytes ==
    ASSUME TableInv, RInv, NEW w \in Workers, NEW j \in JobIds,
           hand[w][j].at \in HasBytes
    PROVE  Serves(jobs[j].media, hand[w][j].content)
<1> DEFINE m == jobs[j].media
<1>1. j \in Rows /\ TypeOK
  BY DEF TableInv, HandsHoldRows, HasBytes
<1>2. m \in Media
  BY <1>1, RowsAreJobs, Fields
<1>3. PICK n \in 1 .. published[m] : Revisions[m][n] = hand[w][j].content
  BY DEF RInv, BytesAreCurrent, Shows
<1>4. Revisions[m] \in Seq(Contents)
  BY <1>2, ConstantsAssumption
<1>5. n \in 1 .. Len(Revisions[m])
  <2>1. published[m] \in Nat /\ Len(Revisions[m]) \in Nat
    BY <1>1, <1>2, <1>4 DEF TypeOK
  <2> QED
    BY <1>2, <1>3, <2>1 DEF TableInv, FeedInOrder
<1> QED
  BY <1>3, <1>5 DEF Serves

\* Objects are only added; whoever comes to believe its bytes stored, and every
\* new attachment row and link, has an object.
LEMMA ObjectsPreserved ==
    ASSUME ObjInv, TableInv, \A j \in Rows : Evolves(jobs[j], jobs'[j]),
           objects \subseteq objects',
           \A c \in attachments' \ attachments :
               \E m \in Media : Serves(m, c) /\ ObjectKey(m, c) \in objects',
           \A w \in Workers, j \in JobIds : hand'[w][j].at \in HasStored =>
               \/ hand[w][j].at \in HasStored /\ hand'[w][j].content = hand[w][j].content
               \/ j \in Rows /\ ObjectKey(jobs[j].media, hand'[w][j].content) \in objects',
           \A m \in Media : link'[m] = link[m] \/ ObjectKey(m, link'[m]) \in objects'
    PROVE  ObjInv'
<1>1. AttachmentsHaveObjects'
  BY DEF ObjInv, AttachmentsHaveObjects, ObjectKey, Serves
<1>2. StoredHaveObjects'
  <2> SUFFICES ASSUME NEW w \in Workers, NEW j \in JobIds, hand'[w][j].at \in HasStored
               PROVE  ObjectKey(jobs'[j].media, hand'[w][j].content) \in objects'
    BY DEF StoredHaveObjects, ObjectKey
  <2>1. j \in Rows /\ ObjectKey(jobs[j].media, hand'[w][j].content) \in objects'
    BY DEF ObjInv, StoredHaveObjects, TableInv, HandsHoldRows, HasStored
  <2> QED
    BY <2>1 DEF Evolves
<1>3. LinkedObjectsExist'
  BY DEF ObjInv, LinkedObjectsExist, ObjectKey
<1> QED
  BY <1>1, <1>2, <1>3 DEF ObjInv

\* Every step but those of a worker with bytes.
LEMMA QuietStorage ==
    ASSUME ObjInv, TableInv, \A j \in Rows : Evolves(jobs[j], jobs'[j]),
           UNCHANGED <<storage, link>>,
           \A w \in Workers, j \in JobIds : \/ hand'[w][j] = hand[w][j]
                                            \/ hand'[w][j].at \notin HasStored
    PROVE  ObjInv'
<1>1. objects \subseteq objects' /\ attachments' = attachments /\ link' = link
  BY DEF storage
<1> QED
  BY <1>1, ObjectsPreserved

\* A step of processJob that touches one hand.
LEMMA OneHand ==
    ASSUME TypeOK, NEW w \in Workers, NEW j \in JobIds, NEW h, SetHand(w, j, h)
    PROVE  /\ hand'[w][j] = h
           /\ \A v \in Workers, i \in JobIds : ~(v = w /\ i = j) => hand'[v][i] = hand[v][i]
  BY DEF TypeOK, SetHand

LEMMA DeduplicateObj ==
    ASSUME OwnBytes, TableInv, RInv, ObjInv, NEW w \in Workers, NEW j \in JobIds,
           Deduplicate(w, j), \A i \in Rows : Evolves(jobs[i], jobs'[i])
    PROVE  ObjInv'
<1> DEFINE mine == hand[w][j]
           m == jobs[j].media
<1>1. /\ TypeOK /\ mine \in Hand /\ mine.at = "downloaded" /\ j \in Rows
      /\ UNCHANGED <<storage, link>>
  BY DEF TableInv, TypeOK, HandsHoldRows, Deduplicate
<1>2. m \in Media /\ mine.content \in Contents
  BY <1>1, RowsAreJobs, Fields DEF Hand
<1>3. Serves(m, mine.content)
  BY <1>1, HeldBytes DEF HasBytes
<1> DEFINE h == [mine EXCEPT !.at = IF HasAttachment(w, j) THEN "stored" ELSE "uploading"]
<1>4. SetHand(w, j, h)
  BY DEF Deduplicate
<1>5. /\ h.content = mine.content
      /\ h.at \in HasStored => mine.content \in attachments
  BY <1>1 DEF Hand, Hands, HasAttachment, HasStored
<1> HIDE DEF h
<1>6. mine.content \in attachments => ObjectKey(m, mine.content) \in objects
  BY <1>2, <1>3 DEF ObjInv, AttachmentsHaveObjects, OwnBytes
<1>7. /\ hand'[w][j] = h
      /\ \A v \in Workers, i \in JobIds : ~(v = w /\ i = j) => hand'[v][i] = hand[v][i]
  BY <1>1, <1>4, OneHand
<1> QED
  BY <1>1, <1>5, <1>6, <1>7, ObjectsPreserved DEF storage

LEMMA StoreObj ==
    ASSUME TableInv, RInv, ObjInv, NEW w \in Workers, NEW j \in JobIds,
           Store(w, j), \A i \in Rows : Evolves(jobs[i], jobs'[i])
    PROVE  ObjInv'
<1> DEFINE mine == hand[w][j]
           m == jobs[j].media
<1>1. /\ TypeOK /\ mine \in Hand /\ mine.at = "uploading" /\ j \in Rows
      /\ link' = link
      /\ objects' = objects \cup {ObjectKey(m, mine.content)}
      /\ attachments' = attachments \cup {mine.content}
  BY DEF TableInv, TypeOK, HandsHoldRows, Store
<1>2. m \in Media /\ Serves(m, mine.content)
  BY <1>1, RowsAreJobs, Fields, HeldBytes DEF HasBytes
<1> DEFINE h == IF HasAttachment(w, j) THEN [Idle EXCEPT !.at = "failing"]
                                       ELSE [mine EXCEPT !.at = "stored"]
<1>3. SetHand(w, j, h)
  BY DEF Store
<1>4. h.at \in HasStored => h.content = mine.content
  BY <1>1 DEF Hand, Hands, HasStored, Idle
<1> HIDE DEF h
<1>5. /\ hand'[w][j] = h
      /\ \A v \in Workers, i \in JobIds : ~(v = w /\ i = j) => hand'[v][i] = hand[v][i]
  BY <1>1, <1>3, OneHand
<1> QED
  BY <1>1, <1>2, <1>4, <1>5, ObjectsPreserved

LEMMA SucceedObj ==
    ASSUME TableInv, ObjInv, NEW w \in Workers, NEW j \in JobIds,
           Succeed(w, j), \A i \in Rows : Evolves(jobs[i], jobs'[i])
    PROVE  ObjInv'
<1> DEFINE mine == hand[w][j]
<1>1. /\ TypeOK /\ mine \in Hand /\ mine.at = "stored" /\ UNCHANGED <<storage, link>>
  BY DEF TableInv, TypeOK, Succeed
<1> DEFINE h == IF StillMine(w, j) THEN [mine EXCEPT !.at = "linking"] ELSE Idle
<1>2. SetHand(w, j, h)
  BY DEF Succeed
<1>3. h.at \in HasStored => h.content = mine.content
  BY <1>1 DEF Hand, Hands, HasStored, Idle
<1> HIDE DEF h
<1>4. /\ hand'[w][j] = h
      /\ \A v \in Workers, i \in JobIds : ~(v = w /\ i = j) => hand'[v][i] = hand[v][i]
  BY <1>1, <1>2, OneHand
<1> QED
  BY <1>1, <1>3, <1>4, ObjectsPreserved DEF storage, HasStored

LEMMA LinkObj ==
    ASSUME TableInv, ObjInv, NEW w \in Workers, NEW j \in JobIds,
           LinkMedia(w, j), \A i \in Rows : Evolves(jobs[i], jobs'[i])
    PROVE  ObjInv'
<1> DEFINE mine == hand[w][j]
           m == jobs[j].media
<1>1. /\ TypeOK /\ mine.at = "linking" /\ j \in Rows
      /\ UNCHANGED storage /\ link' = [link EXCEPT ![m] = mine.content]
      /\ SetHand(w, j, Idle)
  BY DEF TableInv, HandsHoldRows, LinkMedia
<1>2. ObjectKey(m, mine.content) \in objects
  BY <1>1 DEF ObjInv, StoredHaveObjects, HasStored
<1>3. \A n \in Media : link'[n] = link[n] \/ ObjectKey(n, link'[n]) \in objects
  BY <1>1, <1>2 DEF TypeOK
<1>4. /\ hand'[w][j] = Idle
      /\ \A v \in Workers, i \in JobIds : ~(v = w /\ i = j) => hand'[v][i] = hand[v][i]
  BY <1>1, OneHand
<1> QED
  BY <1>1, <1>3, <1>4, ObjectsPreserved DEF storage, HasStored, Idle

LEMMA StepKeepsObjects ==
    ASSUME OwnBytes, TableInv, RInv, ObjInv, [Next]_vars
    PROVE  ObjInv'
<1>1. TypeOK /\ \A j \in Rows : Evolves(jobs[j], jobs'[j])
  BY NextTableInv DEF TableInv
<1>2. hand \in [Workers -> [JobIds -> Hand]]
  BY <1>1 DEF TypeOK
<1>3. CASE UNCHANGED <<storage, link, hand>>
  BY <1>1, <1>3, QuietStorage
<1>4. CASE \E m \in Media : Publish(m)
  BY <1>3, <1>4 DEF Publish, workVars
<1>5. CASE \E l \in Listings : Tombstone(l)
  BY <1>3, <1>5 DEF Tombstone, workVars
<1>6. CASE \E e \in Enqueuers : Enqueue(e)
  BY <1>3, <1>6 DEF Enqueue, Collect, ReadBlocking, InsertJobs, LoseEnqueue, workVars
<1>7. CASE \E j \in JobIds : LeaseRunsOut(j)
  BY <1>3, <1>7 DEF LeaseRunsOut, workVars
<1>8. ASSUME NEW w \in Workers,
             \/ Reap(w) \/ ReapFails(w) \/ FindNothing(w) \/ EndCycle(w)
      PROVE  ObjInv'
  BY <1>3, <1>8 DEF Reap, ReapFails, FindNothing, EndCycle
<1>9. ASSUME NEW w \in Workers, Claim(w) \/ AbortCycle(w)
      PROVE  ObjInv'
  <2>1. \A v \in Workers, j \in JobIds : \/ hand'[v][j] = hand[v][j]
                                         \/ hand'[v][j].at \in {"idle", "claimed"}
    BY <1>2, <1>9 DEF Claim, AbortCycle, Idle
  <2>2. UNCHANGED <<storage, link>>
    BY <1>9 DEF Claim, AbortCycle
  <2> QED
    BY <1>1, <2>1, <2>2, QuietStorage DEF HasStored
<1>10. ASSUME NEW w \in Workers, NEW j \in JobIds, NEW h,
              SetHand(w, j, h), h.at \notin HasStored, UNCHANGED <<storage, link>>
       PROVE  ObjInv'
  BY <1>1, <1>10, OneHand, QuietStorage
<1>11. ASSUME NEW w \in Workers, NEW j \in JobIds, ProcessJob(w, j) \/ LinkFails(w, j)
       PROVE  ObjInv'
  <2> DEFINE mine == hand[w][j]
  <2>1. mine \in Hands
    BY <1>2 DEF Hand
  <2>2. CASE Deduplicate(w, j) \/ Store(w, j) \/ Succeed(w, j) \/ LinkMedia(w, j)
    BY <1>1, <2>2, DeduplicateObj, StoreObj, SucceedObj, LinkObj
  <2>3. CASE Download(w, j)
    <3>1. PICK bytes : SetHand(w, j, [mine EXCEPT !.at = "downloaded", !.content = bytes])
      BY <2>3 DEF Download
    <3> DEFINE h == [mine EXCEPT !.at = "downloaded", !.content = bytes]
    <3>2. h.at \notin HasStored
      BY <2>1 DEF Hands, HasStored
    <3>3. SetHand(w, j, h)
      BY <3>1
    <3> HIDE DEF h
    <3> QED
      BY <1>10, <2>3, <3>2, <3>3 DEF Download
  <2>4. CASE StepFails(w, j)
    <3>1. PICK full : SetHand(w, j, [Idle EXCEPT !.at = "failing", !.full = full])
      BY <2>4 DEF StepFails
    <3> DEFINE h == [Idle EXCEPT !.at = "failing", !.full = full]
    <3>2. h.at \notin HasStored
      BY DEF Idle, HasStored
    <3>3. SetHand(w, j, h)
      BY <3>1
    <3> HIDE DEF h
    <3> QED
      BY <1>10, <2>4, <3>2, <3>3 DEF StepFails
  <2>5. CASE ReadAttempts(w, j)
    <3> DEFINE h == [mine EXCEPT !.at = "failed", !.attempts = jobs[j].attempts]
    <3>1. h.at \notin HasStored
      BY <2>1 DEF Hands, HasStored
    <3>2. SetHand(w, j, h)
      BY <2>5 DEF ReadAttempts
    <3> HIDE DEF h
    <3> QED
      BY <1>10, <2>5, <3>1, <3>2 DEF ReadAttempts
  <2>6. CASE Fail(w, j) \/ LinkFails(w, j)
    <3>1. Idle.at \notin HasStored
      BY DEF Idle, HasStored
    <3>2. SetHand(w, j, Idle) /\ UNCHANGED <<storage, link>>
      BY <2>6 DEF Fail, LinkFails
    <3> QED
      BY <1>10, <3>1, <3>2
  <2> QED
    BY <1>11, <2>2, <2>3, <2>4, <2>5, <2>6 DEF ProcessJob
<1>12. CASE UNCHANGED vars
  BY <1>3, <1>12 DEF vars, workVars
<1>13. CASE \E w \in Workers : \/ RunCycle(w) \/ ReapFails(w) \/ AbortCycle(w)
                               \/ \E j \in JobIds : LinkFails(w, j)
  BY <1>8, <1>9, <1>11, <1>13 DEF RunCycle
<1> QED
  BY <1>4, <1>5, <1>6, <1>7, <1>12, <1>13 DEF Next

(***************************************************************************)
(* The image endpoint finds what a media row links to as long as no two    *)
(* images have the same bytes: the deduplication by sha256 alone is what   *)
(* can leave a link without its object, and neither a crash nor a lost     *)
(* claim nor an upload that two workers make at once does.                 *)
(***************************************************************************)
THEOREM OwnBytesAreServed ==
    ASSUME OwnBytes
    PROVE  Spec => []LinkedObjectsExist
<1>1. Init => TableInv /\ RInv /\ ObjInv
  <2>1. Init => RInv /\ ObjInv
    BY DEF Init, RInv, RevisionsAreSaved, WantsArePublished, BytesAreCurrent,
           SuccessIsCurrent, Rows, IdleCall, Idle, HasBytes, ObjInv, HasStored,
           AttachmentsHaveObjects, StoredHaveObjects, LinkedObjectsExist
  <2> QED
    BY <2>1, InitIInv DEF IInv
<1>2. TableInv /\ RInv /\ ObjInv /\ [Next]_vars => (TableInv /\ RInv /\ ObjInv)'
  <2> SUFFICES ASSUME TableInv, RInv, ObjInv, [Next]_vars
               PROVE  TableInv' /\ RInv' /\ ObjInv'
    OBVIOUS
  <2>1. TableInv' /\ \A j \in Rows : Evolves(jobs[j], jobs'[j])
    BY NextTableInv
  <2> QED
    BY <2>1, RowsStay, StepKeepsRevisions, RevisionsPreserved, StepKeepsObjects
<1>3. ObjInv => LinkedObjectsExist
  BY DEF ObjInv
<1> QED
  BY <1>1, <1>2, <1>3, PTL DEF Spec

----------------------------------------------------------------------------
(* One job per revision *)

\* Every payload shows a timestamp, so every wanted revision has a number.
WantsAreTimed == \A e \in Enqueuers : \A x \in enq[e].wanted : x.rev > 0

RowsAreTimed == \A j \in Rows : jobs[j].rev > 0

WantsAreDistinct ==
    \A e \in Enqueuers : \A x, y \in enq[e].wanted : x.media = y.media => x = y

\* What was not covered when it was looked up is newer than all that blocks: jobs
\* may leave the blocking statuses since, and none comes to them.
WantsAreNewer ==
    \A e \in Enqueuers : enq[e].at = "read" =>
        \A x \in enq[e].wanted : \A j \in BlockingJobs(x.media) : jobs[j].rev < x.rev

OInv ==
    /\ WantsAreTimed
    /\ RowsAreTimed
    /\ WantsAreDistinct
    /\ WantsAreNewer
    /\ OneJobPerRevision

LEMMA SameRows ==
    ASSUME TableInv, [Next]_vars, \A e \in Enqueuers : ~InsertJobs(e)
    PROVE  Rows' = Rows
<1>1. TypeOK /\ HandsHoldRows /\ CountIsCurrent
  BY DEF TableInv
<1>2. CASE UNCHANGED jobs
  BY <1>2 DEF Rows
<1>3. ASSUME NEW l \in Listings, Tombstone(l) PROVE Rows' = Rows
  BY <1>1, <1>3, TombstoneEvolve DEF RowsEvolve
<1>4. ASSUME NEW w \in Workers, Reap(w) \/ Claim(w) PROVE Rows' = Rows
  BY <1>1, <1>4, ReapEvolve, ClaimEvolve DEF RowsEvolve
<1>5. ASSUME NEW w \in Workers, NEW j \in JobIds, Succeed(w, j) \/ Fail(w, j)
      PROVE  Rows' = Rows
  <2>1. j \in Rows
    BY <1>1, <1>5 DEF HandsHoldRows, Succeed, Fail
  <2> QED
    BY <1>1, <1>5, <2>1, SucceedStep, FailStep DEF RowsEvolve
<1>6. ASSUME NEW j \in JobIds, LeaseRunsOut(j) PROVE Rows' = Rows
  <2>1. j \in Rows
    BY <1>6 DEF LeaseRunsOut
  <2> QED
    BY <1>1, <1>6, <2>1, LeaseEvolve DEF RowsEvolve
<1>7. ASSUME NEW w \in Workers,
             \/ RunCycle(w) \/ ReapFails(w) \/ AbortCycle(w)
             \/ \E j \in JobIds : LinkFails(w, j)
      PROVE  Rows' = Rows
  <2>1. ASSUME NEW j \in JobIds, ProcessJob(w, j) \/ LinkFails(w, j)
        PROVE  Rows' = Rows
    <3>1. CASE Succeed(w, j) \/ Fail(w, j)
      BY <1>5, <3>1
    <3>2. CASE \/ Download(w, j) \/ Deduplicate(w, j) \/ Store(w, j) \/ StepFails(w, j)
               \/ LinkMedia(w, j) \/ ReadAttempts(w, j) \/ LinkFails(w, j)
      <4>1. UNCHANGED jobs
        BY <3>2 DEF Download, Deduplicate, Store, StepFails, LinkMedia, ReadAttempts,
                    LinkFails
      <4> QED
        BY <1>2, <4>1
    <3> QED
      BY <2>1, <3>1, <3>2 DEF ProcessJob
  <2>2. CASE FindNothing(w) \/ EndCycle(w) \/ ReapFails(w) \/ AbortCycle(w)
    BY <1>2, <2>2 DEF FindNothing, EndCycle, ReapFails, AbortCycle
  <2> QED
    BY <1>4, <1>7, <2>1, <2>2 DEF RunCycle
<1>8. ASSUME NEW e \in Enqueuers, Enqueue(e) PROVE Rows' = Rows
  BY <1>2, <1>8 DEF Enqueue, Collect, ReadBlocking, LoseEnqueue
<1>9. CASE \E m \in Media : Publish(m)
  BY <1>2, <1>9 DEF Publish
<1> QED
  BY <1>2, <1>3, <1>6, <1>7, <1>8, <1>9 DEF Next, vars

\* A job that blocks now has blocked before, with the same image and revision.
LEMMA BlockersStay ==
    ASSUME TypeOK, NEW j \in Rows, Evolves(jobs[j], jobs'[j]), RowKeeps(j)
    PROVE  /\ jobs'[j].media = jobs[j].media /\ jobs'[j].rev = jobs[j].rev
           /\ jobs'[j].status \in Blocking => jobs[j].status \in Blocking
<1>1. jobs[j] \in Job
  BY RowsAreJobs
<1>2. jobs[j].status \in Active \cup Finished
  BY <1>1, Fields
<1> QED
  BY <1>2 DEF Evolves, RowKeeps, Blocking, Active, Finished

\* Steps that neither look jobs up nor insert any.
LEMMA OrderPreserved ==
    ASSUME TableInv, TableInv', OInv, Rows' = Rows, RowsKeep,
           \A j \in Rows : Evolves(jobs[j], jobs'[j]),
           \A e \in Enqueuers : /\ enq'[e].wanted \subseteq enq[e].wanted
                                /\ enq'[e].at = "read" => enq[e].at = "read"
    PROVE  OInv'
<1>1. TypeOK
  BY DEF TableInv
<1>2. \A j \in Rows : /\ jobs'[j].media = jobs[j].media /\ jobs'[j].rev = jobs[j].rev
                      /\ jobs'[j].status \in Blocking => jobs[j].status \in Blocking
  BY <1>1, BlockersStay DEF RowsKeep
<1>3. WantsAreTimed' /\ RowsAreTimed' /\ WantsAreDistinct'
  BY <1>2 DEF OInv, WantsAreTimed, RowsAreTimed, WantsAreDistinct
<1>4. WantsAreNewer'
  BY <1>2 DEF OInv, WantsAreNewer, BlockingJobs
<1>5. OneJobPerRevision'
  BY <1>2 DEF OInv, OneJobPerRevision, Blocking, Active
<1> QED
  BY <1>3, <1>4, <1>5 DEF OInv

\* The look-up: what the newest blocking job does not cover is newer than all.
LEMMA LookUpPreserves ==
    ASSUME TableInv, TableInv', OInv, NEW e \in Enqueuers, ReadBlocking(e)
    PROVE  OInv'
<1>1. /\ TypeOK /\ enq \in [Enqueuers -> Call] /\ jobs' = jobs /\ Rows' = Rows
      /\ enq' = [enq EXCEPT ![e] = [at |-> "read",
                                    wanted |-> {x \in enq[e].wanted : ~Covered(x)}]]
  BY DEF TableInv, TypeOK, ReadBlocking, Rows
<1>2. \A d \in Enqueuers : enq'[d].wanted \subseteq enq[d].wanted
  BY <1>1
<1>3. WantsAreTimed' /\ RowsAreTimed' /\ WantsAreDistinct'
  BY <1>1, <1>2 DEF OInv, WantsAreTimed, RowsAreTimed, WantsAreDistinct
<1>4. ASSUME NEW x \in enq[e].wanted, ~Covered(x), NEW j \in BlockingJobs(x.media)
      PROVE  jobs[j].rev < x.rev
  <2> DEFINE blockers == BlockingJobs(x.media)
  <2>1. PICK n \in Nat : n <= MaxJobs /\ Rows = 1 .. n
    BY DEF TableInv, RowsInOrder
  <2>2. \A i \in blockers : i \in Rows /\ i \in 1 .. n
    BY <2>1 DEF BlockingJobs
  \* The newest of them.
  <2>3. PICK top \in blockers : \A i \in blockers : i <= top
    <3> DEFINE T == {n - i : i \in blockers}
    <3>1. T \subseteq Nat /\ T # {}
      BY <2>1, <2>2
    <3>2. PICK d \in T : \A y \in T : ~(<<y, d>> \in OpToRel(<, Nat))
      <4> HIDE DEF T
      <4> QED
        BY <3>1, NatLessThanWellFounded, WFMin, Zenon
    <3>3. PICK top \in blockers : d = n - top
      BY <3>2
    <3>4. ASSUME NEW i \in blockers PROVE i <= top
      <4>1. n - i \in T /\ n - i \in Nat /\ n - top \in Nat
        BY <2>1, <2>2, <3>1, <3>3
      <4>2. ~(n - i < n - top)
        BY <3>2, <3>3, <4>1, Zenon DEF OpToRel
      <4> QED
        BY <2>1, <2>2, <4>2
    <3> QED
      BY <3>4
  <2>4. x.rev \in Nat /\ x.rev > 0
    BY <1>1 DEF Call, Want, OInv, WantsAreTimed
  <2>5. \A i \in blockers : jobs[i].rev \in Nat /\ jobs[i].rev > 0
    BY <1>1, <2>2, RowsAreJobs, Fields DEF OInv, RowsAreTimed
  <2>6. jobs[top].rev < x.rev
    BY <1>4, <2>3, <2>4, <2>5 DEF Covered
  <2>7. j = top \/ j < top
    BY <2>1, <2>2, <2>3
  <2>8. j < top => jobs[j].rev < jobs[top].rev
    <3>1. /\ j \in Rows /\ top \in Rows /\ jobs[top].rev # 0
          /\ jobs[j].media = jobs[top].media
          /\ jobs[j].status \in Active \cup {"succeeded"}
          /\ jobs[top].status \in Active \cup {"succeeded"}
      BY <2>5 DEF BlockingJobs, Blocking, Active
    <3> QED
      BY <3>1 DEF OInv, OneJobPerRevision
  <2> QED
    BY <2>4, <2>5, <2>6, <2>7, <2>8
<1>5. WantsAreNewer'
  <2>1. ASSUME NEW d \in Enqueuers, enq'[d].at = "read", NEW x \in enq'[d].wanted,
               NEW j \in BlockingJobs(x.media)
        PROVE  jobs[j].rev < x.rev
    <3>1. CASE d = e
      BY <1>1, <1>4, <2>1, <3>1
    <3>2. CASE d # e
      BY <1>1, <2>1, <3>2 DEF OInv, WantsAreNewer
    <3> QED
      BY <3>1, <3>2
  <2> QED
    BY <1>1, <2>1 DEF WantsAreNewer, BlockingJobs
<1>6. OneJobPerRevision'
  BY <1>1 DEF OInv, OneJobPerRevision
<1> QED
  BY <1>3, <1>5, <1>6 DEF OInv

LEMMA CollectPreserves ==
    ASSUME TableInv, TableInv', OInv, Untimed = {}, NEW e \in Enqueuers, Collect(e)
    PROVE  OInv'
<1>1. /\ TypeOK /\ enq \in [Enqueuers -> Call] /\ jobs' = jobs /\ Rows' = Rows
      /\ published \in [Media -> Nat]
  BY DEF TableInv, TypeOK, Collect, Rows
<1>2. PICK ms \in SUBSET {m \in Media : published[m] > 0} :
        \E rev \in [ms -> UNION {Timestamps(m) : m \in ms}] :
          /\ \A m \in ms : rev[m] \in Timestamps(m)
          /\ enq' = [enq EXCEPT ![e] =
                [at |-> "collected",
                 wanted |-> {[media |-> m, rev |-> rev[m]] : m \in ms}]]
  BY Zenon DEF Collect
<1>3. PICK rev \in [ms -> UNION {Timestamps(m) : m \in ms}] :
          /\ \A m \in ms : rev[m] \in Timestamps(m)
          /\ enq' = [enq EXCEPT ![e] =
                [at |-> "collected",
                 wanted |-> {[media |-> m, rev |-> rev[m]] : m \in ms}]]
  BY <1>2, Zenon
<1>4. /\ enq'[e].at = "collected"
      /\ enq'[e].wanted = {[media |-> m, rev |-> rev[m]] : m \in ms}
      /\ \A d \in Enqueuers : d # e => enq'[d] = enq[d]
  BY <1>1, <1>3
<1>5. \A m \in ms : rev[m] > 0
  BY <1>1, <1>3 DEF Timestamps
<1>6. WantsAreTimed'
  BY <1>4, <1>5 DEF OInv, WantsAreTimed
<1>7. WantsAreDistinct'
  BY <1>4 DEF OInv, WantsAreDistinct
<1>8. WantsAreNewer'
  BY <1>1, <1>4 DEF OInv, WantsAreNewer, BlockingJobs
<1>9. RowsAreTimed' /\ OneJobPerRevision'
  BY <1>1 DEF OInv, RowsAreTimed, OneJobPerRevision
<1> QED
  BY <1>6, <1>7, <1>8, <1>9 DEF OInv

\* Here it matters that nobody else inserts between the look-up and the insert.
LEMMA InsertPreserves ==
    ASSUME TableInv, TableInv', OInv, NEW e, Enqueuers = {e}, InsertJobs(e)
    PROVE  OInv'
<1>1. /\ TypeOK /\ enq \in [Enqueuers -> Call] /\ Rows \subseteq Rows'
      /\ enq' = [enq EXCEPT ![e] = IdleCall] /\ enq[e].at = "read"
  BY InsertStep DEF TableInv, TypeOK, InsertJobs
<1>2. \A d \in Enqueuers : enq'[d].wanted = {} /\ enq'[d].at # "read"
  BY <1>1 DEF IdleCall
<1>3. WantsAreTimed' /\ WantsAreDistinct' /\ WantsAreNewer'
  BY <1>2 DEF WantsAreTimed, WantsAreDistinct, WantsAreNewer
<1>4. ASSUME NEW j \in Rows' \ Rows
      PROVE  \E x \in enq[e].wanted :
                jobs'[j] = NewJob(x) /\ jobs'[j].media = x.media /\ jobs'[j].rev = x.rev
  BY InsertedRows DEF NewJob
<1>5. RowsAreTimed'
  <2>1. ASSUME NEW j \in Rows' PROVE jobs'[j].rev > 0
    <3>1. CASE j \in Rows
      BY <3>1, InsertedRows DEF OInv, RowsAreTimed
    <3>2. CASE j \notin Rows
      BY <1>4, <2>1, <3>2 DEF OInv, WantsAreTimed
    <3> QED
      BY <3>1, <3>2
  <2> QED
    BY <2>1 DEF RowsAreTimed
<1>6. ASSUME NEW i \in Rows', NEW j \in Rows', i < j,
             jobs'[i].media = jobs'[j].media,
             jobs'[i].status \in Active \cup {"succeeded"},
             jobs'[j].status \in Active \cup {"succeeded"}, jobs'[j].rev # 0
      PROVE  jobs'[i].rev < jobs'[j].rev
  <2>1. CASE i \in Rows /\ j \in Rows
    BY <1>6, <2>1, InsertedRows DEF OInv, OneJobPerRevision
  <2>2. CASE i \in Rows /\ j \notin Rows
    <3>1. PICK x \in enq[e].wanted : jobs'[j].media = x.media /\ jobs'[j].rev = x.rev
      BY <1>4, <1>6, <2>2
    <3>2. jobs'[i] = jobs[i]
      BY <2>2, InsertedRows
    <3>3. i \in BlockingJobs(x.media)
      BY <1>6, <2>2, <3>1, <3>2 DEF BlockingJobs, Blocking, Active
    <3> QED
      BY <1>1, <3>1, <3>2, <3>3 DEF OInv, WantsAreNewer
  <2>3. CASE i \notin Rows /\ j \in Rows
    <3>1. j < i /\ i \in JobIds /\ j \in JobIds
      BY <1>6, <2>3, InsertedRows DEF Rows
    <3> QED
      BY <1>6, <3>1, ConstantsAssumption DEF JobIds
  <2>4. CASE i \notin Rows /\ j \notin Rows
    <3>1. PICK x \in enq[e].wanted : jobs'[i] = NewJob(x) /\ jobs'[i].media = x.media
      BY <1>4, <1>6, <2>4
    <3>2. PICK y \in enq[e].wanted : jobs'[j] = NewJob(y) /\ jobs'[j].media = y.media
      BY <1>4, <1>6, <2>4
    <3>3. x = y
      BY <1>6, <3>1, <3>2 DEF OInv, WantsAreDistinct
    <3>4. i = j /\ i \in JobIds
      BY <1>6, <2>4, <3>1, <3>2, <3>3, InsertedRows DEF Rows
    <3> QED
      BY <1>6, <3>4, ConstantsAssumption DEF JobIds
  <2> QED
    BY <2>1, <2>2, <2>3, <2>4
<1>7. OneJobPerRevision'
  BY <1>6 DEF OneJobPerRevision
<1> QED
  BY <1>3, <1>5, <1>7 DEF OInv

\* Only an enqueuer changes what is wanted.
LEMMA OthersKeepCalls ==
    ASSUME TableInv, [Next]_vars,
           \A e \in Enqueuers : ~InsertJobs(e) /\ ~Collect(e) /\ ~ReadBlocking(e)
    PROVE  \A e \in Enqueuers : /\ enq'[e].wanted \subseteq enq[e].wanted
                                /\ enq'[e].at = "read" => enq[e].at = "read"
<1>1. enq \in [Enqueuers -> Call]
  BY DEF TableInv, TypeOK
<1>2. CASE UNCHANGED enq
  BY <1>2
<1>3. ASSUME NEW e \in Enqueuers, LoseEnqueue(e)
      PROVE  enq' = [enq EXCEPT ![e] = IdleCall]
  BY <1>3 DEF LoseEnqueue
<1>4. CASE \E e \in Enqueuers : LoseEnqueue(e)
  BY <1>1, <1>3, <1>4 DEF IdleCall
<1>5. CASE \E w \in Workers : \/ RunCycle(w) \/ ReapFails(w) \/ AbortCycle(w)
                              \/ \E j \in JobIds : LinkFails(w, j)
  <2>1. PICK w \in Workers : \/ RunCycle(w) \/ ReapFails(w) \/ AbortCycle(w)
                              \/ \E j \in JobIds : LinkFails(w, j)
    BY <1>5
  <2>2. ASSUME NEW j \in JobIds, ProcessJob(w, j) PROVE UNCHANGED enq
    BY <2>2, Zenon DEF ProcessJob, Download, Deduplicate, Store, StepFails, Succeed,
                       LinkMedia, ReadAttempts, Fail
  <2>3. ASSUME RunCycle(w) PROVE UNCHANGED enq
    BY <2>2, <2>3 DEF RunCycle, Reap, Claim, FindNothing, EndCycle
  <2>4. ASSUME NEW j \in JobIds, LinkFails(w, j) PROVE UNCHANGED enq
    BY <2>4 DEF LinkFails
  <2>5. ASSUME ReapFails(w) \/ AbortCycle(w) PROVE UNCHANGED enq
    BY <2>5 DEF ReapFails, AbortCycle
  <2>6. UNCHANGED enq
    BY <2>1, <2>3, <2>4, <2>5
  <2> QED
    BY <1>2, <2>6
<1>6. CASE \/ \E m \in Media : Publish(m)
           \/ \E l \in Listings : Tombstone(l)
           \/ \E j \in JobIds : LeaseRunsOut(j)
  BY <1>2, <1>6 DEF Publish, Tombstone, LeaseRunsOut
<1> QED
  BY <1>2, <1>4, <1>5, <1>6 DEF Next, Enqueue, vars

LEMMA WantsStayTimed ==
    ASSUME TableInv, WantsAreTimed, Untimed = {}, [Next]_vars
    PROVE  WantsAreTimed'
<1>1. enq \in [Enqueuers -> Call] /\ published \in [Media -> Nat]
  BY DEF TableInv, TypeOK
<1>2. ASSUME NEW e \in Enqueuers, Collect(e) PROVE WantsAreTimed'
  <2>1. PICK ms \in SUBSET {m \in Media : published[m] > 0} :
          \E rev \in [ms -> UNION {Timestamps(m) : m \in ms}] :
            /\ \A m \in ms : rev[m] \in Timestamps(m)
            /\ enq' = [enq EXCEPT ![e] =
                  [at |-> "collected",
                   wanted |-> {[media |-> m, rev |-> rev[m]] : m \in ms}]]
    BY <1>2, Zenon DEF Collect
  <2>2. PICK rev \in [ms -> UNION {Timestamps(m) : m \in ms}] :
            /\ \A m \in ms : rev[m] \in Timestamps(m)
            /\ enq' = [enq EXCEPT ![e] =
                  [at |-> "collected",
                   wanted |-> {[media |-> m, rev |-> rev[m]] : m \in ms}]]
    BY <2>1, Zenon
  <2>3. /\ enq'[e].wanted = {[media |-> m, rev |-> rev[m]] : m \in ms}
        /\ \A d \in Enqueuers : d # e => enq'[d] = enq[d]
    BY <1>1, <2>2
  <2>4. \A m \in ms : rev[m] > 0
    BY <1>1, <2>2 DEF Timestamps
  <2> QED
    BY <2>3, <2>4 DEF WantsAreTimed
<1>3. ASSUME NEW e \in Enqueuers, ReadBlocking(e) \/ InsertJobs(e) PROVE WantsAreTimed'
  BY <1>1, <1>3 DEF ReadBlocking, InsertJobs, IdleCall, WantsAreTimed
<1>4. CASE \A e \in Enqueuers : ~InsertJobs(e) /\ ~Collect(e) /\ ~ReadBlocking(e)
  <2>1. \A e \in Enqueuers : enq'[e].wanted \subseteq enq[e].wanted
    BY <1>4, OthersKeepCalls
  <2> QED
    BY <2>1 DEF WantsAreTimed
<1> QED
  BY <1>2, <1>3, <1>4

(***************************************************************************)
(* With one enqueuer, and media whose payloads show their timestamps,      *)
(* enqueueing again adds nothing: of two jobs of an image that are queued, *)
(* running or done, the later one is for a newer revision.  Neither the    *)
(* cancellations nor the retries between look-up and insert spoil that.    *)
(***************************************************************************)
THEOREM OneJobEach ==
    ASSUME NEW e, Enqueuers = {e}, Untimed = {}
    PROVE  Spec => []OneJobPerRevision
<1>1. Init => TableInv /\ RInv /\ OInv
  <2>1. Init => OInv
    BY DEF Init, OInv, WantsAreTimed, RowsAreTimed, WantsAreDistinct, WantsAreNewer,
           OneJobPerRevision, Rows, IdleCall
  <2>2. Init => RInv
    BY DEF Init, RInv, RevisionsAreSaved, WantsArePublished, BytesAreCurrent,
           SuccessIsCurrent, Rows, IdleCall, Idle, HasBytes
  <2> QED
    BY <2>1, <2>2, InitIInv DEF IInv
<1>2. TableInv /\ RInv /\ OInv /\ [Next]_vars => (TableInv /\ RInv /\ OInv)'
  <2> SUFFICES ASSUME TableInv, RInv, OInv, [Next]_vars
               PROVE  TableInv' /\ RInv' /\ OInv'
    OBVIOUS
  <2>1. TableInv' /\ \A j \in Rows : Evolves(jobs[j], jobs'[j])
    BY NextTableInv
  <2>2. RowsKeep /\ RInv'
    BY <2>1, RowsStay, StepKeepsRevisions, RevisionsPreserved
  <2>3. CASE Collect(e) \/ ReadBlocking(e) \/ InsertJobs(e)
    <3>1. e \in Enqueuers
      OBVIOUS
    <3>2. OInv'
      BY <2>1, <2>3, <3>1, CollectPreserves, LookUpPreserves, InsertPreserves
    <3> QED
      BY <2>1, <2>2, <3>2
  <2>4. CASE ~Collect(e) /\ ~ReadBlocking(e) /\ ~InsertJobs(e)
    <3>1. \A d \in Enqueuers : ~InsertJobs(d) /\ ~Collect(d) /\ ~ReadBlocking(d)
      BY <2>4
    <3>2. \A d \in Enqueuers : /\ enq'[d].wanted \subseteq enq[d].wanted
                               /\ enq'[d].at = "read" => enq[d].at = "read"
      BY <3>1, OthersKeepCalls
    <3>3. Rows' = Rows
      BY <3>1, SameRows
    <3> QED
      BY <2>1, <2>2, <3>2, <3>3, OrderPreserved
  <2> QED
    BY <2>1, <2>2, <2>3, <2>4
<1>3. TableInv /\ RInv /\ OInv => OneJobPerRevision
  BY DEF OInv
<1> QED
  BY <1>1, <1>2, <1>3, PTL DEF Spec

----------------------------------------------------------------------------
(* The table as a queue *)

\* What JobQueue sees of a row.
LEMMA EntryFields ==
    ASSUME NEW job \in Job
    PROVE  /\ EntryOf(job) \in Queue!Entry
           /\ EntryOf(job).media = job.media /\ EntryOf(job).rev = job.rev
           /\ EntryOf(job).attempts = job.attempts
           /\ EntryOf(job).content = job.content
           /\ EntryOf(job).state = "waiting" <=> job.status \in {"pending", "retrying"}
           /\ \A s \in {"in_progress", "succeeded"} :
                 EntryOf(job).state = s <=> job.status = s
  BY DEF EntryOf, Queue!Entry, Job, Active, Finished

LEMMA Selections ==
    ASSUME TypeOK
    PROVE  /\ Queue!In("waiting") = Claimable
           /\ \A s \in {"in_progress", "succeeded"} :
                 Queue!In(s) = {j \in Rows : jobs[j].status = s}
<1>1. \A j \in Rows : jobs[j] \in Job
  BY RowsAreJobs
<1> QED
  BY <1>1, EntryFields DEF Queue!In, Claimable

\* Steps that JobQueue cannot tell from none at all.
LEMMA QueueStutters ==
    ASSUME UNCHANGED <<published, link>>, Rows' = Rows,
           \A j \in Rows : EntryOf(jobs'[j]) = EntryOf(jobs[j])
    PROVE  UNCHANGED Queue!queueVars
  BY DEF Queue!queueVars

LEMMA QueueMoves ==
    ASSUME UNCHANGED <<published, link>>, Rows' = Rows,
           NEW js \in SUBSET Rows, NEW state,
           \A j \in js :
              EntryOf(jobs'[j]) = [EntryOf(jobs[j]) EXCEPT !.state = state],
           \A j \in Rows \ js : jobs'[j] = jobs[j]
    PROVE  Queue!Move(js, state)
  BY DEF Queue!Move

\* A row whose status alone, of what JobQueue sees, is set.
LEMMA CancelEntry ==
    ASSUME NEW job \in Job
    PROVE  EntryOf(CancelJob(job)) = [EntryOf(job) EXCEPT !.state = "canceled"]
  BY DEF EntryOf, CancelJob, Job

LEMMA ReturnEntry ==
    ASSUME NEW job \in Job
    PROVE  EntryOf(ReturnJob(job)) = [EntryOf(job) EXCEPT !.state = "waiting"]
  BY DEF EntryOf, ReturnJob, Job

LEMMA ClaimEntry ==
    ASSUME NEW job \in Job, NEW w \in Workers
    PROVE  EntryOf(ClaimJob(job, w)) = [EntryOf(job) EXCEPT !.state = "in_progress"]
  BY DEF EntryOf, ClaimJob, Job

LEMMA RecordOfFive ==
    ASSUME NEW m, NEW r, NEW a, NEW c, NEW s, NEW x,
           NEW e, e = [media |-> m, rev |-> r, attempts |-> a, content |-> c, state |-> s]
    PROVE  /\ [e EXCEPT !.content = x] =
                 [media |-> m, rev |-> r, attempts |-> a, content |-> x, state |-> s]
           /\ [e EXCEPT !.attempts = x] =
                 [media |-> m, rev |-> r, attempts |-> x, content |-> c, state |-> s]
  OBVIOUS

LEMMA SucceedEntry ==
    ASSUME NEW job \in Job, NEW c, NEW new,
           new = [job EXCEPT !.status = "succeeded", !.content = c]
    PROVE  EntryOf(new) = [EntryOf(job) EXCEPT !.state = "succeeded", !.content = c]
<1>1. /\ new.media = job.media /\ new.rev = job.rev /\ new.attempts = job.attempts
      /\ new.status = "succeeded" /\ new.content = c
  BY DEF Job
<1>2. EntryOf(new) = [media |-> job.media, rev |-> job.rev, attempts |-> job.attempts,
                      content |-> c, state |-> "succeeded"]
  BY <1>1 DEF EntryOf
<1> DEFINE e == EntryOf(job)
<1>3. /\ e \in Queue!Entry /\ e.media = job.media /\ e.rev = job.rev
      /\ e.attempts = job.attempts /\ e.content = job.content
  BY EntryFields
<1> DEFINE f == [e EXCEPT !.state = "succeeded"]
<1> HIDE DEF e
<1>4. f = [media |-> e.media, rev |-> e.rev, attempts |-> e.attempts,
           content |-> e.content, state |-> "succeeded"]
  BY <1>3 DEF Queue!Entry
<1>5. [e EXCEPT !.state = "succeeded", !.content = c] = [f EXCEPT !.content = c]
  OBVIOUS
<1> HIDE DEF f
<1>6. EntryOf(new) = [f EXCEPT !.content = c]
  BY <1>2, <1>3, <1>4, RecordOfFive
<1> QED
  BY <1>5, <1>6 DEF e

LEMMA PublishQueues ==
    ASSUME NEW m \in Media, Publish(m)
    PROVE  Queue!PublishRevision(m)
<1>1. UNCHANGED <<jobs, link>> /\ published' = [published EXCEPT ![m] = @ + 1]
  BY DEF Publish
<1>2. Rows' = Rows
  BY <1>1 DEF Rows
<1> QED
  BY <1>1, <1>2 DEF Queue!PublishRevision

LEMMA TombstoneQueues ==
    ASSUME TypeOK, NEW l \in Listings, Tombstone(l)
    PROVE  Queue!Withdraw(l)
<1> DEFINE js == {j \in Rows : ListingOf[jobs[j].media] = l
                                  /\ jobs[j].status \in Cancelable}
<1>1. Rows' = Rows /\ UNCHANGED <<published, link>>
  BY TombstoneEvolve DEF RowsEvolve, Tombstone, feed
<1>2. \A j \in Rows : jobs'[j] = IF j \in js THEN CancelJob(jobs[j]) ELSE jobs[j]
  BY RowsAreJobs DEF Tombstone
<1>3. js \in SUBSET Rows
  OBVIOUS
<1>4. js = {j \in Queue!In("waiting") \cup Queue!In("in_progress") :
               ListingOf[[i \in Rows |-> EntryOf(jobs[i])][j].media] = l}
  BY Selections, RowsAreJobs, EntryFields DEF Claimable, Cancelable, Active
<1> HIDE DEF js
<1>5. Queue!Move(js, "canceled")
  BY <1>1, <1>2, <1>3, RowsAreJobs, CancelEntry, QueueMoves
<1> QED
  BY <1>4, <1>5 DEF Queue!Withdraw

LEMMA ReapQueues ==
    ASSUME TypeOK, NEW w \in Workers, Reap(w)
    PROVE  Queue!Lapse
<1> DEFINE js == StaleClaims(w)
<1>1. Rows' = Rows /\ UNCHANGED <<published, link>>
  BY ReapEvolve DEF RowsEvolve, Reap, feed
<1>2. \A j \in Rows : jobs'[j] = IF j \in js THEN ReturnJob(jobs[j]) ELSE jobs[j]
  BY RowsAreJobs DEF Reap
<1>3. js \in SUBSET Rows /\ js \in SUBSET Queue!In("in_progress")
  BY Selections DEF StaleClaims
<1> HIDE DEF js
<1>4. Queue!Move(js, "waiting")
  BY <1>1, <1>2, <1>3, RowsAreJobs, ReturnEntry, QueueMoves
<1> QED
  BY <1>3, <1>4 DEF Queue!Lapse

LEMMA ClaimQueues ==
    ASSUME TypeOK, NEW w \in Workers, Claim(w)
    PROVE  Queue!Take
<1>1. Rows' = Rows /\ UNCHANGED <<published, link>>
  BY ClaimEvolve DEF RowsEvolve, Claim, feed
<1>2. PICK js \in SUBSET Claimable :
         /\ Cardinality(js) <= BatchSize
         /\ jobs' = [j \in JobIds |-> IF j \in js THEN ClaimJob(jobs[j], w) ELSE jobs[j]]
  BY DEF Claim
<1>3. \A j \in Rows : jobs'[j] = IF j \in js THEN ClaimJob(jobs[j], w) ELSE jobs[j]
  BY <1>2, RowsAreJobs
<1>4. js \in SUBSET Rows /\ js \in SUBSET Queue!In("waiting")
  BY Selections DEF Claimable
<1>5. \A j \in js :
         EntryOf(jobs'[j]) = [EntryOf(jobs[j]) EXCEPT !.state = "in_progress"]
  BY <1>3, <1>4, RowsAreJobs, ClaimEntry
<1>6. Queue!Move(js, "in_progress")
  BY <1>1, <1>3, <1>4, <1>5, QueueMoves
<1> QED
  BY <1>2, <1>4, <1>6 DEF Queue!Take, Queue!Cardinality, Cardinality

\* The guarded updates: what was not this worker's any more changes nothing.
LEMMA SucceedQueues ==
    ASSUME TypeOK, BytesAreCurrent, NEW w \in Workers, NEW i \in Rows, Succeed(w, i)
    PROVE  \/ UNCHANGED Queue!queueVars
           \/ i \in Queue!In("in_progress") /\ Queue!Finish(i)
<1>1. Rows' = Rows /\ UNCHANGED <<published, link>> /\ i \in JobIds /\ jobs[i] \in Job
  BY SucceedStep, RowsAreJobs DEF RowsEvolve, Succeed, feed
<1>2. CASE ~StillMine(w, i)
  <2>1. UNCHANGED jobs
    BY <1>2 DEF Succeed
  <2> QED
    BY <1>1, <2>1, QueueStutters
<1>3. CASE StillMine(w, i)
  <2> DEFINE c == hand[w][i].content
             new == [jobs[i] EXCEPT !.status = "succeeded", !.content = c]
  <2>1. jobs' = [jobs EXCEPT ![i] = new] /\ jobs \in [JobIds -> Job \cup {NoJob}]
    BY <1>1, <1>3 DEF Succeed, TypeOK
  <2>2. PICK n \in 1 .. published[jobs[i].media] :
           n >= jobs[i].rev /\ Revisions[jobs[i].media][n] = c
    <3>1. Shows(jobs[i].media, jobs[i].rev, c)
      BY <1>1 DEF Succeed, HasBytes, BytesAreCurrent
    <3> QED
      BY <3>1 DEF Shows
  <2> HIDE DEF c
  <2>3. EntryOf(new) = [EntryOf(jobs[i]) EXCEPT !.state = "succeeded", !.content = c]
    BY <1>1, SucceedEntry
  <2> HIDE DEF new
  <2>4. /\ EntryOf(jobs'[i]) =
              [EntryOf(jobs[i]) EXCEPT !.state = "succeeded", !.content = c]
        /\ \A j \in Rows \ {i} : jobs'[j] = jobs[j]
    BY <1>1, <2>1, <2>3 DEF Rows
  <2>5. [j \in Rows |-> EntryOf(jobs'[j])] =
           [[j \in Rows |-> EntryOf(jobs[j])] EXCEPT
               ![i].state = "succeeded", ![i].content = Revisions[jobs[i].media][n]]
    BY <2>2, <2>4
  <2>6. i \in Queue!In("in_progress")
    BY <1>3, Selections DEF StillMine
  <2> QED
    BY <1>1, <2>2, <2>5, <2>6, EntryFields DEF Queue!Finish
<1> QED
  BY <1>2, <1>3

LEMMA FailQueues ==
    ASSUME TypeOK, CountIsCurrent, NEW w \in Workers, NEW i \in Rows, Fail(w, i)
    PROVE  \/ UNCHANGED Queue!queueVars
           \/ i \in Queue!In("in_progress") /\ Queue!Fault(i)
<1>1. Rows' = Rows /\ UNCHANGED <<published, link>> /\ i \in JobIds /\ jobs[i] \in Job
  BY FailStep, RowsAreJobs DEF RowsEvolve, Fail, feed
<1>2. CASE ~StillMine(w, i)
  <2>1. UNCHANGED jobs
    BY <1>2 DEF Fail
  <2> QED
    BY <1>1, <2>1, QueueStutters
<1>3. CASE StillMine(w, i)
  <2> DEFINE status == FailedStatus(w, i)
             state == IF status = "retrying" THEN "waiting" ELSE "permanently_failed"
             count == jobs[i].attempts + 1
             new == [jobs[i] EXCEPT !.status = status, !.attempts = count]
  <2>1. hand[w][i].attempts = jobs[i].attempts /\ jobs[i].attempts \in Nat
    BY <1>1, <1>3, Fields DEF Fail, CountIsCurrent
  <2>2. jobs' = [jobs EXCEPT ![i] = new] /\ jobs \in [JobIds -> Job \cup {NoJob}]
    BY <1>1, <1>3, <2>1 DEF Fail, TypeOK
  <2>3. state = "waiting" => jobs[i].attempts + 1 < MaxAttempts
    BY <2>1, ConstantsAssumption DEF FailedStatus
  <2>4. state \in {"waiting", "permanently_failed"}
    OBVIOUS
  <2>5. EntryOf(new) = [EntryOf(jobs[i]) EXCEPT !.state = state, !.attempts = count]
    <3>1. status \in {"retrying", "permanently_failed"}
      BY DEF FailedStatus
    <3> DEFINE e == EntryOf(jobs[i])
               f == [e EXCEPT !.state = state]
    <3> HIDE DEF status, count
    <3>2. /\ new.media = jobs[i].media /\ new.rev = jobs[i].rev /\ new.attempts = count
          /\ new.status = status /\ new.content = jobs[i].content
      BY <1>1 DEF Job
    <3>3. EntryOf(new) = [media |-> jobs[i].media, rev |-> jobs[i].rev,
                          attempts |-> count, content |-> jobs[i].content,
                          state |-> state]
      BY <3>1, <3>2 DEF EntryOf
    <3>4. /\ e \in Queue!Entry /\ e.media = jobs[i].media /\ e.rev = jobs[i].rev
          /\ e.content = jobs[i].content
      BY <1>1, EntryFields
    <3> HIDE DEF new, state, e
    <3>5. f = [media |-> e.media, rev |-> e.rev, attempts |-> e.attempts,
               content |-> e.content, state |-> state]
      BY <3>4 DEF Queue!Entry
    <3>6. [e EXCEPT !.state = state, !.attempts = count] = [f EXCEPT !.attempts = count]
      OBVIOUS
    <3> HIDE DEF f
    <3>7. EntryOf(new) = [f EXCEPT !.attempts = count]
      BY <3>3, <3>4, <3>5, RecordOfFive
    <3> QED
      BY <3>6, <3>7 DEF e
  <2> HIDE DEF new, state
  <2>6. /\ EntryOf(jobs'[i]) =
              [EntryOf(jobs[i]) EXCEPT !.state = state, !.attempts = count]
        /\ \A j \in Rows \ {i} : jobs'[j] = jobs[j]
    BY <1>1, <2>2, <2>5 DEF Rows
  <2>7. count = EntryOf(jobs[i]).attempts + 1
    BY <1>1, EntryFields
  <2> HIDE DEF count
  <2>8. [j \in Rows |-> EntryOf(jobs'[j])] =
           [[j \in Rows |-> EntryOf(jobs[j])] EXCEPT
               ![i].state = state, ![i].attempts = @ + 1]
    BY <2>6, <2>7
  <2>9. i \in Queue!In("in_progress")
    BY <1>3, Selections DEF StillMine
  <2> QED
    BY <1>1, <2>3, <2>4, <2>8, <2>9, EntryFields DEF Queue!Fault
<1> QED
  BY <1>2, <1>3

LEMMA LinkQueues ==
    ASSUME TypeOK, LinkingSucceeded, NEW w \in Workers, NEW i \in Rows, LinkMedia(w, i)
    PROVE  i \in Queue!In("succeeded") /\ Queue!Show(i)
<1>1. /\ UNCHANGED <<published, jobs>> /\ i \in JobIds /\ jobs[i] \in Job
      /\ jobs[i].status = "succeeded"
      /\ link' = [link EXCEPT ![jobs[i].media] = jobs[i].content]
  BY RowsAreJobs DEF LinkMedia, LinkingSucceeded, feed
<1>2. Rows' = Rows
  BY <1>1 DEF Rows
<1>3. i \in Queue!In("succeeded")
  BY <1>1, Selections
<1> QED
  BY <1>1, <1>2, <1>3, EntryFields DEF Queue!Show

LEMMA InsertQueues ==
    ASSUME TableInv, RInv, NEW e \in Enqueuers, InsertJobs(e)
    PROVE  Queue!Join
<1>1. UNCHANGED <<published, link>> /\ Rows \subseteq Rows' /\ RowsInOrder'
  BY InsertStep DEF TableInv, InsertJobs, feed
<1>2. \A j \in Rows : EntryOf(jobs'[j]) = EntryOf(jobs[j])
  BY InsertedRows
<1>3. ASSUME NEW j \in Rows' \ Rows
      PROVE  Queue!IsNew(EntryOf(jobs'[j]))
  <2>1. PICK x \in enq[e].wanted : jobs'[j] = NewJob(x)
    BY InsertedRows
  <2>2. x \in Want /\ x.media \in Media /\ x.rev \in Nat
    BY DEF TableInv, TypeOK, Call, Want
  <2>3. /\ saved[x.media] > 0 /\ x.rev <= saved[x.media]
        /\ saved[x.media] <= published[x.media]
        /\ saved[x.media] \in Nat /\ published[x.media] \in Nat
    BY <2>2 DEF TableInv, TypeOK, RInv, WantedAreSaved, WantsArePublished, FeedInOrder
  <2>4. published[x.media] > 0 /\ x.rev <= published[x.media]
    BY <2>2, <2>3
  <2>5. /\ NewJob(x).media = x.media /\ NewJob(x).rev = x.rev
        /\ NewJob(x).status = "pending" /\ NewJob(x).attempts = 0
        /\ NewJob(x).content = NoContent /\ NewJob(x) \in Job
    BY <2>2, NewJobType DEF NewJob
  <2> QED
    BY <2>1, <2>4, <2>5, EntryFields DEF Queue!IsNew
<1>4. \A i \in Rows : \A j \in Rows' \ Rows : i < j
  BY InsertedRows
<1> QED
  BY <1>1, <1>2, <1>3, <1>4 DEF Queue!Join

----------------------------------------------------------------------------
(* Every step is one of the queue's *)

QStep == Queue!QueueNext \/ UNCHANGED Queue!queueVars

LEMMA QuietSteps ==
    ASSUME UNCHANGED <<published, jobs, link>>
    PROVE  QStep
<1>1. Rows' = Rows
  BY DEF Rows
<1> QED
  BY <1>1, QueueStutters DEF QStep

LEMMA LeaseQueues ==
    ASSUME TypeOK, NEW i \in JobIds, LeaseRunsOut(i)
    PROVE  QStep
<1>1. Rows' = Rows /\ UNCHANGED <<published, link>>
  BY LeaseEvolve DEF RowsEvolve, LeaseRunsOut, feed
<1>2. /\ jobs \in [JobIds -> Job \cup {NoJob}] /\ i \in Rows /\ jobs[i] \in Job
      /\ jobs' = [jobs EXCEPT ![i] = [jobs[i] EXCEPT !.stale = TRUE]]
  BY RowsAreJobs DEF TypeOK, LeaseRunsOut
<1> DEFINE new == [jobs[i] EXCEPT !.stale = TRUE]
<1>3. EntryOf(new) = EntryOf(jobs[i])
  BY <1>2 DEF EntryOf, Job
<1>4. jobs' = [jobs EXCEPT ![i] = new]
  BY <1>2
<1> HIDE DEF new
<1>5. \A j \in Rows : EntryOf(jobs'[j]) = EntryOf(jobs[j])
  BY <1>2, <1>3, <1>4 DEF Rows
<1> QED
  BY <1>1, <1>5, QueueStutters DEF QStep

LEMMA NextQueues ==
    ASSUME TableInv, LinkingSucceeded, RInv, [Next]_vars
    PROVE  QStep
<1>1. TypeOK /\ CountIsCurrent /\ BytesAreCurrent
  BY DEF TableInv, RInv
<1>2. CASE \E m \in Media : Publish(m)
  BY <1>2, PublishQueues DEF QStep, Queue!QueueNext
<1>3. CASE \E l \in Listings : Tombstone(l)
  BY <1>1, <1>3, TombstoneQueues DEF QStep, Queue!QueueNext
<1>4. ASSUME NEW e \in Enqueuers, Enqueue(e) PROVE QStep
  <2>1. CASE InsertJobs(e)
    BY <2>1, InsertQueues DEF QStep, Queue!QueueNext
  <2>2. CASE ~InsertJobs(e)
    <3>1. UNCHANGED <<published, jobs, link>>
      BY <1>4, <2>2 DEF Enqueue, Collect, ReadBlocking, LoseEnqueue, feed
    <3> QED
      BY <3>1, QuietSteps
  <2> QED
    BY <2>1, <2>2
<1>5. ASSUME NEW w \in Workers, RunCycle(w) PROVE QStep
  <2>1. CASE Reap(w)
    BY <1>1, <2>1, ReapQueues DEF QStep, Queue!QueueNext
  <2>2. CASE Claim(w)
    BY <1>1, <2>2, ClaimQueues DEF QStep, Queue!QueueNext
  <2>3. CASE FindNothing(w) \/ EndCycle(w)
    BY <2>3, QuietSteps DEF FindNothing, EndCycle, feed
  <2>4. ASSUME NEW j \in JobIds, ProcessJob(w, j) PROVE QStep
    <3>1. CASE Succeed(w, j) \/ Fail(w, j) \/ LinkMedia(w, j)
      <4>1. j \in Rows
        BY <3>1 DEF TableInv, HandsHoldRows, Succeed, Fail, LinkMedia
      <4>2. CASE Succeed(w, j)
        BY <1>1, <4>1, <4>2, SucceedQueues DEF QStep, Queue!QueueNext
      <4>3. CASE Fail(w, j)
        BY <1>1, <4>1, <4>3, FailQueues DEF QStep, Queue!QueueNext
      <4>4. CASE LinkMedia(w, j)
        BY <1>1, <4>1, <4>4, LinkQueues DEF QStep, Queue!QueueNext
      <4> QED
        BY <3>1, <4>2, <4>3, <4>4
    <3>2. CASE \/ Download(w, j) \/ Deduplicate(w, j) \/ Store(w, j)
               \/ StepFails(w, j) \/ ReadAttempts(w, j)
      BY <3>2, QuietSteps
         DEF Download, Deduplicate, Store, StepFails, ReadAttempts, feed
    <3> QED
      BY <2>4, <3>1, <3>2 DEF ProcessJob
  <2> QED
    BY <1>5, <2>1, <2>2, <2>3, <2>4 DEF RunCycle
<1>6. ASSUME NEW w \in Workers,
             ReapFails(w) \/ AbortCycle(w) \/ \E j \in JobIds : LinkFails(w, j)
      PROVE  QStep
  BY <1>6, QuietSteps DEF ReapFails, AbortCycle, LinkFails, feed
<1>7. CASE \E j \in JobIds : LeaseRunsOut(j)
  BY <1>1, <1>7, LeaseQueues
<1>8. CASE UNCHANGED vars
  BY <1>8, QuietSteps DEF vars, feed
<1> QED
  BY <1>2, <1>3, <1>4, <1>5, <1>6, <1>7, <1>8 DEF Next

(***************************************************************************)
(* For any number of enqueuers, workers and expired leases, the job table  *)
(* and the links that are written from it implement the abstract queue:    *)
(* the statements that read first and update later, and the ones that find *)
(* their claim lost, never show in it.                                     *)
(***************************************************************************)
THEOREM TableIsAQueue == Spec => ImplementsJobQueue
<1>1. Init => Queue!QueueInit
  <2> SUFFICES ASSUME Init PROVE Queue!QueueInit
    OBVIOUS
  <2>1. Rows = {}
    BY DEF Init, Rows
  <2> QED
    BY <2>1 DEF Init, Queue!QueueInit
<1>2. Init => IInv /\ RInv
  <2>1. Init => RInv
    BY DEF Init, RInv, RevisionsAreSaved, WantsArePublished, BytesAreCurrent,
           SuccessIsCurrent, Rows, IdleCall, Idle, HasBytes
  <2> QED
    BY <2>1, InitIInv
<1>3. IInv /\ RInv /\ [Next]_vars => (IInv /\ RInv)'
  <2> SUFFICES ASSUME IInv, RInv, [Next]_vars
               PROVE  IInv' /\ RInv'
    OBVIOUS
  <2>1. TableInv /\ IInv' /\ TableInv' /\ \A j \in Rows : Evolves(jobs[j], jobs'[j])
    BY NextIInv, NextTableInv DEF IInv
  <2> QED
    BY <2>1, RowsStay, StepKeepsRevisions, RevisionsPreserved
<1>4. IInv /\ RInv /\ [Next]_vars => [Queue!QueueNext]_(Queue!queueVars)
  BY NextQueues DEF IInv, EarnedLinks, QStep
<1> QED
  BY <1>1, <1>2, <1>3, <1>4, PTL DEF Spec, ImplementsJobQueue, Queue!QueueSpec
============================================================================
