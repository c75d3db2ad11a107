--------------------------- MODULE AttachmentJobs ---------------------------
(***************************************************************************)
(* The attachment_job table and the processes around it: the sync          *)
(* processes that enqueue jobs after saving a page (EnqueueAttachmentJobs  *)
(* in sync/attachment.go), the workers that claim, download and finish     *)
(* them (AttachmentWorker.Run; sync/attachment_claim.go), and the          *)
(* tombstone cascade of the Property processor that cancels them.          *)
(*                                                                         *)
(* They share only the database.  A statement or a transaction is one      *)
(* step; what a process read stays in its memory until a later step uses   *)
(* it.  A job's id is its place in created_at order.  A claim's age is     *)
(* abstracted to whether its lease has run out.                            *)
(***************************************************************************)
EXTENDS Naturals, Sequences, FiniteSets

CONSTANTS
    Media,        \* media keys; their media rows exist, as the foreign key demands
    Listings,
    ListingOf,    \* media.resource_record_key
    Contents,     \* bytes upstream can serve, one per sha256
    Revisions,    \* per media key, the content of each revision upstream goes through
    Untimed,      \* media whose payload may come without any timestamp
    Enqueuers,    \* processes that run EnqueueAttachmentJobs
    Workers,      \* claimed_by identities
    Daemons,      \* the workers run without --once and --max-jobs
    BatchSize,    \* AttachmentWorker.batchSize
    MaxAttempts,  \* attempts before a job fails for good, 3 in failJob
    MaxJobs,      \* bound: job rows ever inserted
    MaxSlow,      \* bound: leases that run out while their holder still works
    MaxAborts,    \* bound: cycles cut short and statements that fail
    NoJob, NoContent, NoWorker

JobIds == 1 .. MaxJobs

Active == {"pending", "retrying", "in_progress"}
Finished == {"succeeded", "permanently_failed", "canceled"}

\* A row of attachment_job; rev is media_modified_at, 0 for NULL.
Job == [media : Media, rev : Nat, status : Active \cup Finished, attempts : Nat,
        by : Workers \cup {NoWorker}, stale : BOOLEAN,
        content : Contents \cup {NoContent}]

ASSUME ConstantsAssumption ==
    /\ IsFiniteSet(Media)
    /\ ListingOf \in [Media -> Listings]
    /\ Revisions \in [Media -> Seq(Contents)]
    /\ Untimed \subseteq Media
    /\ Daemons \subseteq Workers
    /\ BatchSize \in Nat \ {0}
    /\ MaxAttempts \in Nat \ {0}
    /\ MaxJobs \in Nat
    /\ MaxSlow \in Nat
    /\ MaxAborts \in Nat
    /\ NoJob \notin Job
    /\ NoContent \notin Contents
    /\ NoWorker \notin Workers

VARIABLES
    published,   \* per media key, the revisions upstream has published
    saved,       \* per media key, the revision of its newest saved payload
    enq,         \* per enqueuer, where its call is and the jobs it wants
    jobs,        \* the table: per id, a Job or NoJob
    attachments, \* the contents that have an attachment row
    objects,     \* storage: an object per media key and content uploaded for it
    link,        \* media.attachment_id, per media key
    cycle,       \* per worker, where its poll cycle is
    hand,        \* per worker and job, where processJob is
    slow,        \* leases that ran out under a working holder
    aborts       \* cycles cut short and statements failed so far

feed == <<published, saved>>
storage == <<attachments, objects>>
workVars == <<cycle, hand>>
vars == <<feed, enq, jobs, storage, link, workVars, slow, aborts>>

Rows == {j \in JobIds : jobs[j] # NoJob}

\* The next created_at.
LastJob == Cardinality(Rows)

IdleCall == [at |-> "idle", wanted |-> {}]

\* Nothing of this job is in the worker's hands.
Idle == [at |-> "idle", content |-> NoContent, full |-> FALSE, attempts |-> 0]

Init ==
    /\ published = [m \in Media |-> 0]
    /\ saved = [m \in Media |-> 0]
    /\ enq = [e \in Enqueuers |-> IdleCall]
    /\ jobs = [j \in JobIds |-> NoJob]
    /\ attachments = {}
    /\ objects = {}
    /\ link = [m \in Media |-> NoContent]
    /\ cycle = [w \in Workers |-> "reap"]
    /\ hand = [w \in Workers |-> [j \in JobIds |-> Idle]]
    /\ slow = 0
    /\ aborts = 0

----------------------------------------------------------------------------
(* Upstream and the projection *)

\* Upstream replaces the bytes of a media key.
Publish(m) ==
    /\ published[m] < Len(Revisions[m])
    /\ published' = [published EXCEPT ![m] = @ + 1]
    /\ UNCHANGED <<saved, enq, jobs, storage, link, workVars, slow, aborts>>

\* The statuses that cancelPendingAttachmentJobs cancels.
Cancelable == Active

CancelJob(job) == [job EXCEPT !.status = "canceled", !.by = NoWorker, !.stale = FALSE]

\* The transaction that tombstones a listing cancels its media's jobs with it.
\* Coming back touches no job, so a listing can be tombstoned at any time.
Tombstone(l) ==
    /\ jobs' = [j \in JobIds |->
                   IF /\ j \in Rows
                      /\ ListingOf[jobs[j].media] = l
                      /\ jobs[j].status \in Cancelable
                   THEN CancelJob(jobs[j])
                   ELSE jobs[j]]
    /\ UNCHANGED <<feed, enq, storage, link, workVars, slow, aborts>>

----------------------------------------------------------------------------
(* EnqueueAttachmentJobs *)

\* The revisions a fetched payload of m can carry now.
Timestamps(m) == {published[m]} \cup IF m \in Untimed THEN {0} ELSE {}

\* A fetched page is saved with a chunk of distinct media keys and the revisions
\* its payloads show; the jobs it calls for are still to be enqueued.
Collect(e) ==
    /\ enq[e].at = "idle"
    /\ \E ms \in (SUBSET {m \in Media : published[m] > 0}) \ {{}} :
       \E rev \in [ms -> UNION {Timestamps(m) : m \in ms}] :
          /\ \A m \in ms : rev[m] \in Timestamps(m)
          /\ saved' = [m \in Media |-> IF m \in ms THEN published[m] ELSE saved[m]]
          /\ enq' = [enq EXCEPT ![e] =
                [at |-> "collected",
                 wanted |-> {[media |-> m, rev |-> rev[m]] : m \in ms}]]
    /\ UNCHANGED <<published, jobs, storage, link, workVars, slow, aborts>>

\* A variant of Blocking: a claimed job does not count.
BlockingButClaimed == {"pending", "retrying", "succeeded"}

\* blockingJobStatuses
Blocking == {"pending", "retrying", "in_progress", "succeeded"}

BlockingJobs(m) ==
    {j \in Rows : jobs[j].media = m /\ jobs[j].status \in Blocking}

\* latestBlockingJobs: the newest blocking job of the key already covers the
\* wanted revision.  A job without a revision covers none.
Covered(want) ==
    \E j \in BlockingJobs(want.media) :
        /\ \A i \in BlockingJobs(want.media) : i <= j
        /\ jobs[j].rev # 0
        /\ jobs[j].rev >= want.rev

ReadBlocking(e) ==
    /\ enq[e].at = "collected"
    /\ enq' = [enq EXCEPT ![e] =
                  [at |-> "read", wanted |-> {x \in @.wanted : ~Covered(x)}]]
    /\ UNCHANGED <<feed, jobs, storage, link, workVars, slow, aborts>>

NewJob(want) ==
    [media |-> want.media, rev |-> want.rev, status |-> "pending", attempts |-> 0,
     by |-> NoWorker, stale |-> FALSE, content |-> NoContent]

\* One bulk insert, its rows in any order.
BulkInsert(wanted) ==
    /\ LastJob + Cardinality(wanted) <= MaxJobs
    /\ \E order \in [1 .. Cardinality(wanted) -> wanted] :
          /\ \A x \in wanted : \E n \in DOMAIN order : order[n] = x
          /\ jobs' = [j \in JobIds |-> IF j - LastJob \in DOMAIN order
                                       THEN NewJob(order[j - LastJob])
                                       ELSE jobs[j]]

\* Nothing was locked since the read.
InsertJobs(e) ==
    /\ enq[e].at = "read"
    /\ BulkInsert(enq[e].wanted)
    /\ enq' = [enq EXCEPT ![e] = IdleCall]
    /\ UNCHANGED <<feed, storage, link, workVars, slow, aborts>>

\* The call fails or its process dies: this chunk is not enqueued.
LoseEnqueue(e) ==
    /\ enq[e].at # "idle"
    /\ enq' = [enq EXCEPT ![e] = IdleCall]
    /\ UNCHANGED <<feed, jobs, storage, link, workVars, slow, aborts>>

----------------------------------------------------------------------------
(* A worker's cycle: reap, claim, then processJob for each claimed job *)

\* A variant of StaleClaims: a worker reaps only what it claimed itself.
OwnStaleClaims(w) ==
    {j \in Rows : jobs[j].status = "in_progress" /\ jobs[j].stale /\ jobs[j].by = w}

\* A variant of StaleClaims: the status is not looked at.
StaleRows(w) == {j \in Rows : jobs[j].stale}

\* Whoever claimed them: their lease has run out.
StaleClaims(w) == {j \in Rows : jobs[j].status = "in_progress" /\ jobs[j].stale}

\* A variant of ReturnJob: a lapsed claim costs an attempt.
ReturnJobCounting(job) ==
    [job EXCEPT !.status = "pending", !.by = NoWorker, !.stale = FALSE, !.attempts = @ + 1]

ReturnJob(job) == [job EXCEPT !.status = "pending", !.by = NoWorker, !.stale = FALSE]

\* ReapStaleClaims
Reap(w) ==
    /\ cycle[w] = "reap"
    /\ jobs' = [j \in JobIds |->
                   IF j \in StaleClaims(w) THEN ReturnJob(jobs[j]) ELSE jobs[j]]
    /\ cycle' = [cycle EXCEPT ![w] = "claim"]
    /\ UNCHANGED <<feed, enq, storage, link, hand, slow, aborts>>

\* An error while reaping is logged and the cycle goes on.
ReapFails(w) ==
    /\ cycle[w] = "reap"
    /\ aborts < MaxAborts
    /\ aborts' = aborts + 1
    /\ cycle' = [cycle EXCEPT ![w] = "claim"]
    /\ UNCHANGED <<feed, enq, jobs, storage, link, hand, slow>>

Claimable == {j \in Rows : jobs[j].status \in {"pending", "retrying"}}

ClaimJob(job, w) ==
    [job EXCEPT !.status = "in_progress", !.by = w, !.stale = FALSE]

\* ClaimBatch.  SKIP LOCKED passes over the rows another transaction holds just
\* then, so the batch is some of the claimable rows and not surely the oldest.
Claim(w) ==
    /\ cycle[w] = "claim"
    /\ \E batch \in (SUBSET Claimable) \ {{}} :
          /\ Cardinality(batch) <= BatchSize
          /\ jobs' = [j \in JobIds |->
                         IF j \in batch THEN ClaimJob(jobs[j], w) ELSE jobs[j]]
          /\ hand' = [hand EXCEPT ![w] =
                         [j \in JobIds |->
                             IF j \in batch THEN [Idle EXCEPT !.at = "claimed"]
                                            ELSE Idle]]
    /\ cycle' = [cycle EXCEPT ![w] = "work"]
    /\ UNCHANGED <<feed, enq, storage, link, slow, aborts>>

\* A worker told to stop after a cycle or after so many jobs may be done.
AfterCycle(w) == IF w \in Daemons THEN {"reap"} ELSE {"reap", "gone"}

\* An empty claim ends the cycle.
FindNothing(w) ==
    /\ cycle[w] = "claim"
    /\ Claimable = {}
    /\ \E next \in AfterCycle(w) : cycle' = [cycle EXCEPT ![w] = next]
    /\ UNCHANGED <<feed, enq, jobs, storage, link, hand, slow, aborts>>

SetHand(w, j, h) == hand' = [hand EXCEPT ![w][j] = h]

\* A variant of Download: the link comes from the oldest saved payload.
DownloadOldest(w, j) ==
    /\ hand[w][j].at = "claimed"
    /\ LET m == jobs[j].media
       IN  \E n \in 1 .. published[m] :
              SetHand(w, j, [hand[w][j] EXCEPT !.at = "downloaded",
                                               !.content = Revisions[m][n]])
    /\ UNCHANGED <<feed, enq, jobs, storage, link, cycle, slow, aborts>>

\* Through a fresh link or the one in the newest saved payload: the bytes of
\* that payload's revision or of a later one.
Download(w, j) ==
    /\ hand[w][j].at = "claimed"
    /\ LET m == jobs[j].media
       IN  \E n \in saved[m] .. published[m] :
              SetHand(w, j, [hand[w][j] EXCEPT !.at = "downloaded",
                                               !.content = Revisions[m][n]])
    /\ UNCHANGED <<feed, enq, jobs, storage, link, cycle, slow, aborts>>

\* A variant of HasAttachment: somebody else's upload of the bytes counts too.
HasAttachmentSoon(w, j) ==
    \/ hand[w][j].content \in attachments
    \/ \E v \in Workers \ {w}, i \in JobIds :
           hand[v][i].at = "uploading" /\ hand[v][i].content = hand[w][j].content

\* An attachment row already has this sha256.
HasAttachment(w, j) == hand[w][j].content \in attachments

Deduplicate(w, j) ==
    /\ hand[w][j].at = "downloaded"
    /\ SetHand(w, j, [hand[w][j] EXCEPT !.at = IF HasAttachment(w, j)
                                               THEN "stored" ELSE "uploading"])
    /\ UNCHANGED <<feed, enq, jobs, storage, link, cycle, slow, aborts>>

\* The worker uploads and the image endpoint looks up under the same key.
ObjectKey(m, content) == <<m, content>>

\* Upload, then insert the attachment row: its source_hash is unique, so the
\* insert fails when the row has appeared since the lookup.
Store(w, j) ==
    /\ hand[w][j].at = "uploading"
    /\ SetHand(w, j, IF HasAttachment(w, j)
                     THEN [Idle EXCEPT !.at = "failing"]
                     ELSE [hand[w][j] EXCEPT !.at = "stored"])
    /\ objects' = objects \cup {ObjectKey(jobs[j].media, hand[w][j].content)}
    /\ attachments' = attachments \cup {hand[w][j].content}
    /\ UNCHANGED <<feed, enq, jobs, link, cycle, slow, aborts>>

\* The link, the limiter, the download or the upload fails; an upload may find
\* the local store full.
StepFails(w, j) ==
    /\ hand[w][j].at \in {"claimed", "uploading"}
    /\ \E full \in BOOLEAN :
          /\ full => hand[w][j].at = "uploading"
          /\ SetHand(w, j, [Idle EXCEPT !.at = "failing", !.full = full])
    /\ UNCHANGED <<feed, enq, jobs, storage, link, cycle, slow, aborts>>

\* A variant of StillMine: any claim on the job will do.
StillClaimed(w, j) == jobs[j].status = "in_progress"

\* The guard of both terminal updates.
StillMine(w, j) == jobs[j].status = "in_progress" /\ jobs[j].by = w

\* A variant of Succeed: a lost race links the media all the same.
SucceedOrLink(w, j) ==
    /\ hand[w][j].at = "stored"
    /\ IF StillMine(w, j)
       THEN jobs' = [jobs EXCEPT ![j].status = "succeeded",
                                 ![j].content = hand[w][j].content]
       ELSE UNCHANGED jobs
    /\ SetHand(w, j, [hand[w][j] EXCEPT !.at = "linking"])
    /\ UNCHANGED <<feed, enq, storage, link, cycle, slow, aborts>>

\* compareAndSetSucceeded, up to the guarded update; a lost race ends the job.
Succeed(w, j) ==
    /\ hand[w][j].at = "stored"
    /\ IF StillMine(w, j)
       THEN /\ jobs' = [jobs EXCEPT ![j].status = "succeeded",
                                    ![j].content = hand[w][j].content]
            /\ SetHand(w, j, [hand[w][j] EXCEPT !.at = "linking"])
       ELSE SetHand(w, j, Idle) /\ UNCHANGED jobs
    /\ UNCHANGED <<feed, enq, storage, link, cycle, slow, aborts>>

\* The second statement points the media row at the attachment.
LinkMedia(w, j) ==
    /\ hand[w][j].at = "linking"
    /\ link' = [link EXCEPT ![jobs[j].media] = hand[w][j].content]
    /\ SetHand(w, j, Idle)
    /\ UNCHANGED <<feed, enq, jobs, storage, cycle, slow, aborts>>

\* An error there is logged and the job still counts as done.
LinkFails(w, j) ==
    /\ hand[w][j].at = "linking"
    /\ aborts < MaxAborts
    /\ aborts' = aborts + 1
    /\ SetHand(w, j, Idle)
    /\ UNCHANGED <<feed, enq, jobs, storage, link, cycle, slow>>

\* failJob reads the row first, outside its guarded update.
ReadAttempts(w, j) ==
    /\ hand[w][j].at = "failing"
    /\ SetHand(w, j, [hand[w][j] EXCEPT !.at = "failed", !.attempts = jobs[j].attempts])
    /\ UNCHANGED <<feed, enq, jobs, storage, link, cycle, slow, aborts>>

\* A variant of FailedStatus: one attempt too many.
FailedStatusLate(w, j) ==
    IF hand[w][j].full \/ hand[w][j].attempts >= MaxAttempts
    THEN "permanently_failed"
    ELSE "retrying"

\* A variant of FailedStatus: the status the enum has and nothing handles.
FailedStatusUnhandled(w, j) ==
    IF hand[w][j].full \/ hand[w][j].attempts + 1 >= MaxAttempts
    THEN "failed"
    ELSE "retrying"

FailedStatus(w, j) ==
    IF hand[w][j].full \/ hand[w][j].attempts + 1 >= MaxAttempts
    THEN "permanently_failed"
    ELSE "retrying"

\* The rest of failJob: the count read before goes up by one if the guard holds.
Fail(w, j) ==
    /\ hand[w][j].at = "failed"
    /\ IF StillMine(w, j)
       THEN jobs' = [jobs EXCEPT ![j].status = FailedStatus(w, j),
                                 ![j].attempts = hand[w][j].attempts + 1]
       ELSE UNCHANGED jobs
    /\ SetHand(w, j, Idle)
    /\ UNCHANGED <<feed, enq, storage, link, cycle, slow, aborts>>

\* Every claimed job's processJob has returned.
EndCycle(w) ==
    /\ cycle[w] = "work"
    /\ \A j \in JobIds : hand[w][j] = Idle
    /\ \E next \in AfterCycle(w) : cycle' = [cycle EXCEPT ![w] = next]
    /\ UNCHANGED <<feed, enq, jobs, storage, link, hand, slow, aborts>>

\* A database error cancels the whole cycle, or the process dies.  What it held
\* stays claimed; only a daemon surely polls again.
AbortCycle(w) ==
    /\ cycle[w] # "gone"
    /\ aborts < MaxAborts
    /\ aborts' = aborts + 1
    /\ hand' = [hand EXCEPT ![w] = [j \in JobIds |-> Idle]]
    /\ \E next \in AfterCycle(w) : cycle' = [cycle EXCEPT ![w] = next]
    /\ UNCHANGED <<feed, enq, jobs, storage, link, slow>>

HeldBy(w, j) == jobs[j].by = w /\ hand[w][j] # Idle

\* Time passes and a claim's lease runs out.  No worker renews a lease, so this
\* can happen to one that is still working.
LeaseRunsOut(j) ==
    /\ j \in Rows
    /\ jobs[j].status = "in_progress"
    /\ ~jobs[j].stale
    /\ jobs' = [jobs EXCEPT ![j].stale = TRUE]
    /\ IF \E w \in Workers : HeldBy(w, j)
       THEN slow < MaxSlow /\ slow' = slow + 1
       ELSE UNCHANGED slow
    /\ UNCHANGED <<feed, enq, storage, link, workVars, aborts>>

----------------------------------------------------------------------------

\* What processJob does by itself.
ProcessJob(w, j) ==
    \/ Download(w, j)
    \/ Deduplicate(w, j)
    \/ Store(w, j)
    \/ StepFails(w, j)
    \/ Succeed(w, j)
    \/ LinkMedia(w, j)
    \/ ReadAttempts(w, j)
    \/ Fail(w, j)

RunCycle(w) ==
    \/ Reap(w)
    \/ Claim(w)
    \/ FindNothing(w)
    \/ \E j \in JobIds : ProcessJob(w, j)
    \/ EndCycle(w)

Enqueue(e) == Collect(e) \/ ReadBlocking(e) \/ InsertJobs(e) \/ LoseEnqueue(e)

Next ==
    \/ \E m \in Media : Publish(m)
    \/ \E l \in Listings : Tombstone(l)
    \/ \E e \in Enqueuers : Enqueue(e)
    \/ \E w \in Workers :
          RunCycle(w) \/ ReapFails(w) \/ AbortCycle(w)
             \/ \E j \in JobIds : LinkFails(w, j)
    \/ \E j \in JobIds : LeaseRunsOut(j)

(***************************************************************************)
(* The worker's loop polls for ever (cmd/worker.go) and each processJob is *)
(* bounded by its timeouts; an abandoned claim's lease runs out.  Nothing  *)
(* obliges upstream to publish or a sync to enqueue.                       *)
(***************************************************************************)
Fairness ==
    /\ \A w \in Workers : WF_vars(RunCycle(w))
    /\ \A j \in JobIds : WF_vars(LeaseRunsOut(j))

Spec == Init /\ [][Next]_vars

FairSpec == Spec /\ Fairness

----------------------------------------------------------------------------
(* Properties *)

Want == [media : Media, rev : Nat]

Call == [at : {"idle", "collected", "read"}, wanted : SUBSET Want]

Steps == {"idle", "claimed", "downloaded", "uploading", "stored", "linking",
          "failing", "failed"}

Hands == [at : Steps, content : Contents \cup {NoContent}, full : BOOLEAN,
          attempts : Nat]

\* From the download until the bytes are stored there are bytes.
Hand == {h \in Hands : h.at \in {"downloaded", "uploading"} => h.content \in Contents}

TypeOK ==
    /\ published \in [Media -> Nat]
    /\ saved \in [Media -> Nat]
    /\ enq \in [Enqueuers -> Call]
    /\ jobs \in [JobIds -> Job \cup {NoJob}]
    /\ attachments \subseteq Contents
    /\ objects \subseteq Media \X Contents
    /\ link \in [Media -> Contents \cup {NoContent}]
    /\ cycle \in [Workers -> {"reap", "claim", "work", "gone"}]
    /\ hand \in [Workers -> [JobIds -> Hand]]
    /\ slow \in 0 .. MaxSlow
    /\ aborts \in 0 .. MaxAborts

(***************************************************************************)
(* A finished job stays as it is.  A worker whose job was cancelled or     *)
(* taken over while it was downloading cannot finish it, revive it or      *)
(* change what it recorded, and neither can a reaper.                      *)
(***************************************************************************)
FinishedIsFinal ==
    [][\A j \in Rows : jobs[j].status \in Finished => jobs'[j] = jobs[j]]_jobs

(***************************************************************************)
(* A media row only shows bytes that a succeeded job of it downloaded: a   *)
(* job that lost its claim never relinks.                                  *)
(***************************************************************************)
LinksComeFromSuccess ==
    \A m \in Media : link[m] # NoContent =>
        \E j \in Rows : /\ jobs[j].media = m
                        /\ jobs[j].status = "succeeded"
                        /\ jobs[j].content = link[m]

(***************************************************************************)
(* Syncing the same media again and again does not pile up jobs: of two    *)
(* jobs of one media key that are queued, running or done, the later one   *)
(* is for a newer revision.  Of one enqueuer at a time: two of them may    *)
(* both find an image uncovered, and nothing keeps their inserts apart.    *)
(***************************************************************************)
OneJobPerRevision ==
    \A i, j \in Rows :
        /\ jobs[i].media = jobs[j].media
        /\ jobs[i].status \in Active \cup {"succeeded"}
        /\ jobs[j].status \in Active \cup {"succeeded"}
        /\ jobs[j].rev # 0
        /\ i < j
        => jobs[i].rev < jobs[j].rev

(***************************************************************************)
(* The image endpoint finds what a media row links to: the object at the   *)
(* key made of the row's own media key and the attachment's hash exists.   *)
(* server/media.go says that rows are written only after a successful      *)
(* upload.                                                                 *)
(***************************************************************************)
LinkedObjectsExist ==
    \A m \in Media : link[m] # NoContent => ObjectKey(m, link[m]) \in objects

(***************************************************************************)
(* A succeeded job holds the bytes of the revision it was enqueued for or  *)
(* of a newer one, through deduplication, retries and taken-over claims.   *)
(***************************************************************************)
SuccessIsCurrent ==
    \A j \in Rows : jobs[j].status = "succeeded" =>
        \E n \in 1 .. published[jobs[j].media] :
            n >= jobs[j].rev /\ Revisions[jobs[j].media][n] = jobs[j].content

(***************************************************************************)
(* attempt_count counts the failures that were recorded, one each; a       *)
(* reaped, cancelled or lost claim does not consume an attempt.            *)
(***************************************************************************)
AttemptsCountFailures ==
    [][\A j \in Rows :
          jobs'[j].attempts = jobs[j].attempts +
              IF /\ jobs[j].status = "in_progress"
                 /\ jobs'[j].status \in {"retrying", "permanently_failed"}
              THEN 1 ELSE 0]_jobs

\* No job is tried more often than failJob allows.
AttemptsAreBounded ==
    \A j \in Rows :
        /\ jobs[j].attempts <= MaxAttempts
        /\ jobs[j].status \in Active => jobs[j].attempts < MaxAttempts

(***************************************************************************)
(* Every job is finished in the end, whichever workers died holding it, as *)
(* long as one daemon keeps polling.                                       *)
(***************************************************************************)
JobsFinish ==
    \A j \in JobIds :
        (j \in Rows /\ jobs[j].status \in Active)
            ~> (j \in Rows /\ jobs[j].status \in Finished)

\* A job without what only the workers need to know.
EntryOf(job) ==
    [media |-> job.media, rev |-> job.rev, attempts |-> job.attempts,
     content |-> job.content,
     state |-> IF job.status \in {"pending", "retrying"} THEN "waiting" ELSE job.status]

(***************************************************************************)
(* The table is a queue: however the statements of enqueuers, workers,     *)
(* reapers and tombstones come between each other, each does to the jobs   *)
(* and the links what one operation of JobQueue does, or nothing.          *)
(***************************************************************************)
Queue == INSTANCE JobQueue WITH queue <- [j \in Rows |-> EntryOf(jobs[j])]
ImplementsJobQueue == Queue!QueueSpec

============================================================================
