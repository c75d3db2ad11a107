------------------------------ MODULE Backfill ------------------------------
(***************************************************************************)
(* The two ways a job gets into attachment_job without a sync: the warm    *)
(* command (cmd/warm.go), run by hand for the listings on the market, and  *)
(* the image endpoint (server/media.go), which registers an image somebody *)
(* asked for and that is not there.  Both read the table and insert later, *)
(* next to the processes of AttachmentJobs; warm --exclusive also cancels  *)
(* what it does not keep.                                                  *)
(***************************************************************************)
EXTENDS AttachmentJobs

CONSTANTS
    Requests,   \* image requests served at the same time
    Exclusive,  \* whether warm runs with --exclusive
    ScanSize,   \* rows of one page of its scan, warmChunk
    NoMedia

ASSUME BackfillAssumption ==
    /\ IsFiniteSet(Requests)
    /\ Exclusive \in BOOLEAN
    /\ ScanSize \in Nat \ {0}
    /\ NoMedia \notin Media

VARIABLES
    onMarket, \* listings whose standard_status is one of the chosen ones
    warm,     \* where the warm command is, and what it has read
    request   \* per request, the image it is about to register or NoMedia

backfillVars == <<onMarket, warm, request>>
allVars == <<vars, backfillVars>>

\* What changes neither the feed nor the workers' memory.
tableOnly == <<feed, enq, storage, link, workVars, slow, aborts>>

Resting == [at |-> "idle", chosen |-> {}, keep |-> {}, todo |-> {},
            cursor |-> 0, doomed |-> {}]

BackfillInit ==
    /\ Init
    /\ onMarket \in SUBSET Listings
    /\ warm = Resting
    /\ request = [r \in Requests |-> NoMedia]

----------------------------------------------------------------------------
(* The listings *)

\* standard_status changes.  A tombstone leaves it as it is.
ChangeStatus(l) ==
    /\ onMarket' = IF l \in onMarket THEN onMarket \ {l} ELSE onMarket \cup {l}
    /\ UNCHANGED <<vars, warm, request>>

----------------------------------------------------------------------------
(* The warm command *)

At(step) == warm.at = step

Enter(step) == warm' = [warm EXCEPT !.at = step]

\* A media row is there once a payload was saved and projected.
MediaRows == {m \in Media : saved[m] > 0}

\* What the succeeded jobs of m recorded.
Stored(m) ==
    {jobs[j].content : j \in {i \in Rows : /\ jobs[i].media = m
                                           /\ jobs[i].status = "succeeded"}}

\* warmRepairLinks: one UPDATE; which of several matching jobs it takes is open.
RepairLinks ==
    /\ At("idle")
    /\ link' \in {l \in [Media -> Contents \cup {NoContent}] :
                     \A m \in Media : IF link[m] = NoContent /\ Stored(m) # {}
                                      THEN l[m] \in Stored(m)
                                      ELSE l[m] = link[m]}
    /\ Enter("listings")
    /\ UNCHANGED <<feed, enq, jobs, storage, workVars, slow, aborts, onMarket, request>>

\* The chosen listings; with none warm has nothing to do.
ChooseListings ==
    /\ At("listings")
    /\ warm' = IF onMarket = {} THEN Resting
               ELSE [warm EXCEPT !.at = "media", !.chosen = onMarket]
    /\ UNCHANGED <<vars, onMarket, request>>

Unattached == {m \in MediaRows : ListingOf[m] \in warm.chosen /\ link[m] = NoContent}

\* Their media without an attachment; with none it stops here too.
ChooseMedia ==
    /\ At("media")
    /\ warm' = IF Unattached = {} THEN Resting
               ELSE [warm EXCEPT !.at = "existing", !.keep = Unattached]
    /\ UNCHANGED <<vars, onMarket, request>>

\* A variant of SpokenFor: a job in a worker's hands does not count.
QueuedOrDone(m) ==
    \E j \in Rows : /\ jobs[j].media = m
                    /\ jobs[j].status \in {"pending", "retrying", "succeeded"}

\* A job in one of the blocking statuses, whatever its revision: existingJobKeys
\* and prefetchBlockingStatuses.
SpokenFor(m) == BlockingJobs(m) # {}

\* --limit may leave some of them for another run; --dry-run ends here.
ReadExisting ==
    /\ At("existing")
    /\ \E todo \in SUBSET {m \in warm.keep : ~SpokenFor(m)} :
          warm' = [warm EXCEPT !.at = "insert", !.todo = todo]
    /\ UNCHANGED <<vars, onMarket, request>>

\* A job without media_modified_at for each.
WarmInsert ==
    /\ At("insert")
    /\ BulkInsert({[media |-> m, rev |-> 0] : m \in warm.todo})
    /\ warm' = IF Exclusive THEN [warm EXCEPT !.at = "scan"] ELSE Resting
    /\ UNCHANGED <<tableOnly, onMarket, request>>

\* The next page, in id order, of the queued jobs beyond the cursor.
Page ==
    {j \in Claimable : /\ j > warm.cursor
                       /\ Cardinality({i \in Claimable : warm.cursor < i /\ i <= j})
                             <= ScanSize}

ScanPage ==
    /\ At("scan")
    /\ warm' = IF Page = {} THEN Resting
               ELSE [warm EXCEPT
                        !.at = "cancel",
                        !.doomed = {j \in Page : jobs[j].media \notin warm.keep},
                        !.cursor = CHOOSE j \in Page : \A i \in Page : i <= j]
    /\ UNCHANGED <<vars, onMarket, request>>

\* The update names the ids of the page and nothing else.
CancelPage ==
    /\ At("cancel")
    /\ jobs' = [j \in JobIds |-> IF j \in warm.doomed
                                 THEN [jobs[j] EXCEPT !.status = "canceled"]
                                 ELSE jobs[j]]
    /\ Enter("scan")
    /\ UNCHANGED <<tableOnly, onMarket, request>>

\* An error or an interrupt ends the command wherever it is.
StopWarm ==
    /\ ~At("idle")
    /\ warm' = Resting
    /\ UNCHANGED <<vars, onMarket, request>>

Warm ==
    \/ RepairLinks
    \/ ChooseListings
    \/ ChooseMedia
    \/ ReadExisting
    \/ WarmInsert
    \/ ScanPage
    \/ CancelPage
    \/ StopWarm

----------------------------------------------------------------------------
(* The image endpoint *)

\* The row links to an object that storage has.
Servable(m) == link[m] # NoContent /\ ObjectKey(m, link[m]) \in objects

\* A miss, and registerPrefetch finds no job that speaks for the image.
Miss(r, m) ==
    /\ request[r] = NoMedia
    /\ m \in MediaRows
    /\ ~Servable(m)
    /\ ~SpokenFor(m)
    /\ request' = [request EXCEPT ![r] = m]
    /\ UNCHANGED <<vars, onMarket, warm>>

\* It inserts the job, or fails to and only logs it.
Register(r) ==
    /\ request[r] # NoMedia
    /\ \/ BulkInsert({[media |-> request[r], rev |-> 0]})
       \/ UNCHANGED jobs
    /\ request' = [request EXCEPT ![r] = NoMedia]
    /\ UNCHANGED <<tableOnly, onMarket, warm>>

----------------------------------------------------------------------------

BackfillNext ==
    \/ Next /\ UNCHANGED backfillVars
    \/ \E l \in Listings : ChangeStatus(l)
    \/ Warm
    \/ \E r \in Requests : (\E m \in Media : Miss(r, m)) \/ Register(r)

BackfillSpec == BackfillInit /\ [][BackfillNext]_allVars

----------------------------------------------------------------------------
(* Properties *)

WarmSteps == {"idle", "listings", "media", "existing", "insert", "scan", "cancel"}

BackfillTypeOK ==
    /\ TypeOK
    /\ onMarket \subseteq Listings
    /\ warm \in [at : WarmSteps, chosen : SUBSET Listings, keep : SUBSET Media,
                 todo : SUBSET Media, cursor : 0 .. MaxJobs, doomed : SUBSET Rows]
    /\ request \in [Requests -> Media \cup {NoMedia}]

(***************************************************************************)
(* Running warm again is idempotent rather than additive, and so is asking *)
(* for an image again: a media key has no more jobs of theirs queued,      *)
(* running or done than there are processes that can race to insert one,   *)
(* the warm command and each request.                                      *)
(***************************************************************************)
BackfillJobs(m) == {j \in BlockingJobs(m) : jobs[j].rev = 0}

BackfillAddsOnce ==
    \A m \in Media : Cardinality(BackfillJobs(m)) <= 1 + Cardinality(Requests)

(***************************************************************************)
(* warm --exclusive cancels only jobs of listings outside the chosen       *)
(* statuses (the help of the command), so it keeps the media of every job  *)
(* that is queued for a chosen listing, first download or refresh.         *)
(***************************************************************************)
ChosenListingsKept ==
    [][At("media") /\ warm'.at = "existing" =>
          \A j \in Claimable : ListingOf[jobs[j].media] \in warm.chosen =>
              jobs[j].media \in warm'.keep]_<<jobs, warm>>

============================================================================
