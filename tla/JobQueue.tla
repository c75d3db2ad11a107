------------------------------ MODULE JobQueue ------------------------------
(***************************************************************************)
(* What the attachment_job table promises to whoever looks at it, with no  *)
(* word of processes, leases and lost races: a queue of images to          *)
(* download.  An entry is claimed from waiting, ends once and for good, by *)
(* success only with bytes as new as it was enqueued for, and goes back to *)
(* waiting at the price of an attempt or, when a claim lapses, for         *)
(* nothing.  A media row is linked from a succeeded entry of its own.      *)
(***************************************************************************)
EXTENDS Naturals, Sequences, FiniteSets

CONSTANTS Media, Listings, ListingOf, Contents, Revisions, \* as in AttachmentJobs
          BatchSize, MaxAttempts, NoContent

VARIABLES
    published, \* per media key, the revisions upstream has published
    queue,     \* the entries, each at its place in the order of their creation
    link       \* per media key, the bytes its row shows

queueVars == <<published, queue, link>>

Entry == [media : Media, rev : Nat, attempts : Nat,
          state : {"waiting", "in_progress", "succeeded", "permanently_failed",
                   "canceled"},
          content : Contents \cup {NoContent}]

QueueInit ==
    /\ published = [m \in Media |-> 0]
    /\ queue = << >>
    /\ link = [m \in Media |-> NoContent]

In(state) == {j \in DOMAIN queue : queue[j].state = state}

PublishRevision(m) ==
    /\ published' = [published EXCEPT ![m] = @ + 1]
    /\ UNCHANGED <<queue, link>>

\* A new entry is for a revision that has been published.
IsNew(entry) ==
    /\ entry \in Entry
    /\ entry.state = "waiting" /\ entry.attempts = 0 /\ entry.content = NoContent
    /\ published[entry.media] > 0 /\ entry.rev <= published[entry.media]

\* Entries join at the end, and those there are stay as they are.
Join ==
    /\ DOMAIN queue \subseteq DOMAIN queue'
    /\ \A i \in DOMAIN queue : queue'[i] = queue[i]
    /\ \A j \in DOMAIN queue' \ DOMAIN queue :
          IsNew(queue'[j]) /\ \A i \in DOMAIN queue : i < j
    /\ UNCHANGED <<published, link>>

Move(js, state) ==
    /\ queue' = [j \in DOMAIN queue |->
                    IF j \in js THEN [queue[j] EXCEPT !.state = state] ELSE queue[j]]
    /\ UNCHANGED <<published, link>>

Take == \E js \in SUBSET In("waiting") :
            Cardinality(js) <= BatchSize /\ Move(js, "in_progress")

\* Claims lapse, and nothing else of the entries changes.
Lapse == \E js \in SUBSET In("in_progress") : Move(js, "waiting")

\* All that a listing still waits for, claimed or not.
Withdraw(l) ==
    Move({j \in In("waiting") \cup In("in_progress") : ListingOf[queue[j].media] = l},
         "canceled")

Finish(j) ==
    /\ \E n \in 1 .. published[queue[j].media] :
          /\ n >= queue[j].rev
          /\ queue' = [queue EXCEPT ![j].state = "succeeded",
                                    ![j].content = Revisions[queue[j].media][n]]
    /\ UNCHANGED <<published, link>>

\* A recorded failure: back to waiting while there are attempts left, or for good.
Fault(j) ==
    /\ \E state \in {"waiting", "permanently_failed"} :
          /\ state = "waiting" => queue[j].attempts + 1 < MaxAttempts
          /\ queue' = [queue EXCEPT ![j].state = state, ![j].attempts = @ + 1]
    /\ UNCHANGED <<published, link>>

Show(j) ==
    /\ link' = [link EXCEPT ![queue[j].media] = queue[j].content]
    /\ UNCHANGED <<published, queue>>

QueueNext ==
    \/ \E m \in Media : PublishRevision(m)
    \/ Join \/ Take \/ Lapse
    \/ \E l \in Listings : Withdraw(l)
    \/ \E j \in In("in_progress") : Finish(j) \/ Fault(j)
    \/ \E j \in In("succeeded") : Show(j)

QueueSpec == QueueInit /\ [][QueueNext]_queueVars
============================================================================
