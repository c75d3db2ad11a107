-------------------------- MODULE PipelinedImport --------------------------
(***************************************************************************)
(* The default initial import of a resource (fetchProcessAndEnqueuePipe-   *)
(* lined in sync/resource.go): one goroutine fetches and saves pages and   *)
(* signals another, which projects what is there and, when the first is    *)
(* through, runs a last chain with the relink.  Delta daemons of Property  *)
(* and of open houses run next to it, in processes of their own.           *)
(***************************************************************************)
EXTENDS ChildLinks, FetchPage

CONSTANTS
    Importer,    \* the process that imports Property
    Feed,        \* the pages the import is going to find
    ChainOf,     \* per daemon, the chain of its resource
    MaxStarts,   \* bound: how often the import is started
    Deployments, \* the sets of processes that may be in use together
    Deltas,      \* per deployment and daemon, the pages the deltas find
    MaxFailures  \* bound, per deployment: deaths and errors that no answer of
                 \* upstream explains

Daemons == Processes \ {Importer}

ASSUME ImportAssumption ==
    /\ Importer \in Processes
    /\ Feed \in Seq(Pages) /\ Feed # << >>
    /\ \A n \in DOMAIN Feed : \A m \in DOMAIN Feed[n] :
          ResourceOf[Feed[n][m].key] # OpenHouse
    /\ ChainOf \in [Daemons -> Chains]
    /\ MaxStarts \in Nat
    /\ Deployments \subseteq SUBSET Processes
    /\ Deltas \in [Deployments -> [Daemons -> Seq(Pages \ {<< >>})]]
    /\ MaxFailures \in [Deployments -> Nat]

VARIABLES
    imp,      \* the import: its two goroutines and what they share
    fetched,  \* per daemon, how many of its pages it has saved
    failures, \* deaths and errors so far
    up        \* the processes in use; it never changes

vars == <<childVars, imp, fetched, failures, up>>

\* at: where the import is.  producer: what the fetching goroutine does, pageNo
\* and fetch the page it is at and its retry budgets.  consumer: what the other
\* one does.  signal and closed: the channel between them.  broken: the producer
\* has an error to return.  cancelled: a goroutine has returned one.  alone: no
\* other process has run Property passes meanwhile.
Fresh == [at |-> "importing", starts |-> 1, producer |-> "fetching", pageNo |-> 1,
          fetch |-> NewFetch, consumer |-> "ranging", signal |-> FALSE,
          closed |-> FALSE, broken |-> FALSE, cancelled |-> FALSE, alone |-> TRUE]

NotStarted == [Fresh EXCEPT !.at = "idle", !.starts = 0, !.producer = "returned",
                            !.consumer = "returned"]

Init ==
    /\ ChildInit
    /\ imp = NotStarted
    /\ fetched = [d \in Daemons |-> 0]
    /\ failures = 0
    /\ up \in Deployments

SomethingFails == failures < MaxFailures[up] /\ failures' = failures + 1

----------------------------------------------------------------------------
(* The import *)

Is(goroutine, at) == imp.at = "importing" /\ imp[goroutine] = at

PropertyDaemons == {d \in Daemons : run[d].chain # << >> /\ Current(d) # OpenHouse}

\* RunInitial, for the first time or again after a failure.
StartImport ==
    /\ imp.at \in {"idle", "failed"}
    /\ imp.starts < MaxStarts
    /\ Importer \in up
    /\ imp' = [Fresh EXCEPT !.starts = imp.starts + 1,
                            !.alone = PropertyDaemons = {}]
    /\ UNCHANGED <<childVars, fetched, failures>>

LastPage == Len(Feed)

\* paginate goes on to the next page, or returns when there is none.
ToNextPage(i) ==
    [i EXCEPT !.pageNo = @ + 1, !.fetch = NewFetch,
              !.producer = IF i.pageNo = LastPage THEN "closing" ELSE "fetching"]

Breaks(i) == [i EXCEPT !.producer = "closing", !.broken = TRUE]

\* The page arrives; one without records is neither saved nor signalled.
PageArrives ==
    /\ Is("producer", "fetching")
    /\ ~imp.cancelled
    /\ imp' = IF Feed[imp.pageNo] = << >>
              THEN ToNextPage(imp)
              ELSE [imp EXCEPT !.producer = "saving", !.fetch = NewFetch]
    /\ UNCHANGED <<childVars, fetched, failures>>

\* A request fails, as all do once the context is cancelled; the loop goes on, for
\* it looks only at its budgets.
RequestFails ==
    /\ Is("producer", "fetching")
    /\ \E answer \in IF imp.cancelled THEN {"broken"} ELSE Failures :
          LET tried == [imp EXCEPT !.fetch = AfterFailure(@, answer)]
          IN  imp' = IF GivesUp(imp.fetch, answer) THEN Breaks(tried) ELSE tried
    /\ UNCHANGED <<childVars, fetched, failures>>

\* The page cannot be read, or the rate limiter finds the context cancelled.
FetchBreaks ==
    /\ Is("producer", "fetching")
    /\ IF imp.cancelled
       THEN imp.fetch = NewFetch /\ UNCHANGED failures
       ELSE SomethingFails
    /\ imp' = Breaks(imp)
    /\ UNCHANGED <<childVars, fetched>>

MintFetched ==
    /\ Is("producer", "saving")
    /\ ~imp.cancelled
    /\ MintIds(Importer, Feed[imp.pageNo])
    /\ UNCHANGED <<imp, fetched, failures>>

SaveFetched ==
    /\ Is("producer", "saving")
    /\ ~imp.cancelled
    /\ SavePage(Importer)
    /\ imp' = [imp EXCEPT !.producer = "signalling"]
    /\ UNCHANGED <<fetched, failures>>

SaveBreaks ==
    /\ Is("producer", "saving")
    /\ IF imp.cancelled THEN UNCHANGED failures ELSE SomethingFails
    /\ DropPage(Importer)
    /\ imp' = Breaks(imp)
    /\ UNCHANGED <<chainVars, fetched>>

\* onPageSaved sends without blocking: a wake that is pending is enough.
Signal ==
    /\ Is("producer", "signalling")
    /\ imp' = [ToNextPage(imp) EXCEPT !.signal = TRUE]
    /\ UNCHANGED <<childVars, fetched, failures>>

\* A variant of CloseSignal: the close is not deferred, an error passes it by.
CloseUnlessBroken ==
    /\ Is("producer", "closing")
    /\ imp' = [imp EXCEPT !.producer = "returning", !.fetch = NewFetch,
                          !.closed = ~imp.broken]
    /\ UNCHANGED <<childVars, fetched, failures>>

\* The deferred close comes before errgroup sees the error; what FetchPage counted
\* is gone.
CloseSignal ==
    /\ Is("producer", "closing")
    /\ imp' = [imp EXCEPT !.producer = "returning", !.fetch = NewFetch,
                          !.closed = TRUE]
    /\ UNCHANGED <<childVars, fetched, failures>>

ProducerReturns ==
    /\ Is("producer", "returning")
    /\ imp' = [imp EXCEPT !.producer = "returned", !.cancelled = @ \/ imp.broken]
    /\ UNCHANGED <<childVars, fetched, failures>>

Produce ==
    \/ PageArrives \/ RequestFails
    \/ MintFetched \/ SaveFetched
    \/ imp.cancelled /\ (FetchBreaks \/ SaveBreaks)
    \/ Signal
    \/ CloseSignal
    \/ ProducerReturns

PropertyChain == << Property >> \o ChildResources

\* range receives a pending signal, also from a closed channel.
Wake ==
    /\ Is("consumer", "ranging")
    /\ imp.signal
    /\ StartChain(Importer, PropertyChain, FALSE)
    /\ imp' = [imp EXCEPT !.consumer = "draining", !.signal = FALSE]
    /\ UNCHANGED <<fetched, failures>>

\* A variant of LastDrain: the consumer leaves when the channel is closed.
LeaveUndrained ==
    /\ Is("consumer", "ranging")
    /\ imp.closed
    /\ imp' = [imp EXCEPT !.consumer = "returned"]
    /\ UNCHANGED <<childVars, fetched, failures>>

\* The channel is closed and empty: the last chain, with the relink.
LastDrain ==
    /\ Is("consumer", "ranging")
    /\ imp.closed /\ ~imp.signal
    /\ StartChain(Importer, PropertyChain, TRUE)
    /\ imp' = [imp EXCEPT !.consumer = "finishing"]
    /\ UNCHANGED <<fetched, failures>>

\* Nothing more of a chain succeeds once the context is cancelled.
Drain ==
    /\ IF imp.cancelled THEN FailChain(Importer) ELSE RunChain(Importer)
    /\ UNCHANGED <<imp, fetched, failures>>

ChainReturns ==
    /\ EndChain(Importer)
    /\ imp' = IF run[Importer].at = "failed"
              THEN [imp EXCEPT !.consumer = "returned", !.cancelled = TRUE]
              ELSE [imp EXCEPT !.consumer = IF @ = "draining" THEN "ranging"
                                                              ELSE "returned"]
    /\ UNCHANGED <<fetched, failures>>

Consume == Wake \/ LastDrain \/ Drain \/ ChainReturns

\* g.Wait
Join ==
    /\ Is("producer", "returned") /\ Is("consumer", "returned")
    /\ imp' = [imp EXCEPT !.at = IF imp.cancelled THEN "failed" ELSE "enqueueing"]
    /\ UNCHANGED <<childVars, fetched, failures>>

Enqueue ==
    /\ imp.at = "enqueueing"
    /\ \/ imp' = [imp EXCEPT !.at = "succeeded"] /\ UNCHANGED failures
       \/ imp' = [imp EXCEPT !.at = "failed"] /\ SomethingFails
    /\ UNCHANGED <<childVars, fetched>>

ImportDies ==
    /\ imp.at \in {"importing", "enqueueing"}
    /\ SomethingFails
    /\ Die(Importer)
    /\ imp' = [NotStarted EXCEPT !.at = "failed", !.starts = imp.starts]
    /\ UNCHANGED fetched

----------------------------------------------------------------------------
(* The daemons *)

\* A delta's page, saved before the delta's chain starts.
DaemonMints(d) ==
    /\ run[d] = Off
    /\ fetched[d] < Len(Deltas[up][d])
    /\ MintIds(d, Deltas[up][d][fetched[d] + 1])
    /\ UNCHANGED <<imp, fetched, failures>>

DaemonSaves(d) ==
    /\ SavePage(d)
    /\ fetched' = [fetched EXCEPT ![d] = @ + 1]
    /\ UNCHANGED <<imp, failures>>

\* The delta fails; the next one finds the page again.
SaveFails(d) ==
    /\ minted[d] # {}
    /\ SomethingFails
    /\ DropPage(d)
    /\ UNCHANGED <<chainVars, imp, fetched>>

\* Every tick runs the chain, whether or not the delta brought rows.
Tick(d, chain) ==
    /\ minted[d] = {}
    /\ StartChain(d, chain, TRUE)
    /\ imp' = [imp EXCEPT !.alone = @ /\ Head(chain) # Property]
    /\ UNCHANGED <<fetched, failures>>

RunDaemon(d) ==
    /\ RunChain(d) \/ EndChain(d)
    /\ UNCHANGED <<imp, fetched, failures>>

Daemon(d) ==
    \/ DaemonMints(d) \/ DaemonSaves(d) \/ SaveFails(d)
    \/ Tick(d, ChainOf[d]) \/ RunDaemon(d)

\* A database error in a pass of any process.  Postgres ends one of two
\* transactions that wait for each other's rows this way, as AfterPass and the
\* bulk upsert of another process may.
PassFails ==
    /\ \E p \in Processes : FailChain(p)
    /\ SomethingFails
    /\ UNCHANGED <<imp, fetched>>

----------------------------------------------------------------------------

Step ==
    \/ StartImport
    \/ Produce \/ FetchBreaks \/ SaveBreaks
    \/ Consume
    \/ Join \/ Enqueue
    \/ ImportDies
    \/ \E d \in Daemons \cap up : Daemon(d)
    \/ PassFails

Next == Step /\ UNCHANGED up

Spec == Init /\ [][Next]_vars

(***************************************************************************)
(* Goroutines and passes go on, a page that has its ids commits or is lost,*)
(* and Postgres queues the waiters of an advisory lock, hence strong       *)
(* fairness for them.  Daemons keep ticking, and deltas that fetch keep    *)
(* succeeding, for a delta that fails does not come to its chain.          *)
(* Nothing makes upstream answer with a page, an operator start an import  *)
(* again, or a daemon find a page.                                         *)
(***************************************************************************)
Fairness ==
    /\ WF_vars(Produce /\ UNCHANGED up)
    /\ WF_vars(Consume /\ UNCHANGED up)
    /\ WF_vars((Join \/ Enqueue) /\ UNCHANGED up)
    /\ \A d \in Daemons :
          /\ WF_vars(DaemonSaves(d) /\ UNCHANGED up)
          /\ WF_vars(RunDaemon(d) /\ UNCHANGED up)
          /\ WF_vars(d \in up /\ Tick(d, ChainOf[d]) /\ UNCHANGED up)
    /\ \A p \in Processes :
          SF_vars(AcquireLock(p) /\ UNCHANGED <<imp, fetched, failures, up>>)

FairSpec == Spec /\ Fairness

----------------------------------------------------------------------------
(* Properties *)

Import == [at : {"idle", "importing", "enqueueing", "succeeded", "failed"},
           starts : 0 .. MaxStarts,
           producer : {"fetching", "saving", "signalling", "closing",
                       "returning", "returned"},
           pageNo : Nat, fetch : Budget,
           consumer : {"ranging", "draining", "finishing", "returned"},
           signal : BOOLEAN, closed : BOOLEAN, broken : BOOLEAN,
           cancelled : BOOLEAN, alone : BOOLEAN]

TypeOK ==
    /\ ChildTypeOK
    /\ imp \in Import
    /\ imp.fetch.attempts <= MaxRetries
    /\ imp.fetch.streak <= MaxConsecutive429 + 1
    /\ fetched \in [Daemons -> Nat]
    /\ failures \in 0 .. MaxFailures[up]
    /\ up \in Deployments

(***************************************************************************)
(* 429s and other failures, in any order, cannot make FetchPage send more  *)
(* than a fixed number of requests, although they use different budgets    *)
(* and one failure restores what the other has used.                       *)
(***************************************************************************)
FetchIsBounded == imp.fetch.requests <= MostRequests

Projected(row) ==
    \E i \in projected : raw[i].key = row.key /\ raw[i].sma = row.sma

(***************************************************************************)
(* Signals that fall together, a channel that is closed with one pending,  *)
(* failed attempts and other processes' passes lose nothing: when the      *)
(* import comes to its enqueue, every row of every page is saved and some  *)
(* pass has projected it.  The jobs it enqueues refer to rows these passes *)
(* wrote.  This rests on pages of one resource being saved one at a time:  *)
(* a page that commits behind another process's higher ids may be skipped. *)
(***************************************************************************)
SuccessIsComplete ==
    imp.at \in {"enqueueing", "succeeded"} /\ apart =>
        \A n \in 1 .. LastPage : \A m \in DOMAIN Feed[n] :
            Projected(Feed[n][m])

(***************************************************************************)
(* Rooms that a page-wise drain projected before their listing are linked  *)
(* when the import succeeds, unless another process projected rooms of the *)
(* import meanwhile.                                                       *)
(***************************************************************************)
SuccessLinksRooms ==
    imp.at = "succeeded" /\ imp.alone =>
        \A c \in Children : ResourceOf[c] # OpenHouse => ~Parked(c)

(***************************************************************************)
(* Nobody waits for what nobody will do: a pass waits for an advisory lock *)
(* only while its holder is in the middle of a pass, in which it waits for *)
(* no other lock; the consumer waits for a signal only while the producer  *)
(* is still to send or to close, and for a chain only while there is one.  *)
(***************************************************************************)
NobodyWaitsInVain ==
    /\ \A p \in Processes : run[p].at = "waiting" /\ lock[Current(p)] # NoProcess =>
          run[lock[Current(p)]].at \in {"draining", "writing", "relinking"}
    /\ imp.at = "importing" =>
          /\ imp.consumer = "ranging" /\ ~imp.closed =>
                imp.producer \notin {"returning", "returned"}
          /\ imp.consumer \in {"draining", "finishing"} => run[Importer].at # "off"

(***************************************************************************)
(* The two goroutines never wait for each other for ever: an import that   *)
(* is running succeeds or fails.                                           *)
(***************************************************************************)
ImportEnds == imp.at = "importing" ~> imp.at # "importing"

BadListingSaved == \E i \in committed : raw[i].bad /\ raw[i].key \in Listings

(***************************************************************************)
(* A child that missed its listing, because it was read before the listing *)
(* was committed and written after the relink, is linked in the end, as    *)
(* long as no bad listing keeps the Property passes from their AfterPass.  *)
(***************************************************************************)
ParkedGetLinked ==
    \A c \in Children :
        (Parked(c) /\ \E d \in up \cap Daemons : Head(ChainOf[d]) = Property)
            ~> (~Parked(c) \/ BadListingSaved)

(***************************************************************************)
(* Links are set to listings that exist and are never cleared.             *)
(***************************************************************************)
Links == INSTANCE ParkedLinks WITH
    Children <- Children, Listings <- Listings, NoLink <- NoLink,
    listings <- ExistingListings,
    named <- [c \in Children |-> Named(c)],
    link <- link
ImplementsParkedLinks == Links!LinkSpec

============================================================================
