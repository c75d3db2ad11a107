-------------------------- MODULE SkipPagedImport --------------------------
(***************************************************************************)
(* The import with mls.fetch_concurrency above 1: workers of one process   *)
(* fetch pages at offsets into the ordered feed and save them as they come *)
(* (paginateConcurrentInit in sync/resource.go).  The daemon of SyncRuns   *)
(* goes on next to it.                                                     *)
(***************************************************************************)
EXTENDS SyncRuns

CONSTANTS
    Importer,      \* the importer that fetches this way
    FetchWorkers,  \* its workers
    Quiet          \* whether upstream rests while they fetch

ASSUME SkipAssumption ==
    /\ Importer \in Importers
    /\ FetchWorkers # {}
    /\ Quiet \in BOOLEAN

VARIABLES
    nextIdx,  \* the next page to fetch
    boundary, \* the first page known to be short
    workers   \* per worker, its page and where it is with it

skipVars == <<nextIdx, boundary, workers>>
allVars == <<vars, skipVars>>

\* math.MaxInt64
Unbounded == 1000000

Ready == [at |-> "take", idx |-> 0, page |-> {}]

SkipInit ==
    /\ Init
    /\ nextIdx = 0
    /\ boundary = Unbounded
    /\ workers = [w \in FetchWorkers |-> Ready]

\* The variables of paginateConcurrentInit, as it starts and when it is gone.
FreshCounters ==
    /\ nextIdx' = 0
    /\ boundary' = Unbounded
    /\ workers' = [w \in FetchWorkers |-> Ready]

SetWorker(w, s) == workers' = [workers EXCEPT ![w] = s]

Fetching == runs[Importer].at = "skip"

\* RunInitial
StartSkipPaged ==
    /\ runs[Importer] = Idle
    /\ SetRun(Importer, [Idle EXCEPT !.at = "skip", !.fallback = clock])
    /\ FreshCounters
    /\ UNCHANGED <<upstream, raw, events, failures>>

\* The counter moves on whether or not there is such a page.
TakePage(w) ==
    /\ Fetching
    /\ workers[w].at = "take"
    /\ nextIdx' = nextIdx + 1
    /\ SetWorker(w, [Ready EXCEPT !.at = "check", !.idx = nextIdx])
    /\ UNCHANGED <<vars, boundary>>

\* The boundary is loaded after that.
CheckBoundary(w) ==
    /\ Fetching
    /\ workers[w].at = "check"
    /\ SetWorker(w, IF workers[w].idx >= boundary THEN [Ready EXCEPT !.at = "done"]
                    ELSE [workers[w] EXCEPT !.at = "fetch"])
    /\ UNCHANGED <<vars, nextIdx, boundary>>

\* The page at that offset of the feed as it is now.
PageAt(idx) == First((idx + 1) * PageSize, feed) \ First(idx * PageSize, feed)

\* A variant of Short: a full page is taken for the last one.
ShortOrFull(page) == Cardinality(page) <= PageSize

Short(page) == Cardinality(page) < PageSize

\* A short page lowers the boundary, whether or not it holds rows.
FetchAt(w) ==
    /\ Fetching
    /\ workers[w].at = "fetch"
    /\ LET page == PageAt(workers[w].idx)
       IN  /\ boundary' = IF Short(page) /\ workers[w].idx < boundary
                          THEN workers[w].idx ELSE boundary
           /\ SetWorker(w, [workers[w] EXCEPT !.at = "save", !.page = page])
    /\ UNCHANGED <<vars, nextIdx>>

\* After a short page the worker is done.
SaveAt(w) ==
    /\ Fetching
    /\ workers[w].at = "save"
    /\ raw' = raw \cup workers[w].page
    /\ SetRun(Importer, [runs[Importer] EXCEPT
                            !.hwm = MaxOf(Written(workers[w].page) \cup {@})])
    /\ SetWorker(w, IF Short(workers[w].page) THEN [Ready EXCEPT !.at = "done"]
                    ELSE Ready)
    /\ UNCHANGED <<upstream, events, failures, nextIdx, boundary>>

\* Every worker has returned; the passes and the enqueue come next.
Join ==
    /\ Fetching
    /\ \A w \in FetchWorkers : workers[w].at = "done"
    /\ SetRun(Importer, [runs[Importer] EXCEPT !.at = "finish"])
    /\ FreshCounters
    /\ UNCHANGED <<upstream, raw, events, failures>>

\* The first error cancels the other workers.
FailImport == Fail(Importer) /\ FreshCounters

SkipPaged ==
    \/ StartSkipPaged
    \/ \E w \in FetchWorkers :
          TakePage(w) \/ CheckBoundary(w) \/ FetchAt(w) \/ SaveAt(w)
    \/ Join
    \/ FailImport

\* What goes on besides: the rest of SyncRuns.
Besides ==
    \/ (Quiet => ~Fetching) /\ Upstream
    \/ Finish(Importer)
    \/ \E r \in Daemons : RunDelta(r)
    \/ \E r \in Runners \ {Importer} : Fail(r)

SkipNext == SkipPaged \/ (Besides /\ UNCHANGED skipVars)

SkipSpec == SkipInit /\ [][SkipNext]_allVars

----------------------------------------------------------------------------
(* Properties *)

SkipTypeOK ==
    /\ TypeOK
    /\ nextIdx \in Nat
    /\ boundary \in 0 .. Unbounded
    /\ workers \in [FetchWorkers -> [at : {"take", "check", "fetch", "save", "done"},
                                     idx : Nat, page : SUBSET Row]]

(***************************************************************************)
(* An import that fetched everything has everything: when its workers are  *)
(* done, the speculative pages beyond the end and the order in which the   *)
(* workers met it have left no page out.                                   *)
(***************************************************************************)
ImportIsWhole ==
    (Fetching /\ \A w \in FetchWorkers : workers[w].at = "done") => feed \subseteq raw

============================================================================
