------------------------------ MODULE SyncRuns ------------------------------
(***************************************************************************)
(* One fetchable resource: imports and delta syncs that page through the   *)
(* upstream feed into raw_output and keep the delta cursor in sync_event   *)
(* (sync/run.go, sync/resource.go, sync/service.go).                       *)
(*                                                                         *)
(* A record upstream is its latest modification; timestamps are coarser    *)
(* than modifications, and the feed is in the order in which these were    *)
(* made.  Of sync_event only the successful rows are kept: a running or    *)
(* failed one has no high-water mark and no reader, whether it ended, was  *)
(* abandoned or was swept.                                                 *)
(***************************************************************************)
EXTENDS Naturals, FiniteSets

CONSTANTS
    NumKeys,     \* source keys
    PageSize,    \* mls.PageSize
    Month,       \* how far back the first delta reaches
    Importers,   \* processes that run import or init
    Daemons,     \* processes that run the sync daemon
    MaxTime,     \* bound: the clock
    MaxChanges,  \* bound: modifications upstream
    MaxFailures  \* bound: runs that fail or are abandoned

Keys == 1 .. NumKeys
Runners == Importers \cup Daemons
Row == [time : Nat, n : Nat, key : Keys]

ASSUME SyncAssumption ==
    /\ NumKeys \in Nat
    /\ PageSize \in Nat \ {0}
    /\ Month \in Nat
    /\ MaxTime \in Nat
    /\ MaxChanges \in Nat
    /\ MaxFailures \in Nat
    /\ Importers \cap Daemons = {}

VARIABLES
    clock,    \* the time, the same upstream and here
    changes,  \* how many modifications were made upstream
    feed,     \* the records upstream, each its latest modification
    raw,      \* raw_output: the rows saved
    events,   \* the successful sync_events: their run type and high-water mark
    runs,     \* per process, its run
    failures  \* runs that failed or were abandoned so far

upstream == <<clock, changes, feed>>
vars == <<upstream, raw, events, runs, failures>>

\* No run.
Idle == [at |-> "idle", since |-> 0, fallback |-> 0, pos |-> 0,
         page |-> {}, last |-> FALSE, hwm |-> 0]

Init ==
    /\ clock = Month + 2
    /\ changes \in 0 .. NumKeys
    /\ feed = {[time |-> 1, n |-> k, key |-> k] : k \in 1 .. changes}
    /\ raw = {}
    /\ events = {}
    /\ runs = [r \in Runners |-> Idle]
    /\ failures = 0

SetRun(r, run) == runs' = [runs EXCEPT ![r] = run]

----------------------------------------------------------------------------
(* Upstream *)

\* Time passes; no import goes on for as long as the first delta reaches back.
Tick ==
    /\ clock < MaxTime
    /\ \A r \in Importers : runs[r] # Idle => clock < runs[r].fallback + Month
    /\ clock' = clock + 1
    /\ UNCHANGED <<changes, feed, raw, events, runs, failures>>

\* A record appears or changes; none changes twice at the same timestamp.
Modify(k) ==
    /\ changes < MaxChanges
    /\ \A row \in feed : row.key = k => row.time < clock
    /\ changes' = changes + 1
    /\ feed' = {row \in feed : row.key # k}
                  \cup {[time |-> clock, n |-> changes', key |-> k]}
    /\ UNCHANGED <<clock, raw, events, runs, failures>>

\* The first n of them.
First(n, rows) == {r \in rows : Cardinality({q \in rows : q.n < r.n}) < n}

MaxOf(ns) == CHOOSE n \in ns : \A m \in ns : m <= n

----------------------------------------------------------------------------
(* The cursor *)

HighWaterMarks == {e.hwm : e \in events}

\* The greatest of the successful events, 0 with none.
LastSuccessfulHWM == MaxOf(HighWaterMarks \cup {0})

\* What a delta run that starts now asks for.
Cursor == IF LastSuccessfulHWM # 0 THEN LastSuccessfulHWM ELSE clock - Month

----------------------------------------------------------------------------
(* A run *)

\* RunInitial: everything; with nothing new it stamps the time it started at.
StartImport(r) ==
    /\ runs[r] = Idle
    /\ SetRun(r, [Idle EXCEPT !.at = "fetch", !.fallback = clock])
    /\ UNCHANGED <<upstream, raw, events, failures>>

\* RunDelta: with nothing new it stamps the cursor it asked with.
StartDelta(r) ==
    /\ runs[r] = Idle
    /\ SetRun(r, [Idle EXCEPT !.at = "fetch", !.since = Cursor, !.fallback = Cursor])
    /\ UNCHANGED <<upstream, raw, events, failures>>

\* A variant of Matching: the filter is gt and not ge.
MatchingAfter(run) == {row \in feed : row.time > run.since /\ row.n > run.pos}

\* What the filter matches behind the rows that were returned already.
Matching(run) == {row \in feed : row.time >= run.since /\ row.n > run.pos}

\* paginate: the next page; there is no next link when it returns all there is.
FetchPage(r) ==
    /\ runs[r].at = "fetch"
    /\ LET rest == Matching(runs[r])
           page == First(PageSize, rest)
       IN  SetRun(r, [runs[r] EXCEPT
                         !.at = "save",
                         !.page = page,
                         !.pos = MaxOf({row.n : row \in page} \cup {@}),
                         !.last = (page = rest)])
    /\ UNCHANGED <<upstream, raw, events, failures>>

\* saveToRawOutput counts the rows that were not suppressed as duplicates.
Written(page) == {row.time : row \in page \ raw}

SavePage(r) ==
    /\ runs[r].at = "save"
    /\ raw' = raw \cup runs[r].page
    /\ SetRun(r, [runs[r] EXCEPT
                     !.at = IF @ = "save" /\ runs[r].last THEN "finish" ELSE "fetch",
                     !.page = {},
                     !.hwm = MaxOf(Written(runs[r].page) \cup {@})])
    /\ UNCHANGED <<upstream, events, failures>>

TypeOf(r) == IF r \in Importers THEN "backfill" ELSE "sync"

\* A variant of Stamp: nothing new, and there is no mark.
StampNothing(r) == runs[r].hwm

\* A variant of Stamp: nothing new, and the mark is the time it ends at.
StampNow(r) == IF runs[r].hwm = 0 THEN clock ELSE runs[r].hwm

\* stampOutcome after a success
Stamp(r) == IF runs[r].hwm = 0 THEN runs[r].fallback ELSE runs[r].hwm

\* The processor passes and the enqueue have succeeded.
Finish(r) ==
    /\ runs[r].at = "finish"
    /\ events' = events \cup {[type |-> TypeOf(r), hwm |-> Stamp(r)]}
    /\ SetRun(r, Idle)
    /\ UNCHANGED <<upstream, raw, failures>>

\* A page, a pass, the enqueue or the stamp fails, or the process dies.  The rows
\* already saved stay.
Fail(r) ==
    /\ runs[r] # Idle
    /\ failures < MaxFailures
    /\ failures' = failures + 1
    /\ SetRun(r, Idle)
    /\ UNCHANGED <<upstream, raw, events>>

Page(r) == FetchPage(r) \/ SavePage(r) \/ Finish(r)

RunDelta(r) == StartDelta(r) \/ Page(r)

Upstream == Tick \/ \E k \in Keys : Modify(k)

Next ==
    \/ Upstream
    \/ \E r \in Importers : StartImport(r) \/ Page(r)
    \/ \E r \in Daemons : RunDelta(r)
    \/ \E r \in Runners : Fail(r)

Spec == Init /\ [][Next]_vars

(***************************************************************************)
(* The daemon's ticker starts a cycle for ever and a cycle ends; an import *)
(* is run by hand.                                                         *)
(***************************************************************************)
Fairness == \A r \in Daemons : WF_vars(RunDelta(r))

FairSpec == Spec /\ Fairness

----------------------------------------------------------------------------
(* Properties *)

Run == [at : {"idle", "fetch", "save", "finish", "skip"}, since : Nat, fallback : Nat,
        pos : Nat, page : SUBSET Row, last : BOOLEAN, hwm : Nat]

TypeOK ==
    /\ clock \in Nat
    /\ changes \in Nat
    /\ feed \subseteq Row
    /\ raw \subseteq Row
    /\ events \subseteq [type : {"backfill", "sync"}, hwm : Nat \ {0}]
    /\ runs \in [Runners -> Run]
    /\ failures \in 0 .. MaxFailures

(***************************************************************************)
(* Once an import has succeeded, the cursor never leaves a record behind:  *)
(* the latest modification of every record older than the next delta's     *)
(* window is in raw_output, whatever runs overlap, fail or are repeated.   *)
(***************************************************************************)
NoChangeLost ==
    (\E e \in events : e.type = "backfill") =>
        \A row \in feed : row.time < Cursor => row \in raw

(***************************************************************************)
(* Once an import has succeeded, the daemon catches up: when upstream is   *)
(* quiet for long enough, its records are all in raw_output.               *)
(***************************************************************************)
ChangesArrive == (\E e \in events : e.type = "backfill") ~> feed \subseteq raw

============================================================================
