-------------------------- MODULE SyncRuns_proofs --------------------------
(***************************************************************************)
(* Any number of imports and daemons over one resource, with failures: the *)
(* delta cursor never passes a modification that is not in raw_output.     *)
(* Then, with an import whose workers fetch by offset: when they are done, *)
(* they have brought all of a feed at rest.                                *)
(***************************************************************************)
EXTENDS SkipPagedImport, FiniteSetTheorems, WellFoundedInduction, TLAPS

Active(r) == runs[r].at # "idle"

BackfillDone == \E e \in events : e.type = "backfill"

\* The rows with a time from lo to before hi are saved.
Saved(lo, hi) == \A row \in feed : lo <= row.time /\ row.time < hi => row \in raw

\* The feed's rows are in the order of their modification, and none is of the future.
FeedInOrder ==
    /\ IsFiniteSet(feed)
    /\ \A row \in feed : 0 < row.n /\ row.n <= changes /\ row.time <= clock
    /\ \A row, later \in feed : row.n <= later.n => row.time <= later.time

\* What a run has read of the feed lies before its position, and what it has
\* not lies behind it in time too.
ReadsInOrder(r) ==
    /\ runs[r].pos <= changes
    /\ \A p \in runs[r].page : p.time <= clock
    /\ \A row \in feed : row.n > runs[r].pos =>
          /\ runs[r].hwm <= row.time
          /\ \A p \in runs[r].page : p.time <= row.time

\* What the filter matches up to the position is saved or in hand.
NothingMissed(r) ==
    /\ runs[r].at # "save" => runs[r].page = {}
    /\ \A row \in feed : runs[r].since <= row.time /\ row.n <= runs[r].pos =>
          row \in raw \cup runs[r].page

\* After the last page only what came after the run's start is behind it.
EndIsReached(r) ==
    runs[r].last =>
        \A row \in feed :
            runs[r].since <= row.time /\ row.n > runs[r].pos =>
                runs[r].fallback <= row.time

\* What is older than the mark a run is going to leave, or than the one it would
\* leave with nothing new, is saved.
LeavesNothing(r) ==
    \A row \in feed :
        /\ runs[r].since <= row.time
        /\ row.time < Stamp(r) \/ row.time < runs[r].fallback
        => row \in raw

\* An import asks for everything and ends within the first delta's reach; a
\* daemon stamps no less than what it asked from.
AsksFrom(r) ==
    /\ runs[r].fallback \in 1 .. clock
    /\ r \in Importers => runs[r].since = 0 /\ clock <= runs[r].fallback + Month
    /\ r \in Daemons => runs[r].since = runs[r].fallback

\* A run that fetches by offset has nothing to show before its workers are done.
RunMakesSense(r) ==
    /\ AsksFrom(r) /\ runs[r].hwm <= clock
    /\ runs[r].at \in {"fetch", "save"} =>
          ReadsInOrder(r) /\ NothingMissed(r) /\ EndIsReached(r)
    /\ runs[r].at = "finish" => LeavesNothing(r)

RunsMakeSense == \A r \in Runners : Active(r) => RunMakesSense(r)

EventsAreOfThePast == \A e \in events : e.hwm <= clock

FirstDeltasReachBack ==
    events = {} =>
        \A r \in Daemons : Active(r) => runs[r].since + Month <= clock

(***************************************************************************)
(* From lo on, what is older than the cursor, or than what a delta in      *)
(* flight asks from, is saved; what is older than lo, the import brings.   *)
(***************************************************************************)
CoveredFrom(lo) ==
    /\ ~BackfillDone =>
          \A r \in Importers : Active(r) => lo <= runs[r].fallback
    /\ BackfillDone => Saved(0, lo)
    /\ \A e \in events : Saved(lo, e.hwm)
    /\ \A r \in Daemons : Active(r) => Saved(lo, runs[r].since)

IInv ==
    /\ TypeOK
    /\ Month + 2 <= clock
    /\ FeedInOrder
    /\ RunsMakeSense
    /\ EventsAreOfThePast
    /\ FirstDeltasReachBack
    /\ \E lo \in 0 .. clock : CoveredFrom(lo)

\* What every step but a successful end does to the tables and the clock.
Grows ==
    /\ clock <= clock'
    /\ changes <= changes'
    /\ raw \subseteq raw'
    /\ \A row \in feed' : row \in feed \/ (changes < row.n /\ clock <= row.time)

----------------------------------------------------------------------------
(* Sets of numbers and of rows *)

\* A bounded set of numbers has a greatest member, and MaxOf is it.
LEMMA MaxIsGreatest ==
    ASSUME NEW S \in SUBSET Nat, S # {}, NEW b \in Nat, \A x \in S : x <= b
    PROVE  /\ MaxOf(S) \in S
           /\ \A m \in S : m <= MaxOf(S)
<1> DEFINE T == {b - x : x \in S}
<1>1. T \subseteq Nat
  OBVIOUS
<1>2. T # {}
  OBVIOUS
<1>3. PICK d \in T : \A y \in T : ~(<<y, d>> \in OpToRel(<, Nat))
  <2> HIDE DEF T
  <2> QED
    BY <1>1, <1>2, NatLessThanWellFounded, WFMin, Zenon
<1>4. PICK n \in S : d = b - n
  BY <1>3
<1>5. ASSUME NEW m \in S
      PROVE  m <= n
  <2>1. ~(b - m < b - n)
    <3>1. b - m \in T /\ b - m \in Nat /\ b - n \in Nat
      BY <1>1, <1>4
    <3> QED
      BY <1>3, <1>4, <3>1, Zenon DEF OpToRel
  <2> QED
    BY <2>1
<1> QED
  BY <1>5 DEF MaxOf

\* The first of some rows are among them, and whatever comes before one of them
\* is one of them.
LEMMA FirstAreFirst ==
    ASSUME NEW n \in Nat, NEW rows \in SUBSET Row, IsFiniteSet(rows)
    PROVE  /\ First(n, rows) \subseteq rows
           /\ \A p \in First(n, rows) : \A row \in rows :
                 row.n <= p.n => row \in First(n, rows)
<1> SUFFICES ASSUME NEW p \in First(n, rows), NEW row \in rows, row.n <= p.n
             PROVE  row \in First(n, rows)
  BY DEF First
<1> DEFINE Before(r) == {q \in rows : q.n < r.n}
<1>1. p \in rows /\ Cardinality(Before(p)) < n
  BY DEF First
<1>2. Before(row) \subseteq Before(p)
  BY <1>1 DEF Row
<1>3. IsFiniteSet(Before(p))
  BY FS_Subset
<1>4. IsFiniteSet(Before(row)) /\ Cardinality(Before(row)) <= Cardinality(Before(p))
  <2> HIDE DEF Before
  <2> QED
    BY <1>2, <1>3, FS_Subset
<1>5. Cardinality(Before(row)) \in Nat /\ Cardinality(Before(p)) \in Nat
  <2> HIDE DEF Before
  <2> QED
    BY <1>3, <1>4, FS_CardinalityType
<1>6. Cardinality(Before(row)) < n
  <2> HIDE DEF Before
  <2> QED
    BY <1>1, <1>4, <1>5
<1> QED
  BY <1>6 DEF First

----------------------------------------------------------------------------
(* What a step leaves as it was *)

\* A run that a step does not touch still makes sense after it.
LEMMA UntouchedRun ==
    ASSUME IInv, TypeOK', Grows, NEW r \in Runners, Active(r), runs'[r] = runs[r],
           r \in Importers => clock' <= runs[r].fallback + Month
    PROVE  RunMakesSense(r)'
<1>0. RunMakesSense(r) /\ TypeOK
  BY DEF IInv, RunsMakeSense
<1>1. runs[r] \in Run
  BY <1>0 DEF TypeOK
<1>2. /\ clock \in Nat /\ clock' \in Nat /\ changes \in Nat /\ changes' \in Nat
      /\ feed \subseteq Row /\ feed' \subseteq Row
  BY <1>0 DEF TypeOK
<1>3. AsksFrom(r)' /\ runs'[r].hwm <= clock'
  BY <1>0, <1>1, <1>2 DEF RunMakesSense, AsksFrom, Grows, Run
<1>4. ASSUME ReadsInOrder(r) /\ NothingMissed(r) /\ EndIsReached(r)
      PROVE  (ReadsInOrder(r) /\ NothingMissed(r) /\ EndIsReached(r))'
  <2>1. ReadsInOrder(r)'
    BY <1>0, <1>1, <1>2, <1>4 DEF RunMakesSense, ReadsInOrder, Grows, Run, Row
  <2>2. NothingMissed(r)'
    BY <1>0, <1>1, <1>2, <1>4 DEF ReadsInOrder, NothingMissed, Grows, Run, Row
  <2>3. EndIsReached(r)'
    BY <1>0, <1>1, <1>2, <1>4 DEF RunMakesSense, EndIsReached, AsksFrom, Grows, Run, Row
  <2> QED
    BY <2>1, <2>2, <2>3
<1>5. ASSUME LeavesNothing(r) PROVE LeavesNothing(r)'
  <2>1. Stamp(r)' = Stamp(r) /\ Stamp(r) \in Nat /\ Stamp(r) <= clock
    BY <1>0, <1>1, <1>2 DEF Stamp, RunMakesSense, AsksFrom, Run
  <2>2. runs[r].fallback \in Nat /\ runs[r].fallback <= clock
    BY <1>0, <1>1, <1>2 DEF RunMakesSense, AsksFrom, Run
  <2>3. ASSUME NEW row \in feed', row.time < Stamp(r) \/ row.time < runs[r].fallback
        PROVE  row \in feed
    BY <1>2, <2>1, <2>2, <2>3 DEF Grows, Row
  <2> QED
    BY <1>5, <2>1, <2>3 DEF LeavesNothing, Grows
<1> QED
  BY <1>0, <1>3, <1>4, <1>5 DEF RunMakesSense

\* What was saved between two times of the past is still all there is.
LEMMA SavedStays ==
    ASSUME TypeOK, TypeOK', Grows, NEW lo \in Nat, NEW hi \in Nat, hi <= clock, Saved(lo, hi)
    PROVE  \A row \in feed' : lo <= row.time /\ row.time < hi => row \in raw'
<1>1. clock \in Nat /\ feed' \subseteq Row
  BY DEF TypeOK
<1> QED
  BY <1>1 DEF Saved, Grows, Row

\* A step of one run, or of none, that neither starts nor ends one with success.
LEMMA OneRunSteps ==
    ASSUME IInv, TypeOK', FeedInOrder', Grows, events' = events, NEW s,
           \A r \in Runners \ {s} : runs'[r] = runs[r],
           \A r \in Importers : Active(r) => clock' <= runs[r].fallback + Month,
           s \in Runners /\ Active(s)' =>
               /\ Active(s) /\ RunMakesSense(s)'
               /\ runs'[s].since = runs[s].since
               /\ runs'[s].fallback = runs[s].fallback
    PROVE  IInv'
<1>0. TypeOK
  BY DEF IInv
<1>1. /\ clock \in Nat /\ clock' \in Nat /\ clock <= clock' /\ Month \in Nat
      /\ events \subseteq [type : {"backfill", "sync"}, hwm : Nat \ {0}]
      /\ runs \in [Runners -> Run]
  BY <1>0, SyncAssumption DEF TypeOK, Grows
<1>2. ASSUME NEW r \in Runners, Active(r)'
      PROVE  /\ Active(r) /\ RunMakesSense(r)'
             /\ runs'[r].since = runs[r].since /\ runs'[r].fallback = runs[r].fallback
  <2>1. CASE r = s
    BY <1>2, <2>1
  <2>2. CASE r # s
    <3>1. runs'[r] = runs[r] /\ Active(r)
      BY <1>2, <2>2 DEF Active
    <3>2. RunMakesSense(r)'
      BY <3>1, UntouchedRun
    <3> QED
      BY <3>1, <3>2
  <2> QED
    BY <2>1, <2>2
<1>3. RunsMakeSense'
  BY <1>2 DEF RunsMakeSense
<1>4. Month + 2 <= clock'
  BY <1>1 DEF IInv
<1>5. EventsAreOfThePast'
  BY <1>1 DEF IInv, EventsAreOfThePast
<1>6. FirstDeltasReachBack'
  <2> SUFFICES ASSUME events = {}, NEW r \in Daemons, Active(r)'
               PROVE  runs'[r].since + Month <= clock'
    BY DEF FirstDeltasReachBack
  <2>1. r \in Runners
    BY DEF Runners
  <2>2. Active(r) /\ runs'[r].since = runs[r].since /\ runs[r] \in Run
    BY <2>1, <1>1, <1>2
  <2>3. runs[r].since + Month <= clock
    BY <2>2 DEF IInv, FirstDeltasReachBack
  <2> QED
    BY <1>1, <2>2, <2>3 DEF Run
<1>7. PICK lo \in 0 .. clock : CoveredFrom(lo)
  BY DEF IInv
<1>8. CoveredFrom(lo)'
  <2>1. BackfillDone' <=> BackfillDone
    BY DEF BackfillDone
  <2>2. ~BackfillDone =>
            \A r \in Importers : Active(r)' => lo <= runs'[r].fallback
    BY <1>2, <1>7 DEF CoveredFrom, Runners
  <2>3. BackfillDone => Saved(0, lo)'
    <3>1. SUFFICES ASSUME BackfillDone PROVE Saved(0, lo)'
      OBVIOUS
    <3>2. Saved(0, lo) /\ lo \in Nat /\ lo <= clock
      BY <1>1, <1>7, <3>1 DEF CoveredFrom
    <3>3. \A row \in feed' : 0 <= row.time /\ row.time < lo => row \in raw'
      BY <1>0, <3>2, SavedStays
    <3> QED
      BY <3>3 DEF Saved
  <2>4. ASSUME NEW e \in events
        PROVE  Saved(lo, e.hwm)'
    <3>1. e.hwm \in Nat /\ e.hwm <= clock /\ lo \in Nat
      BY <1>1, <1>7 DEF IInv, EventsAreOfThePast
    <3>2. Saved(lo, e.hwm)
      BY <1>7 DEF CoveredFrom
    <3>3. \A row \in feed' : lo <= row.time /\ row.time < e.hwm => row \in raw'
      BY <1>0, <3>1, <3>2, SavedStays
    <3> QED
      BY <3>3 DEF Saved
  <2>5. ASSUME NEW r \in Daemons, Active(r)'
        PROVE  Saved(lo, runs[r].since)'
    <3>1. r \in Runners
      BY DEF Runners
    <3>2. Active(r) /\ runs'[r].since = runs[r].since /\ runs[r] \in Run
      BY <3>1, <1>1, <1>2, <2>5
    <3>3. runs[r].since \in Nat /\ runs[r].since <= clock /\ lo \in Nat
      BY <1>1, <1>7, <3>1, <3>2 DEF IInv, RunsMakeSense, RunMakesSense, AsksFrom, Run
    <3>4. Saved(lo, runs[r].since)
      BY <1>7, <3>2 DEF CoveredFrom
    <3>5. \A row \in feed' : lo <= row.time /\ row.time < runs[r].since => row \in raw'
      BY <1>0, <3>3, <3>4, SavedStays
    <3> QED
      BY <3>2, <3>5 DEF Saved
  <2> QED
    BY <2>1, <2>2, <2>3, <2>4, <2>5 DEF CoveredFrom
<1>9. lo \in 0 .. clock'
  BY <1>1, <1>7
<1> QED
  BY <1>3, <1>4, <1>5, <1>6, <1>8, <1>9 DEF IInv

----------------------------------------------------------------------------
(* The initial states and upstream's steps *)

LEMMA InitEstablishes ==
    ASSUME Init
    PROVE  IInv
<1>1. changes \in Nat /\ clock = Month + 2 /\ Month \in Nat /\ NumKeys \in Nat
  BY SyncAssumption DEF Init
<1>2. feed = {[time |-> 1, n |-> k, key |-> k] : k \in 1 .. changes}
  BY DEF Init
<1>3. feed \subseteq Row
  BY <1>2, SyncAssumption DEF Init, Row, Keys
<1>4. IsFiniteSet(feed)
  <2> DEFINE Record == [k \in 1 .. changes |-> [time |-> 1, n |-> k, key |-> k]]
  <2>1. Record \in Surjection(1 .. changes, feed)
    BY <1>2 DEF Surjection
  <2>2. IsFiniteSet(1 .. changes)
    BY <1>1, FS_Interval
  <2> QED
    BY <2>1, <2>2, FS_Surjection
<1>5. \A row \in feed : row.time = 1 /\ 0 < row.n /\ row.n <= changes
  BY <1>1, <1>2
<1>6. FeedInOrder
  BY <1>1, <1>4, <1>5 DEF FeedInOrder
<1>7. \A r \in Runners : runs[r] = Idle /\ ~Active(r)
  BY DEF Init, Active, Idle
<1>8. TypeOK
  <2>1. Idle \in Run
    BY DEF Idle, Run
  <2> QED
    BY <1>1, <1>3, <2>1, SyncAssumption DEF Init, TypeOK
<1>9. RunsMakeSense /\ EventsAreOfThePast /\ FirstDeltasReachBack
  BY <1>7 DEF RunsMakeSense, EventsAreOfThePast, FirstDeltasReachBack, Runners, Init
<1>10. CoveredFrom(0) /\ 0 \in 0 .. clock
  BY <1>1, <1>7 DEF CoveredFrom, BackfillDone, Runners, Init
<1> QED
  BY <1>1, <1>6, <1>8, <1>9, <1>10 DEF IInv

LEMMA TickKeeps ==
    ASSUME IInv, Tick
    PROVE  IInv'
<1>1. TypeOK /\ clock \in Nat /\ clock' = clock + 1 /\ changes \in Nat /\ feed \subseteq Row
  BY DEF IInv, TypeOK, Tick
<1>2. TypeOK'
  BY <1>1 DEF TypeOK, Tick
<1>3. FeedInOrder'
  BY <1>1 DEF IInv, FeedInOrder, Tick, Row
<1>4. Grows
  BY <1>1 DEF Grows, Tick
<1>5. ASSUME NEW r \in Importers, Active(r)
      PROVE  clock' <= runs[r].fallback + Month
  <2>1. runs[r] # Idle /\ runs[r] \in Run
    BY <1>1, <1>5 DEF Active, Idle, TypeOK, Runners
  <2> QED
    BY <1>1, <2>1, SyncAssumption DEF Tick, Run
<1>6. ASSUME NEW r \in Runners, Active(r)
      PROVE  RunMakesSense(r)'
  BY <1>2, <1>4, <1>5, <1>6, UntouchedRun DEF Tick
<1> QED
  BY <1>2, <1>3, <1>4, <1>5, <1>6, OneRunSteps DEF Tick, Active

LEMMA ModifyKeeps ==
    ASSUME IInv, NEW k \in Keys, Modify(k)
    PROVE  IInv'
<1> DEFINE new == [time |-> clock, n |-> changes + 1, key |-> k]
<1>1. /\ TypeOK /\ clock \in Nat /\ changes \in Nat /\ feed \subseteq Row
      /\ IsFiniteSet(feed) /\ new \in Row
  BY DEF IInv, TypeOK, FeedInOrder, Row
<1>2. /\ changes' = changes + 1 /\ clock' = clock /\ runs' = runs /\ raw' = raw
      /\ events' = events /\ failures' = failures
      /\ feed' = {row \in feed : row.key # k} \cup {new}
  BY DEF Modify
<1>3. new.time = clock /\ new.n = changes + 1
  OBVIOUS
<1> HIDE DEF new
<1>4. TypeOK'
  BY <1>1, <1>2 DEF TypeOK
<1>5. Grows
  BY <1>1, <1>2, <1>3 DEF Grows
<1>6. FeedInOrder'
  <2>1. IsFiniteSet({row \in feed : row.key # k})
    BY <1>1, FS_Subset
  <2>2. IsFiniteSet(feed')
    BY <1>2, <2>1, FS_AddElement
  <2>3. \A row \in feed' : 0 < row.n /\ row.n <= changes' /\ row.time <= clock'
    BY <1>1, <1>2, <1>3 DEF IInv, FeedInOrder, Row
  <2>4. \A row, later \in feed' : row.n <= later.n => row.time <= later.time
    BY <1>1, <1>2, <1>3 DEF IInv, FeedInOrder, Row
  <2> QED
    BY <2>2, <2>3, <2>4 DEF FeedInOrder
<1>7. \A r \in Importers : Active(r) => clock' <= runs[r].fallback + Month
  BY <1>2 DEF IInv, RunsMakeSense, RunMakesSense, AsksFrom, Runners
<1>8. ASSUME NEW r \in Runners, Active(r)
      PROVE  RunMakesSense(r)'
  BY <1>2, <1>4, <1>5, <1>7, <1>8, UntouchedRun
<1> QED
  BY <1>2, <1>4, <1>5, <1>6, <1>7, <1>8, OneRunSteps DEF Active

----------------------------------------------------------------------------
(* The steps of a run *)

LEMMA FetchKeeps ==
    ASSUME IInv, NEW r \in Runners, FetchPage(r)
    PROVE  IInv'
<1> DEFINE rest == Matching(runs[r])
           page == First(PageSize, rest)
           ns   == {row.n : row \in page} \cup {runs[r].pos}
<1>1. /\ TypeOK /\ runs \in [Runners -> Run] /\ runs[r] \in Run /\ feed \subseteq Row
      /\ changes \in Nat /\ clock \in Nat
  BY DEF IInv, TypeOK
<1>2. /\ Active(r) /\ RunMakesSense(r) /\ FeedInOrder
      /\ ReadsInOrder(r) /\ NothingMissed(r) /\ runs[r].at = "fetch"
  BY DEF IInv, RunsMakeSense, RunMakesSense, FetchPage, Active
<1>3. rest \subseteq feed /\ rest \in SUBSET Row /\ IsFiniteSet(rest)
  BY <1>1, <1>2, FS_Subset DEF Matching, FeedInOrder
<1>4. /\ page \subseteq rest
      /\ \A p \in page : \A row \in rest : row.n <= p.n => row \in page
  BY <1>3, SyncAssumption, FirstAreFirst
<1>5. page \subseteq feed /\ page \in SUBSET Row
  BY <1>3, <1>4
<1>6. /\ \A p \in page : p.n \in Nat /\ p.n <= changes /\ p.time \in Nat /\ p.time <= clock
      /\ runs[r].pos \in Nat /\ runs[r].pos <= changes
  BY <1>1, <1>2, <1>5 DEF FeedInOrder, ReadsInOrder, Run, Row
<1>7. /\ MaxOf(ns) \in ns /\ MaxOf(ns) \in Nat /\ MaxOf(ns) <= changes
      /\ \A m \in ns : m <= MaxOf(ns)
  <2>1. ns \in SUBSET Nat /\ ns # {} /\ \A m \in ns : m <= changes
    <3> HIDE DEF page
    <3> QED
      BY <1>6
  <2> HIDE DEF ns
  <2> QED
    BY <1>1, <2>1, MaxIsGreatest
<1>8. runs' = [runs EXCEPT ![r] = [runs[r] EXCEPT !.at = "save", !.page = page,
                  !.pos = MaxOf(ns), !.last = (page = rest)]]
  BY DEF FetchPage, SetRun
<1>9. \A row \in feed : row \in rest <=> runs[r].since <= row.time /\ row.n > runs[r].pos
  BY <1>1 DEF Matching, Run, Row
<1>10. /\ runs[r].pos <= MaxOf(ns)
       /\ \A p \in page : p.n <= MaxOf(ns)
       /\ MaxOf(ns) = runs[r].pos \/ \E p \in page : MaxOf(ns) = p.n
  <2> HIDE DEF page
  <2> QED
    BY <1>7
<1> DEFINE last == page = rest
           max == MaxOf(ns)
<1>11. last <=> page = rest
  OBVIOUS
<1>12. last \in BOOLEAN
  OBVIOUS
<1> HIDE DEF last, max, ns, page, rest
<1>13. max \in Nat /\ max <= changes
  BY <1>7 DEF max
<1>14. /\ runs'[r].at = "save" /\ runs'[r].page = page /\ runs'[r].pos = max
       /\ runs'[r].last = last /\ runs'[r].since = runs[r].since
       /\ runs'[r].fallback = runs[r].fallback /\ runs'[r].hwm = runs[r].hwm
  BY <1>1, <1>8 DEF Run, max, last
<1>15. runs' \in [Runners -> Run] /\ \A s \in Runners \ {r} : runs'[s] = runs[s]
  BY <1>1, <1>5, <1>8, <1>12, <1>13 DEF Run, max, last
<1>16. /\ clock' = clock /\ changes' = changes /\ feed' = feed /\ raw' = raw
       /\ events' = events /\ failures' = failures
  BY DEF FetchPage, upstream
<1>17. TypeOK' /\ FeedInOrder' /\ Grows
  BY <1>1, <1>2, <1>15, <1>16 DEF TypeOK, FeedInOrder, Grows
<1>18. RunMakesSense(r)'
  <2>1. ReadsInOrder(r)'
    <3>1. ASSUME NEW row \in feed, row.n > max
          PROVE  runs[r].hwm <= row.time /\ \A p \in page : p.time <= row.time
      <4>1. row.n \in Nat /\ row.n > runs[r].pos
        BY <1>1, <1>6, <1>10, <1>13, <3>1 DEF Row, max
      <4>2. runs[r].hwm <= row.time
        BY <1>2, <4>1 DEF ReadsInOrder
      <4>3. ASSUME NEW p \in page
            PROVE  p.time <= row.time
        <5>1. p \in feed /\ p.n \in Nat /\ p.n <= max
          BY <1>5, <1>6, <1>10 DEF max
        <5>2. p.n <= row.n
          BY <1>13, <3>1, <4>1, <5>1
        <5> QED
          BY <1>2, <5>1, <5>2 DEF FeedInOrder
      <4> QED
        BY <4>2, <4>3
    <3> QED
      BY <1>2, <1>6, <1>13, <1>14, <1>16, <3>1 DEF ReadsInOrder
  <2>2. NothingMissed(r)'
    <3>1. ASSUME NEW row \in feed, runs[r].since <= row.time, row.n <= max
          PROVE  row \in raw \cup page
      <4>1. CASE row.n <= runs[r].pos
        <5>1. row \in raw \cup runs[r].page /\ runs[r].page = {}
          BY <1>2, <3>1, <4>1 DEF NothingMissed
        <5> QED
          BY <5>1
      <4>2. CASE ~(row.n <= runs[r].pos)
        <5>1. row.n \in Nat /\ row.n > runs[r].pos
          BY <1>1, <1>6, <4>2 DEF Row
        <5>2. row \in rest
          BY <1>9, <3>1, <5>1
        <5>3. PICK p \in page : max = p.n
          BY <1>6, <1>10, <3>1, <5>1 DEF max
        <5> QED
          BY <1>4, <3>1, <5>2, <5>3
      <4> QED
        BY <4>1, <4>2
    <3> QED
      BY <1>14, <1>16, <3>1 DEF NothingMissed
  <2>3. EndIsReached(r)'
    <3>1. ASSUME last, NEW row \in feed, runs[r].since <= row.time, row.n > max
          PROVE  FALSE
      <4>1. row.n \in Nat /\ row.n > runs[r].pos
        BY <1>1, <1>6, <1>10, <1>13, <3>1 DEF Row, max
      <4>2. row \in page
        BY <1>9, <1>11, <3>1, <4>1
      <4>3. row.n <= max
        BY <1>10, <4>2 DEF max
      <4> QED
        BY <1>13, <3>1, <4>1, <4>3
    <3> QED
      BY <1>14, <1>16, <3>1 DEF EndIsReached
  <2>4. AsksFrom(r)'
    BY <1>2, <1>14, <1>16 DEF RunMakesSense, AsksFrom
  <2> QED
    BY <1>2, <1>14, <1>16, <2>1, <2>2, <2>3, <2>4 DEF RunMakesSense
<1>19. \A s \in Importers : Active(s) => clock' <= runs[s].fallback + Month
  BY <1>16 DEF IInv, RunsMakeSense, RunMakesSense, AsksFrom, Runners
<1> QED
  BY <1>2, <1>14, <1>15, <1>16, <1>17, <1>18, <1>19, OneRunSteps

LEMMA SaveKeeps ==
    ASSUME IInv, NEW r \in Runners, SavePage(r)
    PROVE  IInv'
<1> DEFINE times == Written(runs[r].page) \cup {runs[r].hwm}
           at    == IF runs[r].at = "save" /\ runs[r].last THEN "finish" ELSE "fetch"
<1>1. /\ TypeOK /\ runs \in [Runners -> Run] /\ runs[r] \in Run /\ feed \subseteq Row
      /\ raw \subseteq Row /\ changes \in Nat /\ clock \in Nat
  BY DEF IInv, TypeOK
<1>2. /\ Active(r) /\ RunMakesSense(r) /\ FeedInOrder
      /\ ReadsInOrder(r) /\ NothingMissed(r) /\ EndIsReached(r)
  BY DEF IInv, RunsMakeSense, RunMakesSense, SavePage, Active
<1>3. \A p \in runs[r].page : p.time \in Nat /\ p.time <= clock
  BY <1>1, <1>2 DEF ReadsInOrder, Run, Row
<1>4. /\ MaxOf(times) \in times /\ MaxOf(times) \in Nat /\ MaxOf(times) <= clock
  <2>1. times \in SUBSET Nat /\ times # {} /\ \A m \in times : m <= clock
    BY <1>1, <1>2, <1>3 DEF RunMakesSense, Run, Written
  <2> HIDE DEF times
  <2> QED
    BY <1>1, <2>1, MaxIsGreatest
<1>5. MaxOf(times) = runs[r].hwm \/ \E p \in runs[r].page : MaxOf(times) = p.time
  BY <1>4 DEF Written
<1>6. runs' = [runs EXCEPT ![r] = [runs[r] EXCEPT !.at = at, !.page = {},
                  !.hwm = MaxOf(times)]]
  BY DEF SavePage, SetRun
<1>7. at \in {"finish", "fetch"} /\ (at = "finish" => runs[r].last)
  OBVIOUS
<1> DEFINE max == MaxOf(times)
<1> HIDE DEF max, times, at
<1>8. /\ runs'[r].at = at /\ runs'[r].page = {} /\ runs'[r].pos = runs[r].pos
      /\ runs'[r].last = runs[r].last /\ runs'[r].since = runs[r].since
      /\ runs'[r].fallback = runs[r].fallback /\ runs'[r].hwm = max
  BY <1>1, <1>6 DEF Run, max
<1>9. runs' \in [Runners -> Run] /\ \A s \in Runners \ {r} : runs'[s] = runs[s]
  BY <1>1, <1>4, <1>6, <1>7 DEF Run, max
<1>10. /\ clock' = clock /\ changes' = changes /\ feed' = feed
       /\ raw' = raw \cup runs[r].page
       /\ events' = events /\ failures' = failures
  BY DEF SavePage, upstream
<1>11. TypeOK' /\ FeedInOrder' /\ Grows
  <2>1. raw' \subseteq Row
    BY <1>1, <1>10 DEF Run
  <2> QED
    BY <1>1, <1>2, <1>9, <1>10, <2>1 DEF TypeOK, FeedInOrder, Grows
<1>12. RunMakesSense(r)'
  <2>1. ReadsInOrder(r)'
    BY <1>2, <1>4, <1>5, <1>8, <1>10 DEF ReadsInOrder, max
  <2>2. NothingMissed(r)'
    BY <1>2, <1>8, <1>10 DEF NothingMissed
  <2>3. EndIsReached(r)'
    BY <1>2, <1>8, <1>10 DEF EndIsReached
  <2>4. AsksFrom(r)'
    BY <1>2, <1>8, <1>10 DEF RunMakesSense, AsksFrom
  <2>5. ASSUME at = "finish" PROVE LeavesNothing(r)'
    <3>1. runs[r].last
      BY <1>7, <2>5
    <3>2. /\ \A row \in feed : row.n \in Nat /\ row.time \in Nat
          /\ runs[r].pos \in Nat /\ max \in Nat /\ runs[r].fallback \in Nat
      BY <1>1, <1>4 DEF Row, Run, max
    <3>3. Stamp(r)' = IF max = 0 THEN runs[r].fallback ELSE max
      BY <1>8 DEF Stamp
    <3>4. ASSUME NEW row \in feed, runs[r].since <= row.time,
                 row.time < Stamp(r)' \/ row.time < runs[r].fallback
          PROVE  row \in raw'
      <4>1. CASE row.n <= runs[r].pos
        BY <1>2, <1>10, <3>4, <4>1 DEF NothingMissed
      <4>2. CASE row.n > runs[r].pos
        <5>1. runs[r].fallback <= row.time
          BY <1>2, <3>1, <3>4, <4>2 DEF EndIsReached
        <5>2. max <= row.time
          BY <1>8, <1>10, <2>1, <4>2 DEF ReadsInOrder
        <5> QED
          BY <3>2, <3>3, <3>4, <5>1, <5>2
      <4> QED
        BY <3>2, <4>1, <4>2
    <3> QED
      BY <1>8, <1>10, <3>4 DEF LeavesNothing
  <2> QED
    BY <1>4, <1>8, <1>10, <2>1, <2>2, <2>3, <2>4, <2>5 DEF RunMakesSense, max
<1>13. \A s \in Importers : Active(s) => clock' <= runs[s].fallback + Month
  BY <1>10 DEF IInv, RunsMakeSense, RunMakesSense, AsksFrom, Runners
<1> QED
  BY <1>2, <1>8, <1>9, <1>10, <1>11, <1>12, <1>13, OneRunSteps

LEMMA FailKeeps ==
    ASSUME IInv, NEW r \in Runners, Fail(r)
    PROVE  IInv'
<1>1. /\ TypeOK /\ runs \in [Runners -> Run] /\ changes \in Nat /\ clock \in Nat
      /\ failures \in 0 .. MaxFailures /\ MaxFailures \in Nat /\ FeedInOrder
  BY SyncAssumption DEF IInv, TypeOK
<1>2. /\ runs' = [runs EXCEPT ![r] = Idle] /\ failures' = failures + 1
      /\ failures < MaxFailures /\ clock' = clock /\ changes' = changes
      /\ feed' = feed /\ raw' = raw /\ events' = events
  BY DEF Fail, SetRun, upstream
<1>3. Idle \in Run /\ Idle.at = "idle"
  BY DEF Idle, Run
<1>4. TypeOK' /\ FeedInOrder' /\ Grows
  BY <1>1, <1>2, <1>3 DEF TypeOK, FeedInOrder, Grows
<1>5. ~Active(r)' /\ \A s \in Runners \ {r} : runs'[s] = runs[s]
  BY <1>1, <1>2, <1>3 DEF Active
<1>6. \A s \in Importers : Active(s) => clock' <= runs[s].fallback + Month
  BY <1>2 DEF IInv, RunsMakeSense, RunMakesSense, AsksFrom, Runners
<1> QED
  BY <1>2, <1>4, <1>5, <1>6, OneRunSteps

----------------------------------------------------------------------------
(* The start and the end of a run *)

\* The cursor is a successful event's mark; with no such event it is where the
\* first delta reaches back to.
LEMMA CursorIsAMark ==
    ASSUME TypeOK, EventsAreOfThePast
    PROVE  /\ events = {} => Cursor = clock - Month
           /\ events # {} => \E e \in events : Cursor = e.hwm
<1> DEFINE marks == HighWaterMarks \cup {0}
<1>1. /\ events \subseteq [type : {"backfill", "sync"}, hwm : Nat \ {0}]
      /\ clock \in Nat /\ \A e \in events : e.hwm <= clock
  BY DEF TypeOK, EventsAreOfThePast
<1>2. marks \in SUBSET Nat /\ marks # {} /\ \A m \in marks : m <= clock
  BY <1>1 DEF HighWaterMarks
<1>3. MaxOf(marks) \in marks /\ \A m \in marks : m <= MaxOf(marks)
  <2> HIDE DEF marks
  <2> QED
    BY <1>1, <1>2, MaxIsGreatest
<1>4. LastSuccessfulHWM = MaxOf(marks)
  BY DEF LastSuccessfulHWM
<1> DEFINE max == MaxOf(marks)
<1>5. ASSUME events = {}
      PROVE  Cursor = clock - Month
  <2>1. max = 0
    BY <1>3, <1>5 DEF HighWaterMarks
  <2> QED
    BY <1>4, <2>1 DEF Cursor
<1>6. ASSUME NEW f \in events
      PROVE  \E e \in events : Cursor = e.hwm
  <2>1. f.hwm \in marks /\ f.hwm \in Nat \ {0}
    BY <1>1 DEF HighWaterMarks
  <2>2. max # 0 /\ max \in marks
    <3> HIDE DEF marks
    <3> QED
      BY <1>2, <1>3, <2>1
  <2>3. \E e \in events : max = e.hwm
    BY <2>2 DEF HighWaterMarks
  <2>4. Cursor = max
    BY <1>4, <2>2 DEF Cursor
  <2> QED
    BY <2>3, <2>4
<1> QED
  BY <1>5, <1>6

\* A run that has just started, page by page or by offset.
Fresh(at, from, stamp) == [Idle EXCEPT !.at = at, !.since = from, !.fallback = stamp]

\* The start of a run disturbs none of the others.
LEMMA RunStarts ==
    ASSUME IInv, NEW r \in Runners, NEW at \in {"fetch", "skip"}, NEW from, NEW stamp,
           from \in 0 .. clock, stamp \in 1 .. clock,
           r \in Importers => from = 0 /\ stamp = clock,
           r \in Daemons => from = stamp,
           runs' = [runs EXCEPT ![r] = Fresh(at, from, stamp)],
           UNCHANGED <<upstream, raw, events, failures>>
    PROVE  /\ TypeOK' /\ FeedInOrder' /\ RunsMakeSense' /\ EventsAreOfThePast'
           /\ \A s \in Runners \ {r} : runs'[s] = runs[s]
           /\ Active(r)' /\ runs'[r].since = from /\ runs'[r].fallback = stamp
<1>1. /\ TypeOK /\ runs \in [Runners -> Run] /\ changes \in Nat /\ clock \in Nat
      /\ feed \subseteq Row /\ FeedInOrder
  BY DEF IInv, TypeOK
<1>2. /\ clock' = clock /\ changes' = changes /\ feed' = feed /\ raw' = raw
      /\ events' = events /\ failures' = failures
  BY DEF upstream
<1>3. from \in Nat /\ stamp \in Nat
  BY <1>1
<1> DEFINE run == Fresh(at, from, stamp)
<1>11. /\ run \in Run
       /\ run.at = at /\ run.page = {} /\ run.pos = 0 /\ run.hwm = 0
       /\ run.last = FALSE /\ run.since = from /\ run.fallback = stamp
  BY <1>3 DEF Fresh, Idle, Run
<1>4. /\ runs' \in [Runners -> Run] /\ runs'[r] = run
      /\ \A s \in Runners \ {r} : runs'[s] = runs[s]
  <2> HIDE DEF run
  <2>1. runs' = [runs EXCEPT ![r] = run]
    BY DEF run
  <2> QED
    BY <1>1, <1>11, <2>1
<1>12. runs'[r] = run
  BY <1>4
<1> HIDE DEF run
<1>5. TypeOK' /\ FeedInOrder' /\ Grows
  BY <1>1, <1>2, <1>4 DEF TypeOK, FeedInOrder, Grows
<1>6. RunMakesSense(r)'
  <2>1. ReadsInOrder(r)'
    BY <1>1, <1>2, <1>11, <1>12 DEF ReadsInOrder, Row
  <2>2. NothingMissed(r)'
    <3>1. \A row \in feed : row.n \in Nat /\ row.n > 0
      BY <1>1 DEF FeedInOrder, Row
    <3> QED
      BY <1>1, <1>2, <1>11, <1>12, <3>1 DEF NothingMissed
  <2>3. EndIsReached(r)'
    BY <1>11, <1>12 DEF EndIsReached
  <2>4. AsksFrom(r)'
    BY <1>1, <1>2, <1>11, <1>12, SyncAssumption DEF AsksFrom
  <2> QED
    BY <1>1, <1>2, <1>11, <1>12, <2>1, <2>2, <2>3, <2>4 DEF RunMakesSense
<1>7. ASSUME NEW s \in Runners, Active(s)'
      PROVE  RunMakesSense(s)'
  <2>1. CASE s = r
    BY <1>6, <2>1
  <2>2. CASE s # r
    <3>1. runs'[s] = runs[s] /\ Active(s)
      BY <1>4, <1>7, <2>2 DEF Active
    <3>2. s \in Importers => clock' <= runs[s].fallback + Month
      BY <1>2, <3>1 DEF IInv, RunsMakeSense, RunMakesSense, AsksFrom
    <3> QED
      BY <1>5, <3>1, <3>2, UntouchedRun
  <2> QED
    BY <2>1, <2>2
<1>8. RunsMakeSense'
  BY <1>7 DEF RunsMakeSense
<1>9. EventsAreOfThePast'
  BY <1>2 DEF IInv, EventsAreOfThePast
<1>10. Active(r)' /\ runs'[r].since = from /\ runs'[r].fallback = stamp
  BY <1>11, <1>12 DEF Active
<1> QED
  BY <1>4, <1>5, <1>8, <1>9, <1>10

\* RunInitial, page by page or by offset.
LEMMA ImportStarts ==
    ASSUME IInv, NEW r \in Importers, NEW at \in {"fetch", "skip"},
           SetRun(r, [Idle EXCEPT !.at = at, !.fallback = clock]),
           UNCHANGED <<upstream, raw, events, failures>>
    PROVE  IInv'
<1>1. clock \in Nat /\ Month \in Nat /\ Month + 2 <= clock /\ r \in Runners /\ r \notin Daemons
  BY SyncAssumption DEF IInv, TypeOK, Runners
<1>2. /\ clock' = clock /\ changes' = changes /\ feed' = feed /\ raw' = raw
      /\ events' = events /\ failures' = failures
  BY DEF upstream
<1>3. PICK now \in Nat : now = clock
  BY <1>1
<1>4. runs' = [runs EXCEPT ![r] = Fresh(at, 0, now)]
  <2>1. [Idle EXCEPT !.at = at, !.fallback = now] = Fresh(at, 0, now)
    <3> DEFINE run == [Idle EXCEPT !.at = at, !.fallback = now]
               same == [Idle EXCEPT !.at = at, !.since = 0, !.fallback = now]
    <3>1. /\ run.at = same.at /\ run.since = same.since /\ run.fallback = same.fallback
          /\ run.pos = same.pos /\ run.page = same.page /\ run.hwm = same.hwm
          /\ (run.last <=> same.last)
      BY DEF Idle
    <3>2. run \in Run /\ same \in Run
      BY <1>3 DEF Idle, Run
    <3>3. run = same
      <4> HIDE DEF run, same
      <4> QED
        BY <3>1, <3>2 DEF Run
    <3> QED
      BY <3>3 DEF Fresh
  <2> QED
    BY <1>3, <2>1 DEF SetRun
<1>6. /\ TypeOK' /\ FeedInOrder' /\ RunsMakeSense' /\ EventsAreOfThePast'
      /\ \A s \in Runners \ {r} : runs'[s] = runs[s]
      /\ Active(r)' /\ runs'[r].fallback = now
  <2>1. 0 \in 0 .. clock /\ now \in 1 .. clock
    BY <1>1, <1>3
  <2> QED
    BY <1>1, <1>3, <1>4, <2>1, RunStarts
<1>7. \A d \in Daemons : d \in Runners \ {r} /\ runs'[d] = runs[d]
  BY <1>1, <1>6 DEF Runners
<1>8. FirstDeltasReachBack'
  BY <1>2, <1>7 DEF IInv, FirstDeltasReachBack, Active
<1>9. PICK lo \in 0 .. clock : CoveredFrom(lo)
  BY DEF IInv
<1>10. \A s \in Importers : Active(s)' => s = r \/ (Active(s) /\ runs'[s] = runs[s])
  BY <1>6 DEF Active, Runners
<1>11. lo <= runs'[r].fallback
  BY <1>3, <1>6, <1>9
<1>12. CoveredFrom(lo)'
  BY <1>2, <1>7, <1>9, <1>10, <1>11 DEF CoveredFrom, BackfillDone, Saved, Active
<1> QED
  BY <1>1, <1>2, <1>6, <1>8, <1>9, <1>12 DEF IInv

LEMMA StartImportKeeps ==
    ASSUME IInv, NEW r \in Importers, StartImport(r)
    PROVE  IInv'
  BY ImportStarts DEF StartImport

\* The first delta moves lo to where it asks from: nothing is promised of what
\* is older, but that the import brings it.
LEMMA StartDeltaKeeps ==
    ASSUME IInv, NEW r \in Daemons, StartDelta(r)
    PROVE  IInv'
<1>1. /\ clock \in Nat /\ Month \in Nat /\ Month + 2 <= clock /\ r \in Runners
      /\ r \notin Importers /\ feed \subseteq Row /\ runs \in [Runners -> Run]
      /\ events \subseteq [type : {"backfill", "sync"}, hwm : Nat \ {0}]
  BY SyncAssumption DEF IInv, TypeOK, Runners
<1>2. /\ clock' = clock /\ changes' = changes /\ feed' = feed /\ raw' = raw
      /\ events' = events /\ failures' = failures
  BY DEF StartDelta, upstream
<1>3. Cursor \in 1 .. clock
  <2>1. CASE events = {}
    BY <1>1, <2>1, CursorIsAMark DEF IInv
  <2>2. CASE events # {}
    BY <1>1, <2>2, CursorIsAMark DEF IInv, EventsAreOfThePast
  <2> QED
    BY <2>1, <2>2
<1>4. PICK from \in 1 .. clock : from = Cursor
  BY <1>3
<1>5. runs' = [runs EXCEPT ![r] = Fresh("fetch", from, from)]
  BY <1>4 DEF StartDelta, SetRun, Fresh, Idle
<1>6. UNCHANGED <<upstream, raw, events, failures>>
  BY DEF StartDelta
<1>7. from \in 0 .. clock
  BY <1>1, <1>4
<1>8. /\ TypeOK' /\ FeedInOrder' /\ RunsMakeSense' /\ EventsAreOfThePast'
      /\ \A s \in Runners \ {r} : runs'[s] = runs[s]
      /\ Active(r)' /\ runs'[r].since = from
  BY <1>1, <1>4, <1>5, <1>6, <1>7, RunStarts
<1>9. \A s \in Runners : Active(s)' => s = r \/ (Active(s) /\ runs'[s] = runs[s])
  BY <1>8 DEF Active
<1>10. \A s \in Importers : Active(s)' => Active(s) /\ runs'[s] = runs[s]
  BY <1>1, <1>9 DEF Runners
<1>11. FirstDeltasReachBack'
  <2> SUFFICES ASSUME events = {}, NEW d \in Daemons, Active(d)'
               PROVE  runs'[d].since + Month <= clock
    BY <1>2 DEF FirstDeltasReachBack
  <2>1. from = clock - Month
    BY <1>4, CursorIsAMark DEF IInv
  <2> QED
    BY <1>1, <1>2, <1>8, <1>9, <2>1 DEF IInv, FirstDeltasReachBack, Runners
<1>12. CASE events # {}
  <2>1. PICK lo \in 0 .. clock : CoveredFrom(lo)
    BY DEF IInv
  <2>2. Saved(lo, from)
    BY <1>4, <1>12, <2>1, CursorIsAMark DEF IInv, CoveredFrom
  <2>3. \A d \in Daemons : Active(d)' => Saved(lo, runs[d].since)'
    <3>1. ASSUME NEW d \in Daemons, Active(d)'
          PROVE  Saved(lo, runs'[d].since)
      <4>1. CASE d = r
        BY <1>8, <2>2, <4>1
      <4>2. CASE d # r
        BY <1>9, <2>1, <3>1, <4>2 DEF CoveredFrom, Runners
      <4> QED
        BY <4>1, <4>2
    <3> QED
      BY <1>2, <3>1 DEF Saved
  <2>4. CoveredFrom(lo)'
    BY <1>2, <1>10, <2>1, <2>3 DEF CoveredFrom, BackfillDone, Saved
  <2> QED
    BY <1>1, <1>2, <1>8, <1>11, <2>1, <2>4 DEF IInv
<1>13. CASE events = {}
  <2>1. from = clock - Month
    BY <1>4, <1>13, CursorIsAMark DEF IInv
  <2>2. \A s \in Importers : Active(s)' => from <= runs'[s].fallback
    <3>1. ASSUME NEW s \in Importers, Active(s)'
          PROVE  from <= runs'[s].fallback
      <4>1. Active(s) /\ runs'[s] = runs[s] /\ runs[s] \in Run
        BY <1>1, <1>10, <3>1 DEF Runners
      <4>2. clock <= runs[s].fallback + Month
        BY <4>1 DEF IInv, RunsMakeSense, RunMakesSense, AsksFrom, Runners
      <4> QED
        BY <1>1, <2>1, <4>1, <4>2 DEF Run
    <3> QED
      BY <3>1
  <2>3. \A d \in Daemons : Active(d)' => Saved(from, runs[d].since)'
    <3>1. ASSUME NEW d \in Daemons, Active(d)'
          PROVE  runs'[d].since \in Nat /\ runs'[d].since <= from
      <4>1. runs'[d] = runs[d] \/ runs'[d].since = from
        BY <1>8, <1>9, <3>1 DEF Runners
      <4>2. runs'[d].since + Month <= clock
        BY <1>2, <1>11, <1>13, <3>1 DEF FirstDeltasReachBack
      <4>3. runs'[d].since \in Nat
        BY <1>8, <3>1 DEF TypeOK, Run, Runners
      <4> QED
        BY <1>1, <2>1, <4>2, <4>3
    <3> QED
      BY <1>1, <1>2, <1>4, <3>1 DEF Saved, Row
  <2>4. CoveredFrom(from)'
    BY <1>2, <1>13, <2>2, <2>3 DEF CoveredFrom, BackfillDone
  <2> QED
    BY <1>1, <1>2, <1>7, <1>8, <1>11, <2>4 DEF IInv
<1> QED
  BY <1>12, <1>13

LEMMA FinishKeeps ==
    ASSUME IInv, NEW r \in Runners, Finish(r)
    PROVE  IInv'
<1> DEFINE event == [type |-> TypeOf(r), hwm |-> Stamp(r)]
<1>1. /\ TypeOK /\ clock \in Nat /\ feed \subseteq Row /\ runs \in [Runners -> Run]
      /\ runs[r] \in Run /\ FeedInOrder /\ changes \in Nat
      /\ events \subseteq [type : {"backfill", "sync"}, hwm : Nat \ {0}]
  BY DEF IInv, TypeOK
<1>2. /\ clock' = clock /\ changes' = changes /\ feed' = feed /\ raw' = raw
      /\ failures' = failures
      /\ events' = events \cup {event} /\ runs' = [runs EXCEPT ![r] = Idle]
  BY DEF Finish, SetRun, upstream
<1>3. Active(r) /\ RunMakesSense(r) /\ LeavesNothing(r)
  BY DEF IInv, RunsMakeSense, RunMakesSense, Finish, Active
<1>4. /\ runs[r].fallback \in 1 .. clock /\ runs[r].hwm \in Nat /\ runs[r].hwm <= clock
      /\ runs[r].since \in Nat
  BY <1>1, <1>3 DEF RunMakesSense, AsksFrom, Run
<1>5. PICK mark \in 1 .. clock : mark = Stamp(r)
  BY <1>1, <1>4 DEF Stamp
<1>6. event.hwm = mark /\ event.type = TypeOf(r)
      /\ event \in [type : {"backfill", "sync"}, hwm : Nat \ {0}]
  BY <1>1, <1>5 DEF TypeOf
<1> HIDE DEF event
<1>7. \A row \in feed : row.n \in Nat /\ row.time \in Nat
  BY <1>1 DEF Row
<1>10. ASSUME NEW row \in feed, runs[r].since <= row.time, row.time < mark
       PROVE  row \in raw
  BY <1>3, <1>5, <1>10 DEF LeavesNothing
<1>11. Idle \in Run /\ Idle.at = "idle"
  BY DEF Idle, Run
<1>12. ~Active(r)' /\ \A s \in Runners \ {r} : runs'[s] = runs[s]
  BY <1>1, <1>2, <1>11 DEF Active
<1>13. \A s \in Runners : Active(s)' => Active(s) /\ s # r /\ runs'[s] = runs[s]
  BY <1>12 DEF Active
<1>14. TypeOK' /\ FeedInOrder' /\ Grows
  BY <1>1, <1>2, <1>6, <1>11 DEF TypeOK, FeedInOrder, Grows
<1>15. RunsMakeSense'
  <2>1. ASSUME NEW s \in Runners, Active(s)'
        PROVE  RunMakesSense(s)'
    <3>1. Active(s) /\ runs'[s] = runs[s]
      BY <1>13, <2>1
    <3>2. s \in Importers => clock' <= runs[s].fallback + Month
      BY <1>2, <3>1 DEF IInv, RunsMakeSense, RunMakesSense, AsksFrom
    <3> QED
      BY <1>14, <3>1, <3>2, UntouchedRun
  <2> QED
    BY <2>1 DEF RunsMakeSense
<1>16. EventsAreOfThePast'
  BY <1>2, <1>5, <1>6 DEF IInv, EventsAreOfThePast
<1>17. FirstDeltasReachBack'
  BY <1>2 DEF FirstDeltasReachBack
<1>18. PICK lo \in 0 .. clock : CoveredFrom(lo)
  BY DEF IInv
<1>19. Saved(lo, mark)
  <2>1. CASE r \in Importers
    <3>1. runs[r].since = 0
      BY <1>3, <2>1 DEF RunMakesSense, AsksFrom
    <3> QED
      BY <1>7, <1>10, <3>1 DEF Saved
  <2>2. CASE r \in Daemons
    <3>1. \A row \in feed : lo <= row.time /\ row.time < runs[r].since => row \in raw
      BY <1>3, <1>18, <2>2 DEF CoveredFrom, Saved
    <3> QED
      BY <1>4, <1>7, <1>10, <3>1 DEF Saved
  <2> QED
    BY <2>1, <2>2 DEF Runners
<1>20. BackfillDone' => Saved(0, lo)
  <2>1. CASE BackfillDone
    BY <1>18, <2>1 DEF CoveredFrom
  <2>2. CASE ~BackfillDone /\ r \in Importers
    <3>1. lo <= runs[r].fallback /\ runs[r].since = 0
      BY <1>3, <1>18, <2>2 DEF CoveredFrom, RunMakesSense, AsksFrom
    <3>2. ASSUME NEW row \in feed, row.time < lo
          PROVE  row \in raw
      <4>1. row.time < runs[r].fallback
        BY <1>1, <1>4, <1>7, <1>18, <3>1, <3>2
      <4> QED
        BY <1>3, <1>7, <3>1, <4>1 DEF LeavesNothing
    <3> QED
      BY <3>2 DEF Saved
  <2>3. CASE ~BackfillDone /\ r \notin Importers
    BY <1>2, <1>6, <2>3 DEF BackfillDone, TypeOf
  <2> QED
    BY <2>1, <2>2, <2>3
<1>21. BackfillDone => BackfillDone'
  BY <1>2 DEF BackfillDone
<1>22. CoveredFrom(lo)'
  <2>1. \A e \in events' : Saved(lo, e.hwm)
    BY <1>2, <1>6, <1>18, <1>19 DEF CoveredFrom
  <2>2. \A d \in Daemons : Active(d)' => Saved(lo, runs'[d].since)
    BY <1>13, <1>18 DEF CoveredFrom, Runners
  <2>3. \A s \in Importers : Active(s)' /\ ~BackfillDone => lo <= runs'[s].fallback
    BY <1>13, <1>18 DEF CoveredFrom, Runners
  <2> QED
    BY <1>2, <1>20, <1>21, <2>1, <2>2, <2>3 DEF CoveredFrom, Saved
<1>23. Month + 2 <= clock'
  BY <1>2 DEF IInv
<1> QED
  BY <1>2, <1>14, <1>15, <1>16, <1>17, <1>18, <1>22, <1>23 DEF IInv

----------------------------------------------------------------------------
(* The theorems *)

LEMMA StutterKeeps ==
    ASSUME IInv, UNCHANGED vars
    PROVE  IInv'
BY DEF IInv, vars, upstream, TypeOK, FeedInOrder, RunsMakeSense, RunMakesSense,
       ReadsInOrder, NothingMissed, EndIsReached, LeavesNothing, Stamp, AsksFrom,
       EventsAreOfThePast, FirstDeltasReachBack, CoveredFrom, Saved, BackfillDone, Active

LEMMA StepKeeps ==
    ASSUME IInv, [Next]_vars
    PROVE  IInv'
<1>1. CASE Tick
  BY <1>1, TickKeeps
<1>2. ASSUME NEW k \in Keys, Modify(k)
      PROVE  IInv'
  BY <1>2, ModifyKeeps
<1>3. ASSUME NEW r \in Runners, Page(r)
      PROVE  IInv'
  BY <1>3, FetchKeeps, SaveKeeps, FinishKeeps DEF Page
<1>4. ASSUME NEW r \in Importers, StartImport(r)
      PROVE  IInv'
  BY <1>4, StartImportKeeps
<1>5. ASSUME NEW r \in Daemons, StartDelta(r)
      PROVE  IInv'
  BY <1>5, StartDeltaKeeps
<1>6. ASSUME NEW r \in Runners, Fail(r)
      PROVE  IInv'
  BY <1>6, FailKeeps
<1>7. CASE UNCHANGED vars
  BY <1>7, StutterKeeps
<1> QED
  BY <1>1, <1>2, <1>3, <1>4, <1>5, <1>6, <1>7 DEF Next, Upstream, RunDelta, Runners

THEOREM Invariance == Spec => []IInv
<1>1. Init => IInv
  BY InitEstablishes
<1>2. IInv /\ [Next]_vars => IInv'
  BY StepKeeps
<1> QED
  BY <1>1, <1>2, PTL DEF Spec

(***************************************************************************)
(* The values that a run, the cursor and the tables take, for any number   *)
(* of imports and daemons (sync/run.go).                                   *)
(***************************************************************************)
THEOREM TypeCorrect == Spec => []TypeOK
<1>1. IInv => TypeOK
  BY DEF IInv
<1> QED
  BY <1>1, Invariance, PTL

LEMMA NothingBehindCursor ==
    ASSUME IInv
    PROVE  NoChangeLost
<1> SUFFICES ASSUME BackfillDone, NEW row \in feed, row.time < Cursor
             PROVE  row \in raw
  BY DEF NoChangeLost, BackfillDone
<1>1. PICK lo \in 0 .. clock : CoveredFrom(lo)
  BY DEF IInv
<1>2. PICK e \in events : Cursor = e.hwm
  BY CursorIsAMark DEF IInv, BackfillDone
<1>3. Saved(0, lo) /\ Saved(lo, e.hwm)
  BY <1>1 DEF CoveredFrom
<1>4. row.time \in Nat /\ lo \in Nat
  BY <1>1 DEF IInv, TypeOK, Row
<1> QED
  BY <1>2, <1>3, <1>4 DEF Saved

(***************************************************************************)
(* Once an import has succeeded, every modification older than the next    *)
(* delta's window is in raw_output: for any number of imports and daemons, *)
(* however they overlap and fail (LastSuccessfulHWM, stampOutcome).        *)
(***************************************************************************)
THEOREM CursorLosesNothing == Spec => []NoChangeLost
<1>1. IInv => NoChangeLost
  BY NothingBehindCursor
<1> QED
  BY <1>1, Invariance, PTL

----------------------------------------------------------------------------
(* Rows by their rank in the feed *)

\* How many rows come before it.
Rank(row) == Cardinality({q \in feed : q.n < row.n})

FeedIsRanked ==
    /\ IsFiniteSet(feed)
    /\ feed \subseteq Row
    /\ \A row, other \in feed : row.n = other.n => row = other
    /\ \A row \in feed : 0 < row.n /\ row.n <= changes

\* A row comes after fewer rows than there were modifications.
LEMMA RankIsSmall ==
    ASSUME FeedIsRanked, changes \in Nat, NEW row \in feed
    PROVE  Rank(row) \in Nat /\ Rank(row) < changes
<1> DEFINE B == {q \in feed : q.n < row.n}
           f == [q \in B |-> q.n]
<1>1. IsFiniteSet(B)
  BY FS_Subset DEF FeedIsRanked
<1>2. \A q \in B : q.n \in 1 .. row.n - 1
  BY DEF FeedIsRanked, Row
<1>3. f \in Injection(B, 1 .. row.n - 1)
  BY <1>2 DEF Injection, IsInjective, FeedIsRanked
<1>4. row.n \in Nat /\ 0 < row.n /\ row.n <= changes
  BY DEF FeedIsRanked, Row
<1>5. IsFiniteSet(1 .. row.n - 1) /\ Cardinality(1 .. row.n - 1) = row.n - 1
  <2>1. PICK b \in Nat : b = row.n - 1
    BY <1>4
  <2>2. IsFiniteSet(1 .. b) /\ Cardinality(1 .. b) = IF 1 > b THEN 0 ELSE b - 1 + 1
    BY FS_Interval
  <2> QED
    BY <2>1, <2>2
<1>6. Cardinality(B) <= row.n - 1 /\ Cardinality(B) \in Nat
  BY <1>1, <1>3, <1>5, FS_Injection, FS_CardinalityType
<1> QED
  BY <1>4, <1>6 DEF Rank

\* There is a row of every rank below another's.
LEMMA RanksAreDense ==
    ASSUME FeedIsRanked, changes \in Nat, NEW row \in feed, NEW m \in Nat, m <= Rank(row)
    PROVE  \E s \in feed : Rank(s) = m
<1> DEFINE T == {s.n : s \in {x \in feed : m <= Rank(x)}}
<1>1. T \subseteq Nat /\ T # {}
  BY DEF FeedIsRanked, Row
<1>2. PICK least \in T : \A y \in T : ~(<<y, least>> \in OpToRel(<, Nat))
  <2> HIDE DEF T
  <2> QED
    BY <1>1, NatLessThanWellFounded, WFMin, Zenon
<1>3. PICK s \in feed : m <= Rank(s) /\ s.n = least
  BY <1>2
<1> SUFFICES ASSUME Rank(s) # m
             PROVE  FALSE
  OBVIOUS
<1> DEFINE B == {q \in feed : q.n < s.n}
           ns == {q.n : q \in B}
<1>4. IsFiniteSet(B) /\ Rank(s) = Cardinality(B) /\ Rank(s) \in Nat
  BY FS_Subset, RankIsSmall DEF FeedIsRanked, Rank
<1>5. B # {}
  BY <1>3, <1>4, FS_EmptySet
<1>6. MaxOf(ns) \in ns /\ \A x \in ns : x <= MaxOf(ns)
  <2>1. ns \in SUBSET Nat /\ ns # {} /\ \A x \in ns : x <= changes
    BY <1>5 DEF FeedIsRanked, Row
  <2> HIDE DEF ns
  <2> QED
    BY <2>1, MaxIsGreatest
<1>7. PICK q \in B : \A x \in B : x.n <= q.n
  BY <1>6
<1> DEFINE C == {x \in feed : x.n < q.n}
<1>8. C = B \ {q}
  <2>1. \A x \in feed : x.n \in Nat
    BY DEF FeedIsRanked, Row
  <2> QED
    BY <1>7, <2>1 DEF FeedIsRanked
<1>9. Rank(q) = Rank(s) - 1
  <2>1. Cardinality(B \ {q}) = Cardinality(B) - 1
    <3> HIDE DEF B
    <3> QED
      BY <1>4, FS_RemoveElement
  <2> QED
    BY <1>4, <1>8, <2>1 DEF Rank
<1>10. m <= Rank(q)
  BY <1>3, <1>4, <1>9
<1>11. q.n \in T /\ q.n < s.n /\ q.n \in Nat /\ s.n \in Nat
  BY <1>1, <1>10 DEF FeedIsRanked, Row
<1>12. <<q.n, least>> \in OpToRel(<, Nat)
  BY <1>3, <1>11 DEF OpToRel
<1> QED
  BY <1>2, <1>11, <1>12

LEMMA PagesByRank ==
    ASSUME FeedIsRanked, changes \in Nat, NEW idx \in Nat
    PROVE  /\ PageAt(idx) \subseteq feed
           /\ \A row \in feed : row \in PageAt(idx) <=>
                 idx * PageSize <= Rank(row) /\ Rank(row) < (idx + 1) * PageSize
<1>1. PageSize \in Nat
  BY SyncAssumption
<1>2. idx * PageSize \in Nat /\ (idx + 1) * PageSize \in Nat
  BY <1>1
<1>3. \A row \in feed : Rank(row) \in Nat
  BY RankIsSmall
<1> QED
  BY <1>2, <1>3 DEF PageAt, First, Rank

\* After a short page there is nothing.
LEMMA ShortIsLast ==
    ASSUME FeedIsRanked, changes \in Nat, NEW idx \in Nat, Short(PageAt(idx)),
           NEW row \in feed
    PROVE  Rank(row) < (idx + 1) * PageSize
<1>1. PageSize \in Nat /\ PageSize > 0
  BY SyncAssumption
<1>2. PICK start \in Nat : start = idx * PageSize
  BY <1>1
<1>3. (idx + 1) * PageSize = start + PageSize
  BY <1>1, <1>2
<1>4. Rank(row) \in Nat
  BY RankIsSmall
<1> SUFFICES ASSUME start + PageSize <= Rank(row)
             PROVE  ~Short(PageAt(idx))
  BY <1>1, <1>3, <1>4
<1> DEFINE f == [j \in 1 .. PageSize |-> CHOOSE s \in feed : Rank(s) = start + j - 1]
<1>5. ASSUME NEW j \in 1 .. PageSize
      PROVE  f[j] \in PageAt(idx) /\ Rank(f[j]) = start + j - 1
  <2>1. start + j - 1 \in Nat /\ start + j - 1 <= Rank(row)
    BY <1>1, <1>4
  <2>2. \E s \in feed : Rank(s) = start + j - 1
    BY <2>1, RanksAreDense
  <2>3. f[j] \in feed /\ Rank(f[j]) = start + j - 1
    BY <2>2
  <2> HIDE DEF f
  <2>4. start <= Rank(f[j]) /\ Rank(f[j]) < start + PageSize
    BY <1>1, <2>3
  <2> QED
    BY <1>2, <1>3, <2>3, <2>4, PagesByRank
<1>6. f \in Injection(1 .. PageSize, PageAt(idx))
  <2>1. f \in [1 .. PageSize -> PageAt(idx)]
    BY <1>5
  <2>2. \A a, b \in 1 .. PageSize : f[a] = f[b] => a = b
    <3> HIDE DEF f
    <3> TAKE a, b \in 1 .. PageSize
    <3> HAVE f[a] = f[b]
    <3>1. start + a - 1 = start + b - 1
      BY <1>5
    <3> QED
      BY <3>1
  <2> QED
    BY <2>1, <2>2 DEF Injection, IsInjective
<1>7. IsFiniteSet(PageAt(idx))
  BY PagesByRank, FS_Subset DEF FeedIsRanked
<1>8. Cardinality(1 .. PageSize) = PageSize
  BY <1>1, FS_Interval
<1>9. PageSize <= Cardinality(PageAt(idx))
  <2> HIDE DEF f
  <2> QED
    BY <1>6, <1>7, <1>8, FS_Injection
<1>10. Cardinality(PageAt(idx)) \in Nat
  BY <1>7, FS_CardinalityType
<1> QED
  BY <1>1, <1>9, <1>10 DEF Short

----------------------------------------------------------------------------
(* What holds of the runs, the workers and upstream, whatever is fetched *)

Worker == [at : {"take", "check", "fetch", "save", "done"}, idx : Nat, page : SUBSET Row]

CountersMakeSense ==
    /\ nextIdx \in Nat
    /\ boundary \in 0 .. Unbounded
    /\ workers \in [FetchWorkers -> Worker]
    /\ \A w \in FetchWorkers : \A p \in workers[w].page : p.time <= clock

RunIsOfThePast(r) ==
    /\ runs[r].hwm <= clock
    /\ runs[r].pos <= changes
    /\ \A p \in runs[r].page : p.time <= clock
    /\ Active(r) => runs[r].fallback \in 1 .. clock

Sane ==
    /\ TypeOK
    /\ Month + 2 <= clock
    /\ FeedIsRanked
    /\ \A row \in feed : row.time <= clock
    /\ EventsAreOfThePast
    /\ \A r \in Runners : RunIsOfThePast(r)
    /\ CountersMakeSense

LEMMA SaneTypes ==
    ASSUME Sane
    PROVE  SkipTypeOK
BY DEF Sane, CountersMakeSense, SkipTypeOK, Worker

\* A step of one run.
LEMMA SaneRunSteps ==
    ASSUME Sane, NEW r \in Runners, NEW run \in Run,
           runs' = [runs EXCEPT ![r] = run],
           run.hwm <= clock, run.pos <= changes, \A p \in run.page : p.time <= clock,
           run.at # "idle" => run.fallback \in 1 .. clock,
           UNCHANGED upstream, raw' \subseteq Row, failures' \in 0 .. MaxFailures,
           events' \subseteq [type : {"backfill", "sync"}, hwm : Nat \ {0}],
           \A e \in events' : e.hwm <= clock, CountersMakeSense'
    PROVE  Sane'
<1>1. /\ clock' = clock /\ changes' = changes /\ feed' = feed /\ runs \in [Runners -> Run]
  BY DEF upstream, Sane, TypeOK
<1>2. runs' \in [Runners -> Run] /\ runs'[r] = run
      /\ \A s \in Runners \ {r} : runs'[s] = runs[s]
  BY <1>1
<1>3. TypeOK'
  BY <1>1, <1>2 DEF Sane, TypeOK
<1>4. \A s \in Runners : RunIsOfThePast(s)'
  BY <1>1, <1>2 DEF Sane, RunIsOfThePast, Active
<1> QED
  BY <1>1, <1>3, <1>4 DEF Sane, FeedIsRanked, EventsAreOfThePast

\* A step that only counts.
LEMMA SaneCounterSteps ==
    ASSUME Sane, UNCHANGED vars, CountersMakeSense'
    PROVE  Sane'
BY DEF Sane, vars, upstream, TypeOK, FeedIsRanked, EventsAreOfThePast, RunIsOfThePast, Active

LEMMA SaneTick ==
    ASSUME Sane, Tick, UNCHANGED skipVars
    PROVE  Sane'
<1>1. /\ clock \in Nat /\ clock' = clock + 1 /\ Month \in Nat /\ changes' = changes
      /\ feed' = feed /\ raw' = raw /\ events' = events /\ runs' = runs
      /\ failures' = failures /\ runs \in [Runners -> Run] /\ feed \subseteq Row
      /\ events \subseteq [type : {"backfill", "sync"}, hwm : Nat \ {0}]
  BY SyncAssumption DEF Sane, TypeOK, Tick
<1>2. TypeOK' /\ Month + 2 <= clock' /\ FeedIsRanked'
  BY <1>1 DEF Sane, TypeOK, FeedIsRanked
<1>3. (\A row \in feed : row.time <= clock)' /\ EventsAreOfThePast'
  BY <1>1 DEF Sane, EventsAreOfThePast, Row
<1>4. \A r \in Runners : RunIsOfThePast(r)'
  <2> SUFFICES ASSUME NEW r \in Runners PROVE RunIsOfThePast(r)'
    OBVIOUS
  <2>1. runs[r] \in Run /\ RunIsOfThePast(r)
    BY <1>1 DEF Sane
  <2> QED
    BY <1>1, <2>1 DEF RunIsOfThePast, Run, Row, Active
<1>5. CountersMakeSense'
  <2>1. CountersMakeSense /\ UNCHANGED <<nextIdx, boundary, workers>>
    BY DEF Sane, skipVars
  <2>2. \A w \in FetchWorkers : workers[w].page \subseteq Row
    BY <2>1 DEF CountersMakeSense, Worker
  <2>3. ASSUME NEW w \in FetchWorkers, NEW p \in workers[w].page
        PROVE  p.time <= clock + 1
    BY <1>1, <2>1, <2>2, <2>3 DEF CountersMakeSense, Row
  <2> QED
    BY <1>1, <2>1, <2>3 DEF CountersMakeSense
<1> QED
  BY <1>2, <1>3, <1>4, <1>5 DEF Sane

LEMMA SaneModify ==
    ASSUME Sane, NEW k \in Keys, Modify(k), UNCHANGED skipVars
    PROVE  Sane'
<1> DEFINE new == [time |-> clock, n |-> changes + 1, key |-> k]
           old == {row \in feed : row.key # k}
<1>1. /\ clock \in Nat /\ changes \in Nat /\ feed \subseteq Row /\ new \in Row
      /\ FeedIsRanked /\ runs \in [Runners -> Run]
  BY DEF Sane, TypeOK, Row
<1>2. /\ changes' = changes + 1 /\ clock' = clock /\ runs' = runs /\ raw' = raw
      /\ events' = events /\ failures' = failures /\ feed' = old \cup {new}
  BY DEF Modify
<1>3. new.time = clock /\ new.n = changes + 1
  OBVIOUS
<1>4. IsFiniteSet(old) /\ old \subseteq feed
  BY <1>1, FS_Subset DEF FeedIsRanked
<1> HIDE DEF new, old
<1>5. FeedIsRanked'
  <2>1. IsFiniteSet(feed')
    BY <1>2, <1>4, FS_AddElement
  <2>2. \A row \in old : row.n \in Nat /\ 0 < row.n /\ row.n <= changes
    BY <1>1, <1>4 DEF FeedIsRanked, Row
  <2>3. \A row \in feed' : 0 < row.n /\ row.n <= changes'
    BY <1>1, <1>2, <1>3, <2>2
  <2>4. \A row, other \in old : row.n = other.n => row = other
    BY <1>1, <1>4 DEF FeedIsRanked
  <2>5. \A row, other \in feed' : row.n = other.n => row = other
    BY <1>1, <1>2, <1>3, <2>2, <2>4
  <2>6. feed' \subseteq Row
    BY <1>1, <1>2, <1>4
  <2> QED
    BY <2>1, <2>3, <2>5, <2>6 DEF FeedIsRanked
<1>6. TypeOK'
  BY <1>1, <1>2, <1>5 DEF Sane, TypeOK, FeedIsRanked
<1>7. (\A row \in feed : row.time <= clock)'
  BY <1>1, <1>2, <1>3, <1>4 DEF Sane
<1>8. \A r \in Runners : RunIsOfThePast(r)'
  <2> SUFFICES ASSUME NEW r \in Runners PROVE RunIsOfThePast(r)'
    OBVIOUS
  <2>1. runs[r] \in Run /\ RunIsOfThePast(r)
    BY <1>1 DEF Sane
  <2> QED
    BY <1>1, <1>2, <2>1 DEF RunIsOfThePast, Run, Active
<1>9. CountersMakeSense'
  BY <1>2 DEF Sane, CountersMakeSense, skipVars
<1> QED
  BY <1>2, <1>5, <1>6, <1>7, <1>8, <1>9 DEF Sane, EventsAreOfThePast

LEMMA SaneFetch ==
    ASSUME Sane, NEW r \in Runners, FetchPage(r), UNCHANGED skipVars
    PROVE  Sane'
<1> DEFINE page == First(PageSize, Matching(runs[r]))
           ns   == {row.n : row \in page} \cup {runs[r].pos}
           last == page = Matching(runs[r])
<1>1. /\ runs[r] \in Run /\ feed \subseteq Row /\ changes \in Nat /\ clock \in Nat
      /\ RunIsOfThePast(r) /\ runs[r].at = "fetch"
  BY DEF Sane, TypeOK, FetchPage
<1>2. page \subseteq feed
  BY DEF First, Matching
<1>3. ns \in SUBSET Nat /\ ns # {} /\ \A m \in ns : m <= changes
  <2> HIDE DEF page
  <2> QED
    BY <1>1, <1>2 DEF Sane, FeedIsRanked, RunIsOfThePast, Run, Row
<1>4. MaxOf(ns) \in Nat /\ MaxOf(ns) <= changes
  <2> HIDE DEF ns
  <2> QED
    BY <1>1, <1>3, MaxIsGreatest
<1>5. runs' = [runs EXCEPT ![r] = [runs[r] EXCEPT !.at = "save", !.page = page,
                  !.pos = MaxOf(ns), !.last = last]]
  BY DEF FetchPage, SetRun
<1>6. last \in BOOLEAN
  OBVIOUS
<1> DEFINE max == MaxOf(ns)
<1> HIDE DEF max, ns, page, last
<1> DEFINE run == [runs[r] EXCEPT !.at = "save", !.page = page, !.pos = max, !.last = last]
<1>7. run \in Run /\ run.hwm = runs[r].hwm /\ run.pos = max /\ run.page = page
      /\ run.fallback = runs[r].fallback
  BY <1>1, <1>2, <1>4, <1>6 DEF Run, max
<1>8. runs' = [runs EXCEPT ![r] = run]
  BY <1>5 DEF max
<1> HIDE DEF run
<1>9. /\ run.hwm <= clock /\ run.pos <= changes /\ \A p \in run.page : p.time <= clock
      /\ run.fallback \in 1 .. clock
  BY <1>1, <1>2, <1>4, <1>7 DEF Sane, RunIsOfThePast, Active, max
<1>10. /\ UNCHANGED upstream /\ raw' = raw /\ events' = events /\ failures' = failures
       /\ CountersMakeSense'
  BY DEF FetchPage, Sane, CountersMakeSense, skipVars, upstream
<1>11. /\ raw' \subseteq Row /\ failures' \in 0 .. MaxFailures
       /\ events' \subseteq [type : {"backfill", "sync"}, hwm : Nat \ {0}]
       /\ \A e \in events' : e.hwm <= clock
  BY <1>10 DEF Sane, TypeOK, EventsAreOfThePast
<1> QED
  BY <1>7, <1>8, <1>9, <1>10, <1>11, SaneRunSteps

\* The greatest of the times of some rows and the mark so far.
LEMMA MarkIsOfThePast ==
    ASSUME Sane, NEW r \in Runners, NEW page \in SUBSET Row, \A p \in page : p.time <= clock
    PROVE  /\ MaxOf(Written(page) \cup {runs[r].hwm}) \in Nat
           /\ MaxOf(Written(page) \cup {runs[r].hwm}) <= clock
<1> DEFINE times == Written(page) \cup {runs[r].hwm}
<1>1. /\ runs[r] \in Run /\ clock \in Nat /\ RunIsOfThePast(r)
  BY DEF Sane, TypeOK
<1>2. times \in SUBSET Nat /\ times # {} /\ \A m \in times : m <= clock
  BY <1>1 DEF Written, RunIsOfThePast, Run, Row
<1>3. MaxOf(times) \in times /\ \A m \in times : m <= clock
  <2> HIDE DEF times
  <2> QED
    BY <1>1, <1>2, MaxIsGreatest
<1> HIDE DEF times
<1>4. MaxOf(times) \in Nat /\ MaxOf(times) <= clock
  BY <1>2, <1>3
<1> QED
  BY <1>4 DEF times

LEMMA SaneSave ==
    ASSUME Sane, NEW r \in Runners, SavePage(r), UNCHANGED skipVars
    PROVE  Sane'
<1> DEFINE max == MaxOf(Written(runs[r].page) \cup {runs[r].hwm})
           at  == IF runs[r].at = "save" /\ runs[r].last THEN "finish" ELSE "fetch"
<1>1. /\ runs[r] \in Run /\ clock \in Nat /\ RunIsOfThePast(r) /\ runs[r].at = "save"
      /\ raw \subseteq Row
  BY DEF Sane, TypeOK, SavePage
<1>2. runs[r].page \in SUBSET Row
  BY <1>1 DEF Run
<1>3. max \in Nat /\ max <= clock
  <2>1. \A p \in runs[r].page : p.time <= clock
    BY <1>1 DEF RunIsOfThePast
  <2> HIDE DEF max
  <2> QED
    BY <1>2, <2>1, MarkIsOfThePast DEF max
<1>4. runs' = [runs EXCEPT ![r] = [runs[r] EXCEPT !.at = at, !.page = {}, !.hwm = max]]
  BY DEF SavePage, SetRun
<1>5. at \in {"finish", "fetch"}
  OBVIOUS
<1> HIDE DEF max, at
<1> DEFINE run == [runs[r] EXCEPT !.at = at, !.page = {}, !.hwm = max]
<1>6. run \in Run /\ run.hwm = max /\ run.pos = runs[r].pos /\ run.page = {}
      /\ run.fallback = runs[r].fallback
  BY <1>1, <1>3, <1>5 DEF Run
<1>7. runs' = [runs EXCEPT ![r] = run]
  BY <1>4
<1> HIDE DEF run
<1>8. /\ run.hwm <= clock /\ run.pos <= changes /\ \A p \in run.page : p.time <= clock
      /\ run.fallback \in 1 .. clock
  BY <1>1, <1>3, <1>6 DEF RunIsOfThePast, Active
<1>9. /\ UNCHANGED upstream /\ raw' = raw \cup runs[r].page /\ events' = events
      /\ failures' = failures /\ CountersMakeSense'
  BY DEF SavePage, Sane, CountersMakeSense, skipVars, upstream
<1>10. /\ raw' \subseteq Row /\ failures' \in 0 .. MaxFailures
       /\ events' \subseteq [type : {"backfill", "sync"}, hwm : Nat \ {0}]
       /\ \A e \in events' : e.hwm <= clock
  BY <1>2, <1>9 DEF Sane, TypeOK, EventsAreOfThePast
<1> QED
  BY <1>6, <1>7, <1>8, <1>9, <1>10, SaneRunSteps

\* No run, and nothing of it.
LEMMA IdleRun ==
    ASSUME clock \in Nat, changes \in Nat
    PROVE  /\ Idle \in Run /\ Idle.at = "idle" /\ Idle.hwm <= clock /\ Idle.pos <= changes
           /\ \A p \in Idle.page : p.time <= clock
BY DEF Idle, Run

LEMMA SaneFinish ==
    ASSUME Sane, NEW r \in Runners, Finish(r), UNCHANGED skipVars
    PROVE  Sane'
<1>1. /\ runs[r] \in Run /\ clock \in Nat /\ changes \in Nat /\ RunIsOfThePast(r)
      /\ runs[r].at = "finish"
      /\ events \subseteq [type : {"backfill", "sync"}, hwm : Nat \ {0}]
  BY DEF Sane, TypeOK, Finish
<1>2. PICK mark \in 1 .. clock : mark = Stamp(r)
  BY <1>1 DEF Stamp, RunIsOfThePast, Active, Run
<1> DEFINE event == [type |-> TypeOf(r), hwm |-> mark]
<1>3. event \in [type : {"backfill", "sync"}, hwm : Nat \ {0}] /\ event.hwm <= clock
  BY <1>1 DEF TypeOf
<1>4. /\ UNCHANGED upstream /\ raw' = raw /\ events' = events \cup {event}
      /\ failures' = failures /\ runs' = [runs EXCEPT ![r] = Idle]
  BY <1>2 DEF Finish, SetRun
<1>5. CountersMakeSense'
  BY <1>4 DEF Sane, CountersMakeSense, skipVars, upstream
<1> HIDE DEF event
<1>6. /\ raw' \subseteq Row /\ failures' \in 0 .. MaxFailures
      /\ events' \subseteq [type : {"backfill", "sync"}, hwm : Nat \ {0}]
      /\ \A e \in events' : e.hwm <= clock
  BY <1>1, <1>3, <1>4 DEF Sane, TypeOK, EventsAreOfThePast
<1> QED
  BY <1>1, <1>4, <1>5, <1>6, IdleRun, SaneRunSteps

LEMMA SaneStartDelta ==
    ASSUME Sane, NEW r \in Runners, StartDelta(r), UNCHANGED skipVars
    PROVE  Sane'
<1>1. /\ clock \in Nat /\ changes \in Nat /\ Month \in Nat /\ Month + 2 <= clock
      /\ TypeOK /\ EventsAreOfThePast
      /\ events \subseteq [type : {"backfill", "sync"}, hwm : Nat \ {0}]
  BY SyncAssumption DEF Sane, TypeOK
<1>2. Cursor \in 1 .. clock
  <2>1. CASE events = {}
    BY <1>1, <2>1, CursorIsAMark
  <2>2. CASE events # {}
    BY <1>1, <2>2, CursorIsAMark DEF EventsAreOfThePast
  <2> QED
    BY <2>1, <2>2
<1>3. PICK from \in 1 .. clock : from = Cursor
  BY <1>2
<1> DEFINE run == Fresh("fetch", from, from)
<1>4. runs' = [runs EXCEPT ![r] = run]
  BY <1>3 DEF StartDelta, SetRun, Fresh, Idle
<1>5. run \in Run /\ run.hwm = 0 /\ run.pos = 0 /\ run.page = {} /\ run.fallback = from
  <2>1. from \in Nat
    BY <1>1
  <2> QED
    BY <2>1 DEF Fresh, Idle, Run
<1> HIDE DEF run
<1>8. /\ run.hwm <= clock /\ run.pos <= changes /\ \A p \in run.page : p.time <= clock
      /\ run.fallback \in 1 .. clock
  BY <1>1, <1>5
<1>6. /\ UNCHANGED upstream /\ raw' = raw /\ events' = events
      /\ failures' = failures /\ CountersMakeSense'
  BY DEF StartDelta, Sane, CountersMakeSense, skipVars, upstream
<1>7. /\ raw' \subseteq Row /\ failures' \in 0 .. MaxFailures
      /\ events' \subseteq [type : {"backfill", "sync"}, hwm : Nat \ {0}]
      /\ \A e \in events' : e.hwm <= clock
  BY <1>6 DEF Sane, TypeOK, EventsAreOfThePast
<1> QED
  BY <1>4, <1>5, <1>6, <1>7, <1>8, SaneRunSteps

LEMMA SaneFail ==
    ASSUME Sane, NEW r \in Runners, Fail(r), CountersMakeSense'
    PROVE  Sane'
<1>1. /\ UNCHANGED upstream /\ raw' = raw /\ events' = events
      /\ failures' = failures + 1 /\ failures < MaxFailures /\ runs' = [runs EXCEPT ![r] = Idle]
  BY DEF Fail, SetRun
<1>2. /\ clock \in Nat /\ changes \in Nat /\ failures \in 0 .. MaxFailures
      /\ MaxFailures \in Nat
  BY SyncAssumption DEF Sane, TypeOK
<1>3. /\ raw' \subseteq Row /\ failures' \in 0 .. MaxFailures
      /\ events' \subseteq [type : {"backfill", "sync"}, hwm : Nat \ {0}]
      /\ \A e \in events' : e.hwm <= clock
  BY <1>1, <1>2 DEF Sane, TypeOK, EventsAreOfThePast
<1> QED
  BY <1>1, <1>2, <1>3, IdleRun, SaneRunSteps

----------------------------------------------------------------------------
(* The steps of the workers *)

LEMMA UnboundedIsNat == Unbounded \in Nat \ {0}
BY SMT DEF Unbounded

LEMMA CountersAreFresh ==
    ASSUME FreshCounters
    PROVE  CountersMakeSense'
BY UnboundedIsNat DEF FreshCounters, CountersMakeSense, Worker, Ready

LEMMA ImporterRuns == Importer \in Runners
BY SkipAssumption DEF Runners

LEMMA SaneStart ==
    ASSUME Sane, StartSkipPaged
    PROVE  Sane'
<1>1. clock \in Nat /\ changes \in Nat /\ Month \in Nat /\ Month + 2 <= clock
  BY SyncAssumption DEF Sane, TypeOK
<1> DEFINE run == [Idle EXCEPT !.at = "skip", !.fallback = clock]
<1>2. /\ run \in Run /\ run.hwm = 0 /\ run.pos = 0 /\ run.page = {}
      /\ run.fallback = clock
  BY <1>1 DEF Idle, Run
<1>3. runs' = [runs EXCEPT ![Importer] = run]
  BY DEF StartSkipPaged, SetRun
<1> HIDE DEF run
<1>4. /\ UNCHANGED upstream /\ raw' = raw /\ events' = events
      /\ failures' = failures /\ CountersMakeSense'
  BY CountersAreFresh DEF StartSkipPaged
<1>5. /\ raw' \subseteq Row /\ failures' \in 0 .. MaxFailures
      /\ events' \subseteq [type : {"backfill", "sync"}, hwm : Nat \ {0}]
      /\ \A e \in events' : e.hwm <= clock
  BY <1>4 DEF Sane, TypeOK, EventsAreOfThePast
<1>6. /\ run.hwm <= clock /\ run.pos <= changes /\ \A p \in run.page : p.time <= clock
      /\ run.fallback \in 1 .. clock
  BY <1>1, <1>2
<1> QED
  BY <1>2, <1>3, <1>4, <1>5, <1>6, ImporterRuns, SaneRunSteps

LEMMA SaneJoin ==
    ASSUME Sane, Join
    PROVE  Sane'
<1>1. /\ runs[Importer] \in Run /\ RunIsOfThePast(Importer)
      /\ runs[Importer].at = "skip"
  BY ImporterRuns DEF Sane, TypeOK, Join, Fetching
<1> DEFINE run == [runs[Importer] EXCEPT !.at = "finish"]
<1>2. /\ run \in Run /\ run.hwm = runs[Importer].hwm /\ run.pos = runs[Importer].pos
      /\ run.page = runs[Importer].page /\ run.fallback = runs[Importer].fallback
  BY <1>1 DEF Run
<1>3. runs' = [runs EXCEPT ![Importer] = run]
  BY DEF Join, SetRun
<1> HIDE DEF run
<1>4. /\ UNCHANGED upstream /\ raw' = raw /\ events' = events
      /\ failures' = failures /\ CountersMakeSense'
  BY CountersAreFresh DEF Join
<1>5. /\ raw' \subseteq Row /\ failures' \in 0 .. MaxFailures
      /\ events' \subseteq [type : {"backfill", "sync"}, hwm : Nat \ {0}]
      /\ \A e \in events' : e.hwm <= clock
  BY <1>4 DEF Sane, TypeOK, EventsAreOfThePast
<1>6. /\ run.hwm <= clock /\ run.pos <= changes /\ \A p \in run.page : p.time <= clock
      /\ run.fallback \in 1 .. clock
  BY <1>1, <1>2 DEF RunIsOfThePast, Active
<1> QED
  BY <1>2, <1>3, <1>4, <1>5, <1>6, ImporterRuns, SaneRunSteps

\* A worker's step leaves the others where they are.
LEMMA OneWorkerSteps ==
    ASSUME CountersMakeSense, NEW w \in FetchWorkers, NEW s \in Worker, SetWorker(w, s),
           clock' = clock, \A p \in s.page : p.time <= clock,
           nextIdx' \in Nat, boundary' \in 0 .. Unbounded
    PROVE  /\ CountersMakeSense' /\ workers'[w] = s
           /\ \A v \in FetchWorkers \ {w} : workers'[v] = workers[v]
<1>1. workers \in [FetchWorkers -> Worker] /\ workers' = [workers EXCEPT ![w] = s]
  BY DEF CountersMakeSense, SetWorker
<1>2. /\ workers' \in [FetchWorkers -> Worker] /\ workers'[w] = s
      /\ \A v \in FetchWorkers \ {w} : workers'[v] = workers[v]
  BY <1>1
<1> QED
  BY <1>2 DEF CountersMakeSense

LEMMA SaneTake ==
    ASSUME Sane, NEW w \in FetchWorkers, TakePage(w)
    PROVE  /\ Sane' /\ UNCHANGED <<vars, boundary>> /\ nextIdx' = nextIdx + 1
           /\ workers'[w].at = "check" /\ workers'[w].idx = nextIdx
           /\ \A v \in FetchWorkers \ {w} : workers'[v] = workers[v]
<1> DEFINE s == [Ready EXCEPT !.at = "check", !.idx = nextIdx]
<1>1. CountersMakeSense /\ nextIdx \in Nat /\ boundary \in 0 .. Unbounded
  BY DEF Sane, CountersMakeSense
<1>2. s \in Worker /\ s.page = {} /\ s.at = "check" /\ s.idx = nextIdx
  BY <1>1 DEF Ready, Worker
<1>3. /\ UNCHANGED <<vars, boundary>> /\ nextIdx' = nextIdx + 1 /\ SetWorker(w, s)
      /\ clock' = clock
  BY DEF TakePage, vars, upstream
<1> HIDE DEF s
<1>4. /\ CountersMakeSense' /\ workers'[w] = s
      /\ \A v \in FetchWorkers \ {w} : workers'[v] = workers[v]
  BY <1>1, <1>2, <1>3, OneWorkerSteps
<1> QED
  BY <1>2, <1>3, <1>4, SaneCounterSteps

LEMMA SaneCheck ==
    ASSUME Sane, NEW w \in FetchWorkers, CheckBoundary(w)
    PROVE  /\ Sane' /\ UNCHANGED <<vars, nextIdx, boundary>>
           /\ IF workers[w].idx >= boundary THEN workers'[w].at = "done"
              ELSE workers'[w].at = "fetch" /\ workers'[w].idx = workers[w].idx
           /\ \A v \in FetchWorkers \ {w} : workers'[v] = workers[v]
<1> DEFINE s == IF workers[w].idx >= boundary THEN [Ready EXCEPT !.at = "done"]
                ELSE [workers[w] EXCEPT !.at = "fetch"]
<1>1. /\ CountersMakeSense /\ nextIdx \in Nat /\ boundary \in 0 .. Unbounded
      /\ workers[w] \in Worker
  BY DEF Sane, CountersMakeSense
<1>2. s \in Worker /\ (s.page = {} \/ s.page = workers[w].page)
      /\ IF workers[w].idx >= boundary THEN s.at = "done"
         ELSE s.at = "fetch" /\ s.idx = workers[w].idx
  BY <1>1 DEF Ready, Worker
<1>3. /\ UNCHANGED <<vars, nextIdx, boundary>> /\ SetWorker(w, s) /\ clock' = clock
  BY DEF CheckBoundary, vars, upstream
<1> HIDE DEF s
<1>4. \A p \in s.page : p.time <= clock
  BY <1>1, <1>2 DEF CountersMakeSense
<1>5. /\ CountersMakeSense' /\ workers'[w] = s
      /\ \A v \in FetchWorkers \ {w} : workers'[v] = workers[v]
  BY <1>1, <1>2, <1>3, <1>4, OneWorkerSteps
<1> QED
  BY <1>2, <1>3, <1>5, SaneCounterSteps

LEMMA SaneFetchAt ==
    ASSUME Sane, NEW w \in FetchWorkers, FetchAt(w)
    PROVE  /\ Sane' /\ UNCHANGED <<vars, nextIdx>>
           /\ boundary' = IF Short(PageAt(workers[w].idx)) /\ workers[w].idx < boundary
                          THEN workers[w].idx ELSE boundary
           /\ workers'[w].at = "save" /\ workers'[w].idx = workers[w].idx
           /\ workers'[w].page = PageAt(workers[w].idx)
           /\ \A v \in FetchWorkers \ {w} : workers'[v] = workers[v]
<1> DEFINE page == PageAt(workers[w].idx)
           s    == [workers[w] EXCEPT !.at = "save", !.page = page]
<1>1. /\ CountersMakeSense /\ nextIdx \in Nat /\ boundary \in 0 .. Unbounded
      /\ workers[w] \in Worker /\ feed \subseteq Row /\ Unbounded \in Nat
      /\ \A p \in feed : p.time <= clock
  BY UnboundedIsNat DEF Sane, CountersMakeSense, TypeOK
<1>2. page \subseteq feed
  BY DEF PageAt, First
<1>3. /\ UNCHANGED <<vars, nextIdx>> /\ SetWorker(w, s) /\ clock' = clock
      /\ boundary' = IF Short(page) /\ workers[w].idx < boundary
                     THEN workers[w].idx ELSE boundary
  BY DEF FetchAt, vars, upstream
<1> HIDE DEF page
<1>4. /\ s \in Worker /\ s.page = page /\ s.at = "save" /\ s.idx = workers[w].idx
  BY <1>1, <1>2 DEF Worker
<1>5. boundary' \in 0 .. Unbounded /\ nextIdx' \in Nat
  BY <1>1, <1>3 DEF Worker
<1> HIDE DEF s
<1>6. /\ CountersMakeSense' /\ workers'[w] = s
      /\ \A v \in FetchWorkers \ {w} : workers'[v] = workers[v]
  BY <1>1, <1>2, <1>3, <1>4, <1>5, OneWorkerSteps
<1> QED
  BY <1>3, <1>4, <1>6, SaneCounterSteps DEF page

LEMMA SaneSaveAt ==
    ASSUME Sane, NEW w \in FetchWorkers, SaveAt(w)
    PROVE  /\ Sane' /\ UNCHANGED <<upstream, nextIdx, boundary>>
           /\ raw' = raw \cup workers[w].page
           /\ runs'[Importer].at = runs[Importer].at
           /\ workers'[w].at = IF Short(workers[w].page) THEN "done" ELSE "take"
           /\ \A v \in FetchWorkers \ {w} : workers'[v] = workers[v]
<1> DEFINE s   == IF Short(workers[w].page) THEN [Ready EXCEPT !.at = "done"] ELSE Ready
           max == MaxOf(Written(workers[w].page) \cup {runs[Importer].hwm})
<1>1. /\ CountersMakeSense /\ nextIdx \in Nat /\ boundary \in 0 .. Unbounded
      /\ workers[w] \in Worker /\ raw \subseteq Row
      /\ runs[Importer] \in Run /\ RunIsOfThePast(Importer)
      /\ runs[Importer].at = "skip" /\ runs \in [Runners -> Run]
  BY ImporterRuns DEF Sane, CountersMakeSense, TypeOK, SaveAt, Fetching
<1>2. workers[w].page \in SUBSET Row /\ \A p \in workers[w].page : p.time <= clock
  BY <1>1 DEF Worker, CountersMakeSense
<1>3. max \in Nat /\ max <= clock
  <2> HIDE DEF max
  <2> QED
    BY <1>2, ImporterRuns, MarkIsOfThePast DEF max
<1>4. /\ UNCHANGED <<upstream, events, failures, nextIdx, boundary>> /\ SetWorker(w, s)
      /\ raw' = raw \cup workers[w].page /\ clock' = clock
      /\ runs' = [runs EXCEPT ![Importer] = [runs[Importer] EXCEPT !.hwm = max]]
  BY DEF SaveAt, SetRun, upstream
<1> HIDE DEF max
<1>5. s \in Worker /\ s.page = {} /\ s.at = IF Short(workers[w].page) THEN "done" ELSE "take"
  BY DEF Ready, Worker
<1> HIDE DEF s
<1>6. /\ CountersMakeSense' /\ workers'[w] = s
      /\ \A v \in FetchWorkers \ {w} : workers'[v] = workers[v]
  BY <1>1, <1>4, <1>5, OneWorkerSteps
<1> DEFINE run == [runs[Importer] EXCEPT !.hwm = max]
<1>7. /\ run \in Run /\ run.hwm = max /\ run.pos = runs[Importer].pos
      /\ run.at = runs[Importer].at
      /\ run.page = runs[Importer].page /\ run.fallback = runs[Importer].fallback
  BY <1>1, <1>3 DEF Run
<1>8. runs' = [runs EXCEPT ![Importer] = run]
  BY <1>4
<1> HIDE DEF run
<1>9. /\ run.hwm <= clock /\ run.pos <= changes /\ \A p \in run.page : p.time <= clock
      /\ run.fallback \in 1 .. clock
  BY <1>1, <1>3, <1>7 DEF RunIsOfThePast, Active
<1>10. /\ raw' \subseteq Row /\ failures' \in 0 .. MaxFailures
       /\ events' \subseteq [type : {"backfill", "sync"}, hwm : Nat \ {0}]
       /\ \A e \in events' : e.hwm <= clock
  BY <1>1, <1>2, <1>4 DEF Sane, TypeOK, EventsAreOfThePast
<1>11. Sane'
  BY <1>4, <1>6, <1>7, <1>8, <1>9, <1>10, ImporterRuns, SaneRunSteps
<1>12. runs'[Importer].at = runs[Importer].at
  BY <1>1, <1>7, <1>8, ImporterRuns
<1> QED
  BY <1>4, <1>5, <1>6, <1>11, <1>12

LEMMA SaneFailImport ==
    ASSUME Sane, FailImport
    PROVE  Sane'
BY ImporterRuns, CountersAreFresh, SaneFail DEF FailImport

LEMMA SaneBesides ==
    ASSUME Sane, Besides, UNCHANGED skipVars
    PROVE  Sane'
<1>1. CASE Upstream
  BY <1>1, SaneTick, SaneModify DEF Upstream
<1>2. CASE Finish(Importer)
  BY <1>2, ImporterRuns, SaneFinish
<1>3. ASSUME NEW r \in Daemons, RunDelta(r)
      PROVE  Sane'
  BY <1>3, SaneStartDelta, SaneFetch, SaneSave, SaneFinish DEF RunDelta, Page, Runners
<1>4. ASSUME NEW r \in Runners \ {Importer}, Fail(r)
      PROVE  Sane'
  <2>1. CountersMakeSense'
    BY <1>4 DEF Fail, Sane, CountersMakeSense, skipVars, upstream
  <2> QED
    BY <1>4, <2>1, SaneFail
<1> QED
  BY <1>1, <1>2, <1>3, <1>4 DEF Besides

LEMMA SaneStep ==
    ASSUME Sane, [SkipNext]_allVars
    PROVE  Sane'
<1>1. CASE UNCHANGED allVars
  <2>1. CountersMakeSense' /\ UNCHANGED vars
    BY <1>1 DEF allVars, skipVars, vars, upstream, Sane, CountersMakeSense
  <2> QED
    BY <2>1, SaneCounterSteps
<1> QED
  BY <1>1, SaneBesides, SaneStart, SaneTake, SaneCheck, SaneFetchAt, SaneSaveAt, SaneJoin,
     SaneFailImport DEF SkipNext, SkipPaged

LEMMA SaneInit ==
    ASSUME SkipInit
    PROVE  Sane
<1>1. IInv /\ \A r \in Runners : runs[r] = Idle
  BY InitEstablishes DEF SkipInit, Init
<1>2. TypeOK /\ FeedInOrder /\ EventsAreOfThePast /\ Month + 2 <= clock
  BY <1>1 DEF IInv
<1>3. \A row, other \in feed : row.n = other.n => row = other
  BY DEF SkipInit, Init
<1>4. FeedIsRanked /\ \A row \in feed : row.time <= clock
  BY <1>2, <1>3 DEF FeedIsRanked, FeedInOrder, TypeOK
<1>5. \A r \in Runners : RunIsOfThePast(r)
  BY <1>1, <1>2, IdleRun DEF RunIsOfThePast, Active, TypeOK
<1>6. CountersMakeSense
  BY UnboundedIsNat DEF SkipInit, CountersMakeSense, Worker, Ready
<1> QED
  BY <1>2, <1>4, <1>5, <1>6 DEF Sane

----------------------------------------------------------------------------
(* What the workers leave to be fetched *)

\* A worker that has an index and has not saved its page.
AtWork(w) == workers[w].at \in {"check", "fetch", "save"}

\* Every page whose index was taken is saved or some worker's to save.
NoPageForgotten ==
    \A row \in feed :
        \/ row \in raw
        \/ nextIdx * PageSize <= Rank(row)
        \/ \E w \in FetchWorkers : AtWork(w) /\ row \in PageAt(workers[w].idx)

\* No two workers have the same index, and the boundary is another worker's.
OwnIndices ==
    /\ \A w \in FetchWorkers : AtWork(w) => workers[w].idx < nextIdx
    /\ \A w, v \in FetchWorkers :
          AtWork(w) /\ AtWork(v) /\ w # v => workers[w].idx # workers[v].idx
    /\ \A w \in FetchWorkers :
          workers[w].at \in {"check", "fetch"} /\ boundary < Unbounded =>
              workers[w].idx # boundary

PagesInHand ==
    \A w \in FetchWorkers : workers[w].at = "save" =>
        /\ workers[w].page = PageAt(workers[w].idx)
        /\ Short(workers[w].page) => boundary <= workers[w].idx

\* A worker ends only with the boundary behind the next index, and there is
\* nothing beyond the boundary.
BoundaryIsTheEnd ==
    /\ \A w \in FetchWorkers : workers[w].at = "done" => boundary <= nextIdx
    /\ boundary < Unbounded =>
          /\ boundary < nextIdx
          /\ \A row \in feed : Rank(row) < (boundary + 1) * PageSize

SkipInv ==
    /\ Sane
    /\ changes < Unbounded
    /\ Fetching => NoPageForgotten /\ OwnIndices /\ PagesInHand /\ BoundaryIsTheEnd

\* Indices and offsets.
LEMMA Offsets ==
    ASSUME NEW a \in Nat, NEW b \in Nat, a <= b
    PROVE  /\ a * PageSize \in Nat /\ b * PageSize \in Nat
           /\ a * PageSize <= b * PageSize /\ a <= a * PageSize
<1>1. PageSize \in Nat /\ PageSize >= 1
  BY SyncAssumption
<1>2. PICK d \in Nat : b = a + d
  <2>1. b - a \in Nat /\ b = a + (b - a)
    OBVIOUS
  <2> QED
    BY <2>1
<1>3. PICK m \in Nat : PageSize = 1 + m
  <2>1. PageSize - 1 \in Nat /\ PageSize = 1 + (PageSize - 1)
    BY <1>1
  <2> QED
    BY <2>1
<1>4. a * PageSize \in Nat /\ d * PageSize \in Nat /\ b * PageSize \in Nat /\ a * m \in Nat
  BY <1>1, <1>2, <1>3
<1>5. b * PageSize = a * PageSize + d * PageSize
  BY <1>1, <1>2
<1>6. a * PageSize = a + a * m
  BY <1>3
<1> QED
  BY <1>4, <1>5, <1>6

LEMMA SameFeedSameRank ==
    ASSUME feed' = feed
    PROVE  /\ \A row : Rank(row)' = Rank(row)
           /\ \A idx : PageAt(idx)' = PageAt(idx)
BY DEF Rank, PageAt, First

LEMMA SaneFacts ==
    ASSUME Sane
    PROVE  /\ FeedIsRanked /\ changes \in Nat /\ nextIdx \in Nat /\ boundary \in Nat
           /\ boundary <= Unbounded /\ Unbounded \in Nat
           /\ \A w \in FetchWorkers : workers[w].idx \in Nat
           /\ \A row \in feed : Rank(row) \in Nat /\ Rank(row) < changes
<1>1. FeedIsRanked /\ changes \in Nat
  BY DEF Sane, TypeOK
<1> QED
  BY <1>1, UnboundedIsNat, RankIsSmall DEF Sane, CountersMakeSense, Worker

\* A page that lies beyond the boundary is empty.
LEMMA NothingBeyond ==
    ASSUME SkipInv, Fetching, NEW idx \in Nat, idx >= boundary,
           boundary < Unbounded => idx # boundary
    PROVE  PageAt(idx) = {}
<1>1. /\ FeedIsRanked /\ changes \in Nat /\ boundary \in Nat /\ boundary <= Unbounded
      /\ Unbounded \in Nat /\ changes < Unbounded
      /\ \A row \in feed : Rank(row) \in Nat /\ Rank(row) < changes
  BY SaneFacts DEF SkipInv
<1> SUFFICES ASSUME NEW row \in PageAt(idx)
             PROVE  FALSE
  OBVIOUS
<1>2. row \in feed /\ idx * PageSize <= Rank(row)
  BY <1>1, PagesByRank
<1>3. CASE boundary = Unbounded
  <2>1. idx <= idx * PageSize /\ idx * PageSize \in Nat
    BY Offsets
  <2> QED
    BY <1>1, <1>2, <1>3, <2>1
<1>4. CASE boundary < Unbounded
  <2>1. Rank(row) < (boundary + 1) * PageSize
    BY <1>2, <1>4 DEF SkipInv, BoundaryIsTheEnd
  <2>2. boundary + 1 \in Nat /\ boundary + 1 <= idx
    BY <1>1, <1>4
  <2>3. (boundary + 1) * PageSize <= idx * PageSize
        /\ (boundary + 1) * PageSize \in Nat /\ idx * PageSize \in Nat
    BY <2>2, Offsets
  <2> QED
    BY <1>1, <1>2, <2>1, <2>3
<1> QED
  BY <1>1, <1>3, <1>4

\* When the workers are done, nothing is left.
LEMMA DoneIsWhole ==
    ASSUME SkipInv
    PROVE  ImportIsWhole
<1> SUFFICES ASSUME Fetching, \A w \in FetchWorkers : workers[w].at = "done",
                    NEW row \in feed
             PROVE  row \in raw
  BY DEF ImportIsWhole
<1>1. /\ changes \in Nat /\ nextIdx \in Nat /\ boundary \in Nat /\ boundary <= Unbounded
      /\ Unbounded \in Nat /\ changes < Unbounded
      /\ Rank(row) \in Nat /\ Rank(row) < changes
  BY SaneFacts DEF SkipInv
<1>2. boundary <= nextIdx
  BY SkipAssumption DEF SkipInv, BoundaryIsTheEnd
<1>3. row \in raw \/ nextIdx * PageSize <= Rank(row)
  BY DEF SkipInv, NoPageForgotten, AtWork
<1>4. CASE boundary = Unbounded
  <2>1. nextIdx <= nextIdx * PageSize /\ nextIdx * PageSize \in Nat
    BY <1>1, Offsets
  <2> QED
    BY <1>1, <1>2, <1>3, <1>4, <2>1
<1>5. CASE boundary < Unbounded
  <2>1. Rank(row) < (boundary + 1) * PageSize /\ boundary + 1 <= nextIdx
    BY <1>1, <1>5 DEF SkipInv, BoundaryIsTheEnd
  <2>2. (boundary + 1) * PageSize <= nextIdx * PageSize
        /\ (boundary + 1) * PageSize \in Nat /\ nextIdx * PageSize \in Nat
    BY <1>1, <2>1, Offsets
  <2> QED
    BY <1>1, <1>3, <2>1, <2>2
<1> QED
  BY <1>1, <1>4, <1>5

\* The steps of the others leave all that as it is.
LEMMA OthersKeepPages ==
    ASSUME SkipInv, Fetching, UNCHANGED <<feed, nextIdx, boundary, workers>>, raw \subseteq raw'
    PROVE  (NoPageForgotten /\ OwnIndices /\ PagesInHand /\ BoundaryIsTheEnd)'
BY SameFeedSameRank
   DEF SkipInv, NoPageForgotten, OwnIndices, PagesInHand, BoundaryIsTheEnd, AtWork, Short

LEMMA StartsWithNothing ==
    ASSUME Sane, StartSkipPaged
    PROVE  (NoPageForgotten /\ OwnIndices /\ PagesInHand /\ BoundaryIsTheEnd)'
<1>1. /\ nextIdx' = 0 /\ boundary' = Unbounded /\ feed' = feed
      /\ \A w \in FetchWorkers : workers'[w].at = "take"
  BY DEF StartSkipPaged, FreshCounters, Ready, upstream
<1>2. PageSize \in Nat /\ Unbounded \in Nat /\ \A row \in feed : Rank(row) \in Nat
  BY SyncAssumption, SaneFacts
<1>3. 0 * PageSize = 0
  BY <1>2
<1>4. NoPageForgotten'
  BY <1>1, <1>2, <1>3, SameFeedSameRank DEF NoPageForgotten
<1>5. (OwnIndices /\ PagesInHand)'
  BY <1>1 DEF OwnIndices, PagesInHand, AtWork
<1>6. BoundaryIsTheEnd'
  BY <1>1, <1>2 DEF BoundaryIsTheEnd
<1> QED
  BY <1>4, <1>5, <1>6

LEMMA TakeKeepsPages ==
    ASSUME SkipInv, NEW w \in FetchWorkers, TakePage(w)
    PROVE  (NoPageForgotten /\ OwnIndices /\ PagesInHand /\ BoundaryIsTheEnd)'
<1>1. Sane /\ Fetching /\ NoPageForgotten /\ OwnIndices /\ PagesInHand /\ BoundaryIsTheEnd
  BY DEF SkipInv, TakePage
<1>2. /\ feed' = feed /\ raw' = raw /\ boundary' = boundary /\ nextIdx' = nextIdx + 1
      /\ workers[w].at = "take" /\ workers'[w].at = "check" /\ workers'[w].idx = nextIdx
      /\ \A v \in FetchWorkers \ {w} : workers'[v] = workers[v]
  BY <1>1, SaneTake DEF TakePage, vars, upstream
<1>3. /\ FeedIsRanked /\ changes \in Nat /\ nextIdx \in Nat /\ boundary \in Nat
      /\ boundary <= Unbounded /\ Unbounded \in Nat
      /\ \A v \in FetchWorkers : workers[v].idx \in Nat
      /\ \A row \in feed : Rank(row) \in Nat
  BY <1>1, SaneFacts
<1>4. \A v \in FetchWorkers : AtWork(v)' <=> v = w \/ AtWork(v)
  BY <1>2 DEF AtWork
<1>5. NoPageForgotten'
  <2> SUFFICES ASSUME NEW row \in feed, row \notin raw,
                      ~((nextIdx + 1) * PageSize <= Rank(row))
               PROVE  \E v \in FetchWorkers : AtWork(v)' /\ row \in PageAt(workers'[v].idx)
    BY <1>2, SameFeedSameRank DEF NoPageForgotten
  <2>1. CASE nextIdx * PageSize <= Rank(row)
    <3>1. (nextIdx + 1) * PageSize \in Nat /\ nextIdx + 1 \in Nat
      BY <1>3, Offsets
    <3>2. Rank(row) < (nextIdx + 1) * PageSize
      BY <1>3, <3>1
    <3>3. row \in PageAt(nextIdx)
      BY <1>3, <2>1, <3>2, PagesByRank
    <3> QED
      BY <1>2, <1>4, <3>3
  <2>2. CASE ~(nextIdx * PageSize <= Rank(row))
    <3>1. PICK v \in FetchWorkers : AtWork(v) /\ row \in PageAt(workers[v].idx)
      BY <1>1, <2>2 DEF NoPageForgotten
    <3>2. v # w
      BY <1>2, <3>1 DEF AtWork
    <3> QED
      BY <1>2, <1>4, <3>1, <3>2
  <2> QED
    BY <2>1, <2>2
<1>6. boundary < Unbounded => boundary < nextIdx
  BY <1>1 DEF BoundaryIsTheEnd
<1>7. OwnIndices'
  <2>1. \A v \in FetchWorkers : AtWork(v)' => workers'[v].idx < nextIdx + 1
    BY <1>1, <1>2, <1>3, <1>4 DEF OwnIndices
  <2>2. \A v, u \in FetchWorkers :
           AtWork(v)' /\ AtWork(u)' /\ v # u => workers'[v].idx # workers'[u].idx
    <3>1. \A v \in FetchWorkers \ {w} : AtWork(v)' => workers'[v].idx \in Nat /\ workers'[v].idx < nextIdx
      BY <1>1, <1>2, <1>3, <1>4 DEF OwnIndices
    <3>2. \A v, u \in FetchWorkers \ {w} :
             AtWork(v)' /\ AtWork(u)' /\ v # u => workers'[v].idx # workers'[u].idx
      BY <1>1, <1>2, <1>4 DEF OwnIndices
    <3> QED
      BY <1>2, <1>3, <3>1, <3>2
  <2>3. boundary < Unbounded => nextIdx # boundary
    BY <1>3, <1>6
  <2> QED
    BY <1>1, <1>2, <2>1, <2>2, <2>3 DEF OwnIndices
<1>8. PagesInHand'
  BY <1>1, <1>2, SameFeedSameRank DEF PagesInHand, Short
<1>9. BoundaryIsTheEnd'
  BY <1>1, <1>2, <1>3, SameFeedSameRank DEF BoundaryIsTheEnd
<1> QED
  BY <1>5, <1>7, <1>8, <1>9

\* A worker that ends at the boundary leaves a page that is empty.
LEMMA CheckKeepsPages ==
    ASSUME SkipInv, NEW w \in FetchWorkers, CheckBoundary(w)
    PROVE  (NoPageForgotten /\ OwnIndices /\ PagesInHand /\ BoundaryIsTheEnd)'
<1>1. Sane /\ Fetching /\ NoPageForgotten /\ OwnIndices /\ PagesInHand /\ BoundaryIsTheEnd
  BY DEF SkipInv, CheckBoundary
<1>2. /\ feed' = feed /\ raw' = raw /\ boundary' = boundary /\ nextIdx' = nextIdx
      /\ workers[w].at = "check"
      /\ IF workers[w].idx >= boundary THEN workers'[w].at = "done"
         ELSE workers'[w].at = "fetch" /\ workers'[w].idx = workers[w].idx
      /\ \A v \in FetchWorkers \ {w} : workers'[v] = workers[v]
  BY <1>1, SaneCheck DEF CheckBoundary, vars, upstream
<1>3. nextIdx \in Nat /\ boundary \in Nat /\ workers[w].idx \in Nat
  BY <1>1, SaneFacts
<1>4. workers[w].idx >= boundary => PageAt(workers[w].idx) = {}
  BY <1>1, <1>2, <1>3, NothingBeyond DEF OwnIndices
<1>5. \A v \in FetchWorkers : AtWork(v)' => AtWork(v) /\ workers'[v].idx = workers[v].idx
  BY <1>2 DEF AtWork
<1>6. NoPageForgotten'
  <2> SUFFICES ASSUME NEW row \in feed, row \notin raw, ~(nextIdx * PageSize <= Rank(row))
               PROVE  \E v \in FetchWorkers : AtWork(v)' /\ row \in PageAt(workers'[v].idx)
    BY <1>2, SameFeedSameRank DEF NoPageForgotten
  <2>1. PICK v \in FetchWorkers : AtWork(v) /\ row \in PageAt(workers[v].idx)
    BY <1>1 DEF NoPageForgotten
  <2>2. AtWork(v)' /\ workers'[v].idx = workers[v].idx
    BY <1>2, <1>4, <2>1 DEF AtWork
  <2> QED
    BY <2>1, <2>2
<1>7. OwnIndices'
  BY <1>1, <1>2, <1>5 DEF OwnIndices
<1>8. PagesInHand'
  BY <1>1, <1>2, SameFeedSameRank DEF PagesInHand, Short
<1>9. BoundaryIsTheEnd'
  <2>1. workers'[w].at = "done" => boundary <= nextIdx
    BY <1>1, <1>2, <1>3 DEF OwnIndices, AtWork
  <2> QED
    BY <1>1, <1>2, <2>1, SameFeedSameRank DEF BoundaryIsTheEnd
<1> QED
  BY <1>6, <1>7, <1>8, <1>9

LEMMA FetchKeepsPages ==
    ASSUME SkipInv, NEW w \in FetchWorkers, FetchAt(w)
    PROVE  (NoPageForgotten /\ OwnIndices /\ PagesInHand /\ BoundaryIsTheEnd)'
<1> DEFINE idx == workers[w].idx
<1>1. Sane /\ Fetching /\ NoPageForgotten /\ OwnIndices /\ PagesInHand /\ BoundaryIsTheEnd
  BY DEF SkipInv, FetchAt
<1>2. /\ feed' = feed /\ raw' = raw /\ nextIdx' = nextIdx /\ workers[w].at = "fetch"
      /\ boundary' = IF Short(PageAt(idx)) /\ idx < boundary THEN idx ELSE boundary
      /\ workers'[w].at = "save" /\ workers'[w].idx = idx /\ workers'[w].page = PageAt(idx)
      /\ \A v \in FetchWorkers \ {w} : workers'[v] = workers[v]
  BY <1>1, SaneFetchAt DEF FetchAt, vars, upstream
<1>3. /\ FeedIsRanked /\ changes \in Nat /\ nextIdx \in Nat /\ boundary \in Nat
      /\ boundary <= Unbounded /\ Unbounded \in Nat
      /\ \A v \in FetchWorkers : workers[v].idx \in Nat
  BY <1>1, SaneFacts
<1>4. idx \in Nat /\ idx < nextIdx
  BY <1>1, <1>2, <1>3 DEF OwnIndices, AtWork
<1> HIDE DEF idx
<1>5. boundary' \in Nat /\ boundary' <= boundary
  BY <1>2, <1>3, <1>4
<1>6. \A v \in FetchWorkers : (AtWork(v)' <=> AtWork(v)) /\ workers'[v].idx = workers[v].idx
  BY <1>2 DEF AtWork, idx
<1>7. NoPageForgotten'
  BY <1>1, <1>2, <1>6, SameFeedSameRank DEF NoPageForgotten
<1>8. OwnIndices'
  <2>1. ASSUME NEW v \in FetchWorkers, workers'[v].at \in {"check", "fetch"},
               boundary' < Unbounded
        PROVE  workers'[v].idx # boundary'
    <3>1. v # w /\ workers[v].at \in {"check", "fetch"} /\ workers'[v] = workers[v]
      BY <1>2, <2>1
    <3>2. workers[v].idx # idx
      BY <1>1, <1>2, <3>1 DEF OwnIndices, AtWork, idx
    <3>3. boundary < Unbounded => workers[v].idx # boundary
      BY <1>1, <3>1 DEF OwnIndices
    <3> QED
      BY <1>2, <2>1, <3>1, <3>2, <3>3
  <2> QED
    BY <1>1, <1>2, <1>6, <2>1 DEF OwnIndices
<1>9. PagesInHand'
  <2>1. ASSUME NEW v \in FetchWorkers \ {w}, workers'[v].at = "save"
        PROVE  /\ workers'[v].page = PageAt(workers'[v].idx)
               /\ Short(workers'[v].page) => boundary' <= workers'[v].idx
    <3>1. /\ workers'[v] = workers[v] /\ workers[v].idx \in Nat
          /\ workers[v].page = PageAt(workers[v].idx)
          /\ Short(workers[v].page) => boundary <= workers[v].idx
      BY <1>1, <1>2, <1>3, <2>1 DEF PagesInHand
    <3> QED
      BY <1>3, <1>5, <3>1
  <2>2. Short(PageAt(idx)) => boundary' <= idx
    BY <1>2, <1>3, <1>4
  <2> QED
    BY <1>2, <2>1, <2>2, SameFeedSameRank DEF PagesInHand, Short
<1>10. BoundaryIsTheEnd'
  <2>1. ASSUME NEW v \in FetchWorkers, workers'[v].at = "done"
        PROVE  boundary' <= nextIdx
    <3>1. workers[v].at = "done" /\ boundary <= nextIdx
      BY <1>1, <1>2, <2>1 DEF BoundaryIsTheEnd
    <3> QED
      BY <1>3, <1>5, <3>1
  <2>2. ASSUME boundary' < Unbounded
        PROVE  /\ boundary' < nextIdx
               /\ \A row \in feed : Rank(row) < (boundary' + 1) * PageSize
    <3>1. CASE boundary' = boundary
      BY <1>1, <2>2, <3>1 DEF BoundaryIsTheEnd
    <3>2. CASE boundary' # boundary
      <4>1. boundary' = idx /\ Short(PageAt(idx))
        BY <1>2, <3>2
      <4> QED
        BY <1>3, <1>4, <4>1, ShortIsLast
    <3> QED
      BY <3>1, <3>2
  <2> QED
    BY <1>2, <2>1, <2>2, SameFeedSameRank DEF BoundaryIsTheEnd
<1> QED
  BY <1>7, <1>8, <1>9, <1>10

LEMMA SaveKeepsPages ==
    ASSUME SkipInv, NEW w \in FetchWorkers, SaveAt(w)
    PROVE  (NoPageForgotten /\ OwnIndices /\ PagesInHand /\ BoundaryIsTheEnd)'
<1>1. Sane /\ Fetching /\ NoPageForgotten /\ OwnIndices /\ PagesInHand /\ BoundaryIsTheEnd
  BY DEF SkipInv, SaveAt
<1>2. /\ feed' = feed /\ raw' = raw \cup workers[w].page /\ nextIdx' = nextIdx
      /\ boundary' = boundary /\ workers[w].at = "save"
      /\ workers'[w].at = IF Short(workers[w].page) THEN "done" ELSE "take"
      /\ \A v \in FetchWorkers \ {w} : workers'[v] = workers[v]
  BY <1>1, SaneSaveAt DEF SaveAt, upstream
<1>3. /\ nextIdx \in Nat /\ boundary \in Nat /\ workers[w].idx \in Nat
      /\ workers[w].idx < nextIdx
  BY <1>1, <1>2, SaneFacts DEF OwnIndices, AtWork
<1>4. \A v \in FetchWorkers : AtWork(v)' <=> AtWork(v) /\ v # w
  BY <1>2 DEF AtWork
<1>5. NoPageForgotten'
  <2> SUFFICES ASSUME NEW row \in feed, row \notin raw', ~(nextIdx * PageSize <= Rank(row))
               PROVE  \E v \in FetchWorkers : AtWork(v)' /\ row \in PageAt(workers'[v].idx)
    BY <1>2, SameFeedSameRank DEF NoPageForgotten
  <2>1. PICK v \in FetchWorkers : AtWork(v) /\ row \in PageAt(workers[v].idx)
    BY <1>1, <1>2 DEF NoPageForgotten
  <2>2. v # w
    BY <1>1, <1>2, <2>1 DEF PagesInHand
  <2> QED
    BY <1>2, <1>4, <2>1, <2>2
<1>6. OwnIndices'
  BY <1>1, <1>2, <1>4 DEF OwnIndices
<1>7. PagesInHand'
  BY <1>1, <1>2, SameFeedSameRank DEF PagesInHand, Short
<1>8. BoundaryIsTheEnd'
  <2>1. Short(workers[w].page) => boundary <= nextIdx
    BY <1>1, <1>2, <1>3 DEF PagesInHand
  <2> QED
    BY <1>1, <1>2, <2>1, SameFeedSameRank DEF BoundaryIsTheEnd
<1> QED
  BY <1>5, <1>6, <1>7, <1>8

\* What is not the import's doing leaves it fetching, over the same feed when
\* upstream rests.
LEMMA BesidesKeepPages ==
    ASSUME SkipInv, Quiet, Besides, UNCHANGED skipVars
    PROVE  /\ Fetching' = Fetching
           /\ Fetching => (NoPageForgotten /\ OwnIndices /\ PagesInHand /\ BoundaryIsTheEnd)'
<1>1. runs \in [Runners -> Run] /\ Importer \in Runners /\ Importer \notin Daemons
  BY SyncAssumption, SkipAssumption, ImporterRuns DEF SkipInv, Sane, TypeOK
<1>2. UNCHANGED <<nextIdx, boundary, workers>>
  BY DEF skipVars
<1>3. ASSUME NEW r \in Runners \ {Importer}, NEW run, SetRun(r, run),
             feed' = feed, raw \subseteq raw'
      PROVE  /\ Fetching' = Fetching
             /\ Fetching => (NoPageForgotten /\ OwnIndices /\ PagesInHand /\ BoundaryIsTheEnd)'
  <2>1. runs'[Importer] = runs[Importer]
    BY <1>1, <1>3 DEF SetRun
  <2> QED
    BY <1>2, <1>3, <2>1, OthersKeepPages DEF Fetching
<1>4. CASE (Quiet => ~Fetching) /\ Upstream
  BY <1>4 DEF Upstream, Tick, Modify, Fetching
<1>5. CASE Finish(Importer)
  <2>1. runs[Importer].at = "finish" /\ runs'[Importer].at = "idle"
    BY <1>1, <1>5 DEF Finish, SetRun, Idle
  <2> QED
    BY <2>1 DEF Fetching
<1>6. ASSUME NEW r \in Daemons, RunDelta(r)
      PROVE  \E run : SetRun(r, run) /\ feed' = feed /\ raw \subseteq raw'
  BY <1>6 DEF RunDelta, StartDelta, Page, FetchPage, SavePage, Finish, upstream
<1>7. ASSUME NEW r \in Runners \ {Importer}, Fail(r)
      PROVE  SetRun(r, Idle) /\ feed' = feed /\ raw \subseteq raw'
  BY <1>7 DEF Fail, upstream
<1>8. ASSUME NEW r \in Daemons, RunDelta(r)
      PROVE  /\ Fetching' = Fetching
             /\ Fetching => (NoPageForgotten /\ OwnIndices /\ PagesInHand /\ BoundaryIsTheEnd)'
  <2>1. PICK run : SetRun(r, run) /\ feed' = feed /\ raw \subseteq raw'
    BY <1>6, <1>8
  <2>2. r \in Runners \ {Importer}
    BY <1>1 DEF Runners
  <2> QED
    BY <1>3, <2>1, <2>2
<1>9. ASSUME NEW r \in Runners \ {Importer}, Fail(r)
      PROVE  /\ Fetching' = Fetching
             /\ Fetching => (NoPageForgotten /\ OwnIndices /\ PagesInHand /\ BoundaryIsTheEnd)'
  BY <1>3, <1>7, <1>9
<1> QED
  BY <1>4, <1>5, <1>8, <1>9 DEF Besides

\* The feed stays shorter than the pages that can be counted.
LEMMA FeedStaysShort ==
    ASSUME Sane, MaxChanges < Unbounded, changes < Unbounded, [SkipNext]_allVars
    PROVE  changes' < Unbounded
<1>1. changes \in Nat /\ MaxChanges \in Nat /\ Unbounded \in Nat
  BY SyncAssumption, UnboundedIsNat DEF Sane, TypeOK
<1>2. changes' = changes \/ (changes' = changes + 1 /\ changes < MaxChanges)
  <2>1. CASE UNCHANGED upstream
    BY <2>1 DEF upstream
  <2>2. CASE Upstream
    BY <2>2 DEF Upstream, Tick, Modify
  <2>3. ASSUME NEW w \in FetchWorkers
        PROVE  TakePage(w) \/ CheckBoundary(w) \/ FetchAt(w) \/ SaveAt(w) => UNCHANGED upstream
    BY DEF TakePage, CheckBoundary, FetchAt, SaveAt, vars
  <2>4. ASSUME NEW r
        PROVE  Finish(r) \/ RunDelta(r) \/ Fail(r) => UNCHANGED upstream
    BY DEF RunDelta, StartDelta, Page, FetchPage, SavePage, Finish, Fail
  <2>5. StartSkipPaged \/ Join \/ FailImport => UNCHANGED upstream
    BY <2>4 DEF StartSkipPaged, Join, FailImport
  <2>6. UNCHANGED allVars => UNCHANGED upstream
    BY DEF allVars, vars
  <2> QED
    BY <2>1, <2>2, <2>3, <2>4, <2>5, <2>6 DEF SkipNext, SkipPaged, Besides
<1> QED
  BY <1>1, <1>2

LEMMA SkipInvStep ==
    ASSUME Quiet, MaxChanges < Unbounded, SkipInv, [SkipNext]_allVars
    PROVE  SkipInv'
<1>1. Sane' /\ changes' < Unbounded
  BY SaneStep, FeedStaysShort DEF SkipInv
<1> SUFFICES Fetching' => (NoPageForgotten /\ OwnIndices /\ PagesInHand /\ BoundaryIsTheEnd)'
  BY <1>1 DEF SkipInv
<1>2. runs \in [Runners -> Run] /\ Importer \in Runners
  BY ImporterRuns DEF SkipInv, Sane, TypeOK
<1>3. CASE Besides /\ UNCHANGED skipVars
  BY <1>3, BesidesKeepPages
<1>4. CASE StartSkipPaged
  BY <1>4, StartsWithNothing DEF SkipInv
<1>5. ASSUME NEW w \in FetchWorkers, TakePage(w) \/ CheckBoundary(w) \/ FetchAt(w) \/ SaveAt(w)
      PROVE  (NoPageForgotten /\ OwnIndices /\ PagesInHand /\ BoundaryIsTheEnd)'
  BY <1>5, TakeKeepsPages, CheckKeepsPages, FetchKeepsPages, SaveKeepsPages
<1>6. CASE Join \/ FailImport
  <2>1. runs'[Importer].at # "skip"
    BY <1>2, <1>6 DEF Join, FailImport, Fail, SetRun, Idle, Run
  <2> QED
    BY <2>1 DEF Fetching
<1>7. CASE UNCHANGED allVars
  <2>1. /\ UNCHANGED <<feed, nextIdx, boundary, workers>> /\ raw \subseteq raw'
        /\ Fetching' = Fetching
    BY <1>7 DEF allVars, vars, upstream, skipVars, Fetching
  <2> QED
    BY <2>1, OthersKeepPages
<1> QED
  BY <1>3, <1>4, <1>5, <1>6, <1>7 DEF SkipNext, SkipPaged

LEMMA SkipInvInit ==
    ASSUME NumKeys < Unbounded, SkipInit
    PROVE  SkipInv
<1>1. changes < Unbounded
  BY SyncAssumption, UnboundedIsNat DEF SkipInit, Init
<1>2. ~Fetching
  BY ImporterRuns DEF SkipInit, Init, Idle, Fetching
<1> QED
  BY <1>1, <1>2, SaneInit DEF SkipInv

(***************************************************************************)
(* The values that the workers of a skip-paged import, its counters and    *)
(* the daemons' runs besides take (paginateConcurrentInit).                *)
(***************************************************************************)
THEOREM SkipTypeCorrect == SkipSpec => []SkipTypeOK
<1>1. SkipInit => Sane
  BY SaneInit
<1>2. Sane /\ [SkipNext]_allVars => Sane'
  BY SaneStep
<1>3. Sane => SkipTypeOK
  BY SaneTypes
<1> QED
  BY <1>1, <1>2, <1>3, PTL DEF SkipSpec

(***************************************************************************)
(* A skip-paged import of a feed at rest brings the whole of it: for any   *)
(* number of workers, in any order of their steps, with any page size, and *)
(* with daemons and failures besides (paginateConcurrentInit).  The feed   *)
(* is shorter than what stands for math.MaxInt64.                          *)
(***************************************************************************)
THEOREM ImportBringsAll ==
    ASSUME Quiet, NumKeys < Unbounded, MaxChanges < Unbounded
    PROVE  SkipSpec => []ImportIsWhole
<1>1. SkipInit => SkipInv
  BY SkipInvInit
<1>2. SkipInv /\ [SkipNext]_allVars => SkipInv'
  BY SkipInvStep
<1>3. SkipInv => ImportIsWhole
  BY DoneIsWhole
<1> QED
  BY <1>1, <1>2, <1>3, PTL DEF SkipSpec

----------------------------------------------------------------------------
(* The cursor, with an import that fetches by offset *)

\* A worker's page, saved.
LEMMA WorkerSaves ==
    ASSUME SkipInv, IInv, NEW w \in FetchWorkers, SaveAt(w), Sane'
    PROVE  IInv'
<1>1. /\ runs \in [Runners -> Run] /\ runs[Importer] \in Run /\ Importer \in Runners
      /\ runs[Importer].at = "skip"
  BY ImporterRuns DEF IInv, TypeOK, SaveAt, Fetching
<1>2. Active(Importer) /\ RunMakesSense(Importer)
  BY <1>1 DEF IInv, RunsMakeSense, Active
<1>3. PICK hwm : runs' = [runs EXCEPT ![Importer] = [runs[Importer] EXCEPT !.hwm = hwm]]
  BY DEF SaveAt, SetRun
<1>4. runs'[Importer] = [runs[Importer] EXCEPT !.hwm = hwm]
      /\ \A r \in Runners \ {Importer} : runs'[r] = runs[r]
  BY <1>1, <1>3
<1>5. /\ runs'[Importer].at = "skip" /\ runs'[Importer].since = runs[Importer].since
      /\ runs'[Importer].fallback = runs[Importer].fallback
  BY <1>1, <1>4 DEF Run
<1>6. /\ clock' = clock /\ changes' = changes /\ feed' = feed
      /\ events' = events /\ raw \subseteq raw'
  BY DEF SaveAt, upstream
<1>7. TypeOK' /\ runs'[Importer].hwm <= clock'
  BY <1>1 DEF Sane, RunIsOfThePast
<1>8. RunMakesSense(Importer)'
  BY <1>2, <1>5, <1>6, <1>7 DEF RunMakesSense, AsksFrom
<1>9. FeedInOrder' /\ Grows
  BY <1>6 DEF IInv, TypeOK, FeedInOrder, Grows
<1>10. \A r \in Importers : Active(r) => clock' <= runs[r].fallback + Month
  BY <1>6 DEF IInv, RunsMakeSense, RunMakesSense, AsksFrom, Runners
<1> QED
  BY <1>2, <1>4, <1>5, <1>6, <1>7, <1>8, <1>9, <1>10, OneRunSteps

\* The workers are done, and what was behind the marks is saved with all the rest.
LEMMA WorkersJoin ==
    ASSUME SkipInv, IInv, Join, Sane'
    PROVE  IInv'
<1>1. /\ runs \in [Runners -> Run] /\ runs[Importer] \in Run /\ Importer \in Runners
      /\ runs[Importer].at = "skip"
  BY ImporterRuns DEF IInv, TypeOK, Join, Fetching
<1>2. Active(Importer) /\ RunMakesSense(Importer)
  BY <1>1 DEF IInv, RunsMakeSense, Active
<1>3. runs' = [runs EXCEPT ![Importer] = [runs[Importer] EXCEPT !.at = "finish"]]
  BY DEF Join, SetRun
<1>4. runs'[Importer] = [runs[Importer] EXCEPT !.at = "finish"]
      /\ \A r \in Runners \ {Importer} : runs'[r] = runs[r]
  BY <1>1, <1>3
<1>5. /\ runs'[Importer].at = "finish" /\ runs'[Importer].since = runs[Importer].since
      /\ runs'[Importer].fallback = runs[Importer].fallback
      /\ runs'[Importer].hwm = runs[Importer].hwm
  BY <1>1, <1>4 DEF Run
<1>6. /\ clock' = clock /\ changes' = changes /\ feed' = feed
      /\ events' = events /\ raw' = raw
  BY DEF Join, upstream
<1>7. feed \subseteq raw
  BY DoneIsWhole DEF Join, ImportIsWhole
<1>8. RunMakesSense(Importer)'
  BY <1>2, <1>5, <1>6, <1>7 DEF RunMakesSense, AsksFrom, LeavesNothing
<1>9. TypeOK' /\ FeedInOrder' /\ Grows
  BY <1>6 DEF Sane, IInv, TypeOK, FeedInOrder, Grows
<1>10. \A r \in Importers : Active(r) => clock' <= runs[r].fallback + Month
  BY <1>6 DEF IInv, RunsMakeSense, RunMakesSense, AsksFrom, Runners
<1> QED
  BY <1>2, <1>4, <1>5, <1>6, <1>8, <1>9, <1>10, OneRunSteps

LEMMA SkipKeepsCursor ==
    ASSUME SkipInv, IInv, [SkipNext]_allVars
    PROVE  IInv'
<1>1. Sane'
  BY SaneStep DEF SkipInv
<1>2. CASE UNCHANGED vars
  BY <1>2, StutterKeeps
<1>3. CASE StartSkipPaged
  BY <1>3, SkipAssumption, ImportStarts DEF StartSkipPaged
<1>4. ASSUME NEW w \in FetchWorkers,
             TakePage(w) \/ CheckBoundary(w) \/ FetchAt(w) \/ SaveAt(w)
      PROVE  IInv'
  BY <1>1, <1>2, <1>4, WorkerSaves DEF TakePage, CheckBoundary, FetchAt
<1>5. CASE Join
  BY <1>1, <1>5, WorkersJoin
<1>6. CASE FailImport
  BY <1>6, ImporterRuns, FailKeeps DEF FailImport
<1>7. CASE Besides
  <2>1. CASE Upstream
    BY <2>1, TickKeeps, ModifyKeeps DEF Upstream
  <2>2. CASE Finish(Importer)
    BY <2>2, ImporterRuns, FinishKeeps
  <2>3. ASSUME NEW r \in Daemons, RunDelta(r)
        PROVE  IInv'
    BY <2>3, StartDeltaKeeps, FetchKeeps, SaveKeeps, FinishKeeps DEF RunDelta, Page, Runners
  <2>4. ASSUME NEW r \in Runners \ {Importer}, Fail(r)
        PROVE  IInv'
    BY <2>4, FailKeeps
  <2> QED
    BY <1>7, <2>1, <2>2, <2>3, <2>4 DEF Besides
<1> QED
  BY <1>2, <1>3, <1>4, <1>5, <1>6, <1>7 DEF SkipNext, SkipPaged, allVars

(***************************************************************************)
(* An import that fetched a feed at rest by offset leaves the deltas after *)
(* it nothing to miss, although its rows were saved in no order and its    *)
(* mark is their greatest: the daemons' cursor is as good as after an      *)
(* import page by page, also while upstream changes between the end of     *)
(* the workers and the stamp.                                              *)
(***************************************************************************)
THEOREM SkipPagedLosesNothing ==
    ASSUME Quiet, NumKeys < Unbounded, MaxChanges < Unbounded
    PROVE  SkipSpec => []NoChangeLost
<1>1. SkipInit => SkipInv /\ IInv
  BY SkipInvInit, InitEstablishes DEF SkipInit
<1>2. SkipInv /\ IInv /\ [SkipNext]_allVars => (SkipInv /\ IInv)'
  BY SkipInvStep, SkipKeepsCursor
<1>3. IInv => NoChangeLost
  BY NothingBehindCursor
<1> QED
  BY <1>1, <1>2, <1>3, PTL DEF SkipSpec

============================================================================
