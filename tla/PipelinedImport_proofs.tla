----------------------- MODULE PipelinedImport_proofs -----------------------
(***************************************************************************)
(* The pipelined import next to its daemons: types, the budget of a page's *)
(* requests, that a successful import is whole, that the links do what     *)
(* ParkedLinks promises, that an import which no other Property pass       *)
(* disturbs leaves no room without its listing, and that every wait is for *)
(* somebody who runs.                                                      *)
(***************************************************************************)
EXTENDS PipelinedImport, ChildLinks_proofs

USE DEF saveVars, rowVars

ImportTypes ==
    /\ imp \in Import
    /\ fetched \in [Daemons -> Nat]
    /\ failures \in 0 .. MaxFailures[up]
    /\ up \in Deployments

\* Where the producer is in the feed, and when it closes the channel.
PagesInRange ==
    /\ 1 <= imp.pageNo /\ imp.pageNo <= LastPage + 1
    /\ imp.producer \in {"fetching", "saving", "signalling"} => imp.pageNo <= LastPage
    /\ imp.closed => imp.producer \in {"returning", "returned"}

\* Between two attempts there is room for one streak.
WithinBudget(b) ==
    /\ b.requests <= b.attempts * (MaxConsecutive429 + 1) + b.streak
    /\ b.attempts <= MaxRetries
    /\ b.streak <= MaxConsecutive429 + 1

BudgetLeft(b) == b.attempts < MaxRetries /\ b.streak <= MaxConsecutive429

FetchInBudget ==
    /\ WithinBudget(imp.fetch)
    /\ imp.producer = "fetching" => BudgetLeft(imp.fetch)
    /\ FetchIsBounded

PageSaved(n) ==
    \A m \in DOMAIN Feed[n] : Saved(Feed[n][m])

\* What the producer has passed is saved.
PagesSaved ==
    imp.at = "importing" =>
        \A n \in 1 .. LastPage :
            \/ n < imp.pageNo
            \/ n = imp.pageNo /\ imp.producer = "signalling"
            => PageSaved(n)

\* A producer that ends without an error has passed every page.
ProducerDone ==
    imp.at = "importing" =>
        /\ imp.producer \in {"closing", "returning", "returned"} /\ ~imp.broken =>
              imp.pageNo = LastPage + 1
        /\ imp.producer = "returned" /\ imp.broken => imp.cancelled

\* Some pass has come past the row.
Passed(row) ==
    \E i \in committed : /\ raw[i].key = row.key /\ raw[i].sma = row.sma
                          /\ i <= cursor[ResourceAt(i)]

RowsPassed(r) ==
    \A n \in 1 .. LastPage : \A m \in DOMAIN Feed[n] :
        ResourceOf[Feed[n][m].key] = r => Passed(Feed[n][m])

AllPassed ==
    \A n \in 1 .. LastPage : \A m \in DOMAIN Feed[n] :
        Passed(Feed[n][m])

\* How far the last chain is: what it has behind it is projected.
LastChain(s) ==
    s.at # "failed" =>
        /\ s.chain \in {PropertyChain, ChildResources, << >>}
        /\ s.at = "done" => s.chain = << >>
        /\ s.at = "relinking" => s.chain = PropertyChain
        /\ s.at = "relinking" \/ s.chain # PropertyChain => RowsPassed(Property)
        /\ s.chain = << >> => RowsPassed("property_rooms")

SuccessPassed == imp.at \in {"enqueueing", "succeeded"} => AllPassed

ConsumerDone ==
    imp.at = "importing" /\ ~imp.broken =>
        /\ imp.consumer = "finishing" => imp.closed /\ LastChain(run[Importer])
        /\ imp.consumer = "returned" /\ ~imp.cancelled => AllPassed

\* The importer runs a chain only for a consumer that waits for it.
ChainInHand ==
    /\ run[Importer].at # "off" => imp.consumer \in {"draining", "finishing"}
    /\ imp.at # "importing" => imp.consumer = "returned"

PInv == /\ CInv
        /\ ImportTypes
        /\ PagesInRange
        /\ FetchInBudget
        /\ PagesSaved
        /\ ProducerDone
        /\ ConsumerDone
        /\ ChainInHand
        /\ SuccessPassed

----------------------------------------------------------------------------
(* The feed and the chain *)

LEMMA FeedFacts ==
    /\ Importer \in Processes
    /\ LastPage \in Nat \ {0}
    /\ \A n \in 1 .. LastPage : Feed[n] \in Pages
    /\ Pages \subseteq Seq(Row)
<1>1. Feed \in Seq(Pages) /\ Feed # << >>
  BY ImportAssumption
<1>2. Len(Feed) \in Nat \ {0} /\ DOMAIN Feed = 1 .. Len(Feed)
  BY <1>1
<1>3. \A n \in 1 .. Len(Feed) : Feed[n] \in Pages
  BY <1>1
<1> QED
  BY <1>2, <1>3, ImportAssumption, LinkAssumption DEF LastPage

LEMMA FeedRow ==
    ASSUME NEW n \in 1 .. LastPage, NEW m \in DOMAIN Feed[n]
    PROVE  /\ Feed[n][m] \in Row
           /\ Feed[n][m].key \in Keys
           /\ ResourceOf[Feed[n][m].key] \in {Property, "property_rooms"}
<1>1. Feed[n] \in Seq(Row)
  BY FeedFacts
<1>2. Feed[n][m] \in Row
  BY <1>1
<1>3. Feed[n][m].key \in Keys
  BY <1>2 DEF Row
<1>4. n \in DOMAIN Feed
  BY ImportAssumption DEF LastPage
<1>5. ResourceOf[Feed[n][m].key] # OpenHouse
  BY <1>4, ImportAssumption
<1> QED
  BY <1>2, <1>3, <1>5, ConstantFacts DEF Resources

LEMMA PropertyChainFacts ==
    /\ PropertyChain \in Chains
    /\ Head(PropertyChain) = Property
    /\ Tail(PropertyChain) = ChildResources
    /\ Head(ChildResources) = "property_rooms"
    /\ Tail(ChildResources) = << >>
    /\ PropertyChain # ChildResources
    /\ PropertyChain # << >> /\ ChildResources # << >>
<1>1. PropertyChain = << Property, "property_rooms" >>
  BY ChainIsSequence DEF PropertyChain
<1>2. ASSUME NEW S, NEW a \in S, NEW b \in S
      PROVE  /\ Head(<< a, b >>) = a
             /\ Tail(<< a, b >>) = << b >>
             /\ Head(<< b >>) = b
             /\ Tail(<< b >>) = << >>
             /\ << a, b >> # << b >>
             /\ << a, b >> # << >> /\ << b >> # << >>
  OBVIOUS
<1>3. Property \in Resources /\ "property_rooms" \in Resources
  BY DEF Resources
<1>4. PropertyChain \in Chains
  BY DEF Chains, PropertyChain
<1>5. ChildResources = << "property_rooms" >>
  BY DEF ChildResources
<1> HIDE DEF Property
<1>6. LET chain == << Property, "property_rooms" >>
      IN  /\ Head(chain) = Property
          /\ Tail(chain) = << "property_rooms" >>
          /\ Head(<< "property_rooms" >>) = "property_rooms"
          /\ Tail(<< "property_rooms" >>) = << >>
          /\ chain # << "property_rooms" >>
          /\ chain # << >> /\ << "property_rooms" >> # << >>
  BY <1>2, <1>3, Zenon
<1> QED
  BY <1>1, <1>4, <1>5, <1>6, Zenon

\* What is saved stays saved, and what is projected stays projected.
LEMMA ProgressKeeps ==
    ASSUME CInv, CInv', Progress
    PROVE  /\ \A n : PageSaved(n) => PageSaved(n)'
           /\ AllPassed => AllPassed'
           /\ \A r : RowsPassed(r) => RowsPassed(r)'
<1>1. \A row : Saved(row) => Saved(row)'
  BY DEF Saved, Progress, RawGrows
<1>2. ASSUME NEW row, Passed(row)
      PROVE  Passed(row)'
  <2>1. PICK i \in committed :
           /\ raw[i].key = row.key /\ raw[i].sma = row.sma
           /\ i <= cursor[ResourceAt(i)]
    BY <1>2 DEF Passed
  <2>2. /\ i \in committed' /\ raw'[i] = raw[i] /\ ResourceAt(i)' = ResourceAt(i)
    BY ResourceStays DEF Progress, RawGrows
  <2>3. i \in Nat /\ ResourceAt(i) \in Resources
    BY CommittedRows DEF CInv
  <2>4. /\ cursor[ResourceAt(i)] <= cursor'[ResourceAt(i)]
        /\ cursor[ResourceAt(i)] \in Nat
        /\ cursor'[ResourceAt(i)] \in Nat
    BY <2>3 DEF Progress, CursorsGrow, CInv, ChildTypeOK
  <2>5. i <= cursor'[ResourceAt(i)]
    BY <2>1, <2>3, <2>4
  <2> QED
    BY <2>1, <2>2, <2>5 DEF Passed
<1>3. \A n \in 1 .. LastPage : \A m \in DOMAIN Feed[n] :
         Passed(Feed[n][m]) => Passed(Feed[n][m])'
  BY <1>2, FeedRow
<1>4. \A n : PageSaved(n) => PageSaved(n)'
  BY <1>1 DEF PageSaved
<1>5. AllPassed => AllPassed'
  BY <1>3 DEF AllPassed
<1>6. \A r : RowsPassed(r) => RowsPassed(r)'
  BY <1>3 DEF RowsPassed
<1> QED
  BY <1>4, <1>5, <1>6

\* A resource whose feed is saved and that has nothing unread is projected.
LEMMA NothingUnread ==
    ASSUME CInv, \A n \in 1 .. LastPage : PageSaved(n),
           NEW r \in Resources, Unread(r) = {}
    PROVE  RowsPassed(r)
<1> SUFFICES ASSUME NEW n \in 1 .. LastPage, NEW m \in DOMAIN Feed[n],
                    ResourceOf[Feed[n][m].key] = r
             PROVE  Passed(Feed[n][m])
  BY DEF RowsPassed
<1> DEFINE row == Feed[n][m]
<1>1. PICK i \in committed : raw[i].key = row.key /\ raw[i].sma = row.sma
  BY DEF PageSaved, Saved
<1>2. i \in Nat /\ cursor[r] \in Nat
  BY CommittedRows DEF CInv, ChildTypeOK
<1>3. ResourceAt(i) = r
  BY <1>1 DEF ResourceAt
<1>4. i <= cursor[r]
  BY <1>2, <1>3 DEF Unread
<1> QED
  BY <1>1, <1>3, <1>4 DEF Passed

LEMMA BothPassed ==
    RowsPassed(Property) /\ RowsPassed("property_rooms") <=> AllPassed
  BY FeedRow DEF RowsPassed, AllPassed

----------------------------------------------------------------------------
(* The budget of a page's requests *)

LEMMA BudgetConstants ==
    /\ MaxRetries \in Nat /\ MaxRetries >= 1
    /\ MaxConsecutive429 \in Nat
  BY FetchAssumption

LEMMA NewFetchBudget ==
    /\ NewFetch \in Budget
    /\ WithinBudget(NewFetch) /\ BudgetLeft(NewFetch)
    /\ NewFetch.requests <= MostRequests
<1>1. NewFetch.attempts = 0 /\ NewFetch.streak = 0 /\ NewFetch.requests = 0
  BY DEF NewFetch
<1>2. MaxRetries * (MaxConsecutive429 + 1) \in Nat
  BY BudgetConstants
<1>3. NewFetch \in Budget
  BY DEF NewFetch, Budget
<1>4. 0 * (MaxConsecutive429 + 1) = 0
  BY BudgetConstants
<1> QED
  BY <1>1, <1>2, <1>3, <1>4, BudgetConstants
     DEF WithinBudget, BudgetLeft, MostRequests

\* Products the budgets need, once for numbers of any name.
LEMMA ProductFacts ==
    ASSUME NEW a \in Nat, NEW b \in Nat, NEW c \in Nat, a <= b
    PROVE  /\ a * c \in Nat /\ b * c \in Nat
           /\ (a + 1) * c = a * c + c
           /\ a * c <= b * c
<1>1. a * c \in Nat /\ b * c \in Nat /\ (a + 1) * c = a * c + c
  OBVIOUS
<1>2. b * c = a * c + (b - a) * c /\ (b - a) \in Nat
  OBVIOUS
<1>3. (b - a) * c \in Nat
  BY <1>2
<1> QED
  BY <1>1, <1>2, <1>3

\* A failure that does not end the fetch leaves room for another request; one that
\* does has not used more than there was.
LEMMA FailureInBudget ==
    ASSUME NEW b \in Budget, WithinBudget(b), BudgetLeft(b),
           NEW answer \in Failures
    PROVE  LET c == AfterFailure(b, answer)
           IN  /\ c \in Budget
               /\ WithinBudget(c)
               /\ c.requests <= MostRequests
               /\ ~GivesUp(b, answer) => BudgetLeft(c)
<1> DEFINE c == AfterFailure(b, answer)
           M == MaxConsecutive429 + 1
<1>1. /\ b.attempts \in Nat /\ b.streak \in Nat /\ b.requests \in Nat
      /\ M \in Nat /\ M >= 1
  BY BudgetConstants DEF Budget
<1>2. /\ b.requests <= b.attempts * M + b.streak
      /\ b.attempts + 1 <= MaxRetries /\ b.streak + 1 <= M
  BY <1>1, BudgetConstants DEF WithinBudget, BudgetLeft
<1>3. /\ b.attempts * M \in Nat /\ MaxRetries * M \in Nat
      /\ (b.attempts + 1) * M = b.attempts * M + M
      /\ (b.attempts + 1) * M <= MaxRetries * M
  <2>1. b.attempts + 1 \in Nat
    BY <1>1
  <2>2. /\ (b.attempts + 1) * M <= MaxRetries * M /\ MaxRetries * M \in Nat
    BY <1>1, <1>2, <2>1, BudgetConstants, ProductFacts
  <2>3. b.attempts * M \in Nat /\ (b.attempts + 1) * M = b.attempts * M + M
    BY <1>1, ProductFacts
  <2> QED
    BY <2>2, <2>3
<1>4. /\ c.requests = b.requests + 1
      /\ c.attempts = IF answer = "throttled" THEN b.attempts ELSE b.attempts + 1
      /\ answer = "throttled" => c.streak = b.streak + 1
      /\ answer = "refused" => c.streak = 0
      /\ answer = "broken" => c.streak = b.streak
      /\ c \in Budget
  BY <1>1 DEF AfterFailure, Failures, Budget
<1>5. GivesUp(b, answer) <=>
         IF answer = "throttled" THEN c.streak > MaxConsecutive429
                                 ELSE c.attempts >= MaxRetries
  BY DEF GivesUp
<1> HIDE DEF c, M
<1>6. c.requests <= MaxRetries * M /\ c.requests <= c.attempts * M + c.streak
  <2>1. CASE answer = "throttled"
    BY <1>1, <1>2, <1>3, <1>4, <2>1
  <2>2. CASE answer # "throttled"
    <3>1. c.attempts * M = b.attempts * M + M
      BY <1>3, <1>4, <2>2
    <3>2. c.streak \in Nat
      BY <1>4 DEF Budget
    <3> QED
      BY <1>1, <1>2, <1>3, <1>4, <3>1, <3>2
  <2> QED
    BY <2>1, <2>2
<1>7. c.attempts <= MaxRetries /\ c.streak <= M
  BY <1>1, <1>2, <1>4, BudgetConstants DEF Failures
<1>8. ~GivesUp(b, answer) => BudgetLeft(c)
  BY <1>1, <1>2, <1>4, <1>5, BudgetConstants DEF Failures, BudgetLeft, M
<1> QED
  BY <1>4, <1>6, <1>7, <1>8 DEF WithinBudget, MostRequests, c, M

----------------------------------------------------------------------------
(* What the steps are to the chains *)

\* What a delta finds is a page.
LEMMA DeltaPage ==
    ASSUME ImportTypes, NEW d \in Daemons, DaemonMints(d)
    PROVE  Deltas[up][d][fetched[d] + 1] \in Pages
<1>1. fetched[d] \in Nat /\ up \in Deployments
  BY DEF ImportTypes
<1>2. Deltas[up][d] \in Seq(Pages \ {<< >>})
  BY <1>1, ImportAssumption
<1>3. fetched[d] + 1 \in DOMAIN Deltas[up][d]
  BY <1>1, <1>2 DEF DaemonMints
<1> QED
  BY <1>2, <1>3

LEMMA StepIsChildNext ==
    ASSUME PInv, [Next]_vars
    PROVE  [ChildNext]_childVars
<1>1. CASE UNCHANGED vars
  BY <1>1 DEF vars
<1>2. ASSUME NEW p \in Processes,
             RunChain(p) \/ FailChain(p) \/ Die(p) \/ EndChain(p)
      PROVE  ChildNext
  BY <1>2, Zenon DEF ChildNext
<1>3. ASSUME NEW p \in Processes,
             \/ \E page \in Pages : MintIds(p, page)
             \/ SavePage(p)
             \/ DropPage(p) /\ UNCHANGED chainVars
      PROVE  ChildNext
  BY <1>3, Zenon DEF ChildNext
<1>4. ASSUME NEW p \in Processes, NEW chain \in Chains, NEW final \in BOOLEAN,
             StartChain(p, chain, final)
      PROVE  ChildNext
  BY <1>4, Zenon DEF ChildNext
<1>5. CASE MintFetched \/ SaveFetched \/ SaveBreaks
  <2>1. CASE MintFetched
    <3>1. imp.pageNo \in 1 .. LastPage
      BY <2>1, FeedFacts DEF PInv, PagesInRange, ImportTypes, Import, MintFetched, Is
    <3> QED
      BY <1>3, <2>1, <3>1, FeedFacts DEF MintFetched
  <2> QED
    BY <1>3, <1>5, <2>1, FeedFacts DEF SaveFetched, SaveBreaks
<1>6. CASE Wake \/ LastDrain
  <2>1. PropertyChain \in Chains
    BY PropertyChainFacts
  <2> QED
    BY <1>4, <1>6, <2>1, FeedFacts DEF Wake, LastDrain
<1>7. CASE Drain \/ ChainReturns \/ ImportDies
  BY <1>2, <1>7, FeedFacts DEF Drain, ChainReturns, ImportDies
<1>8. CASE PassFails
  BY <1>2, <1>8 DEF PassFails
<1>9. ASSUME NEW d \in Daemons, DaemonMints(d) \/ DaemonSaves(d) \/ SaveFails(d)
      PROVE  ChildNext
  <2>1. d \in Processes
    BY DEF Daemons
  <2>2. CASE DaemonMints(d)
    <3>1. Deltas[up][d][fetched[d] + 1] \in Pages
      BY <2>2, DeltaPage DEF PInv
    <3> QED
      BY <1>3, <2>1, <2>2, <3>1 DEF DaemonMints
  <2> QED
    BY <1>3, <1>9, <2>1, <2>2 DEF DaemonSaves, SaveFails
<1>10. ASSUME NEW d \in Daemons, Tick(d, ChainOf[d])
       PROVE  ChildNext
  <2>1. ChainOf[d] \in Chains /\ d \in Processes
    BY ImportAssumption DEF Daemons
  <2> QED
    BY <1>4, <1>10, <2>1 DEF Tick
<1>11. ASSUME NEW d \in Daemons, RunDaemon(d)
       PROVE  ChildNext
  BY <1>2, <1>11 DEF RunDaemon, Daemons
<1>12. CASE StartImport \/ PageArrives \/ RequestFails \/ FetchBreaks
            \/ Signal \/ CloseSignal \/ ProducerReturns \/ Join \/ Enqueue
  BY <1>12 DEF StartImport, PageArrives, RequestFails, FetchBreaks, Signal,
               CloseSignal, ProducerReturns, Join, Enqueue
<1> QED
  BY <1>1, <1>5, <1>6, <1>7, <1>8, <1>9, <1>10, <1>11, <1>12
     DEF Next, Step, Produce, Consume, Daemon

LEMMA StepIsChildStep ==
    ASSUME PInv, [Next]_vars
    PROVE  CInv' /\ Progress
  BY StepIsChildNext, ChildNextStep DEF PInv

----------------------------------------------------------------------------
(* What a step that leaves one goroutine alone needs *)

LEMMA ProducerKept ==
    ASSUME PInv, CInv', Progress,
           imp'.at = imp.at, imp'.producer = imp.producer,
           imp'.pageNo = imp.pageNo, imp'.fetch = imp.fetch,
           imp'.closed = imp.closed, imp'.broken = imp.broken,
           imp.cancelled => imp'.cancelled
    PROVE  /\ PagesInRange' /\ FetchInBudget'
           /\ PagesSaved' /\ ProducerDone'
<1>1. PagesInRange' /\ FetchInBudget'
  BY DEF PInv, PagesInRange, FetchInBudget, FetchIsBounded
<1>2. PagesSaved'
  BY ProgressKeeps DEF PInv, PagesSaved
<1>3. ProducerDone'
  BY DEF PInv, ProducerDone
<1> QED
  BY <1>1, <1>2, <1>3

LEMMA SuccessKept ==
    ASSUME PInv, CInv', Progress,
           imp'.at \in {"enqueueing", "succeeded"} =>
               imp.at \in {"enqueueing", "succeeded"}
    PROVE  SuccessPassed'
<1>1. SuccessPassed <=> (imp.at \in {"enqueueing", "succeeded"} => AllPassed)
  BY DEF SuccessPassed, AllPassed
<1>2. SuccessPassed' <=>
         (imp'.at \in {"enqueueing", "succeeded"} => AllPassed')
  BY DEF SuccessPassed, AllPassed
<1>3. AllPassed => AllPassed'
  BY ProgressKeeps DEF PInv
<1> QED
  BY <1>1, <1>2, <1>3 DEF PInv

LEMMA LastChainKept ==
    ASSUME CInv, CInv', Progress, LastChain(run[Importer]),
           run'[Importer] = run[Importer] \/ run'[Importer].at = "failed"
    PROVE  LastChain(run[Importer])'
<1>1. /\ RowsPassed(Property) => RowsPassed(Property)'
      /\ RowsPassed("property_rooms") => RowsPassed("property_rooms")'
  BY ProgressKeeps
<1> QED
  BY <1>1 DEF LastChain

LEMMA ConsumerKept ==
    ASSUME PInv, CInv', Progress,
           imp'.at = imp.at, imp'.consumer = imp.consumer,
           imp.closed => imp'.closed,
           imp.broken => imp'.broken,
           imp.cancelled => imp'.cancelled,
           imp.consumer = "finishing" /\ LastChain(run[Importer]) =>
               imp.at # "importing" \/ imp.broken \/ LastChain(run[Importer])',
           run[Importer].at = "off" => run'[Importer].at = "off"
    PROVE  ConsumerDone' /\ ChainInHand' /\ SuccessPassed'
<1>1. AllPassed => AllPassed'
  BY ProgressKeeps DEF PInv
<1>2. ConsumerDone'
  BY <1>1 DEF PInv, ConsumerDone
<1>3. SuccessPassed'
  BY SuccessKept
<1>4. ChainInHand'
  BY DEF PInv, ChainInHand
<1> QED
  BY <1>2, <1>3, <1>4

----------------------------------------------------------------------------
(* The producer *)

\* The fields of the import, for a record that differs from it in some.
LEMMA ImportFields ==
    ASSUME NEW i \in Import
    PROVE  /\ i.pageNo \in Nat /\ i.fetch \in Budget
           /\ i.signal \in BOOLEAN /\ i.closed \in BOOLEAN
           /\ i.broken \in BOOLEAN /\ i.cancelled \in BOOLEAN
  BY DEF Import

LEMMA ToNextPageIs ==
    ASSUME NEW i \in Import
    PROVE  LET j == ToNextPage(i)
           IN  /\ j \in Import
               /\ j.pageNo = i.pageNo + 1 /\ j.fetch = NewFetch
               /\ j.producer = IF i.pageNo = LastPage THEN "closing" ELSE "fetching"
               /\ j.at = i.at /\ j.consumer = i.consumer /\ j.closed = i.closed
               /\ j.broken = i.broken /\ j.cancelled = i.cancelled
<1> DEFINE end == IF i.pageNo = LastPage THEN "closing" ELSE "fetching"
           n == i.pageNo + 1
           j == [i EXCEPT !.pageNo = n, !.fetch = NewFetch, !.producer = end]
<1>1. NewFetch \in Budget /\ n \in Nat /\ end \in {"closing", "fetching"}
  BY NewFetchBudget, ImportFields
<1>2. j = ToNextPage(i)
  BY DEF ToNextPage
<1> HIDE DEF end, n
<1>3. /\ j \in Import
      /\ j.pageNo = n /\ j.fetch = NewFetch /\ j.producer = end
      /\ j.at = i.at /\ j.consumer = i.consumer /\ j.closed = i.closed
      /\ j.broken = i.broken /\ j.cancelled = i.cancelled
  BY <1>1 DEF Import
<1> QED
  BY <1>2, <1>3, Zenon DEF end, n

LEMMA BreaksIs ==
    ASSUME NEW i \in Import
    PROVE  LET j == Breaks(i)
           IN  /\ j \in Import
               /\ j.producer = "closing" /\ j.broken = TRUE
               /\ j.pageNo = i.pageNo /\ j.fetch = i.fetch
               /\ j.at = i.at /\ j.consumer = i.consumer /\ j.closed = i.closed
               /\ j.cancelled = i.cancelled
  BY DEF Breaks, Import

\* The page that is passed is saved, or has nothing to save.
LEMMA NextPageStep ==
    ASSUME PInv, CInv', Progress, imp' \in Import,
           imp.at = "importing", imp'.at = imp.at,
           imp.producer \in {"fetching", "saving", "signalling"},
           imp'.pageNo = imp.pageNo + 1, imp'.fetch = NewFetch,
           imp'.producer = IF imp.pageNo = LastPage THEN "closing" ELSE "fetching",
           imp'.closed = imp.closed, imp'.broken = imp.broken,
           PageSaved(imp.pageNo)
    PROVE  /\ PagesInRange' /\ FetchInBudget'
           /\ PagesSaved' /\ ProducerDone'
<1>1. LastPage \in Nat /\ imp.pageNo \in Nat
  BY FeedFacts DEF PInv, ImportTypes, Import
<1>2. imp.pageNo <= LastPage /\ ~imp.closed /\ 1 <= imp.pageNo
  BY DEF PInv, PagesInRange
<1>3. PagesInRange'
  BY <1>1, <1>2 DEF PagesInRange
<1>4. FetchInBudget'
  BY NewFetchBudget DEF FetchInBudget, FetchIsBounded
<1>5. PagesSaved'
  <2>1. ASSUME NEW n \in 1 .. LastPage, n < imp.pageNo + 1
        PROVE  PageSaved(n)
    <3>1. CASE n < imp.pageNo
      BY <3>1 DEF PInv, PagesSaved
    <3>2. CASE n = imp.pageNo
      BY <3>2
    <3> QED
      BY <1>1, <2>1, <3>1, <3>2
  <2>2. \A n \in 1 .. LastPage : n < imp.pageNo + 1 => PageSaved(n)'
    BY <2>1, ProgressKeeps DEF PInv
  <2> QED
    BY <2>2 DEF PagesSaved
<1>6. ProducerDone'
  BY <1>1 DEF ProducerDone
<1> QED
  BY <1>3, <1>4, <1>5, <1>6

\* The producer has an error.
LEMMA BreaksStep ==
    ASSUME PInv, CInv', Progress, imp' \in Import,
           imp.at = "importing", imp'.at = imp.at,
           imp.producer \in {"fetching", "saving"}, imp'.producer = "closing",
           imp'.broken = TRUE, imp'.closed = imp.closed,
           imp'.pageNo = imp.pageNo,
           WithinBudget(imp'.fetch), imp'.fetch.requests <= MostRequests
    PROVE  /\ PagesInRange' /\ FetchInBudget'
           /\ PagesSaved' /\ ProducerDone'
<1>1. PagesInRange'
  BY DEF PInv, PagesInRange
<1>2. FetchInBudget'
  BY DEF FetchInBudget, FetchIsBounded
<1>3. PagesSaved'
  BY ProgressKeeps DEF PInv, PagesSaved
<1>4. ProducerDone'
  BY DEF ProducerDone
<1> QED
  BY <1>1, <1>2, <1>3, <1>4

\* The producer stays at its page.
LEMMA SamePageStep ==
    ASSUME PInv, CInv', Progress, imp' \in Import,
           imp.at = "importing", imp'.at = imp.at,
           imp.producer \in {"fetching", "saving"},
           imp'.producer \in {"fetching", "saving", "signalling"},
           imp'.closed = imp.closed, imp'.pageNo = imp.pageNo,
           WithinBudget(imp'.fetch), imp'.fetch.requests <= MostRequests,
           imp'.producer = "fetching" => BudgetLeft(imp'.fetch),
           imp'.producer = "signalling" => PageSaved(imp.pageNo)'
    PROVE  /\ PagesInRange' /\ FetchInBudget'
           /\ PagesSaved' /\ ProducerDone'
<1>1. PagesInRange'
  BY DEF PInv, PagesInRange
<1>2. FetchInBudget'
  BY DEF FetchInBudget, FetchIsBounded
<1>3. PagesSaved'
  BY ProgressKeeps DEF PInv, PagesSaved
<1>4. ProducerDone'
  BY DEF ProducerDone
<1> QED
  BY <1>1, <1>2, <1>3, <1>4

LEMMA PageArrivesStep ==
    ASSUME PInv, CInv', Progress, PageArrives, UNCHANGED up
    PROVE  PInv'
<1> DEFINE page == Feed[imp.pageNo]
           j == [imp EXCEPT !.producer = "saving", !.fetch = NewFetch]
<1>1. /\ imp \in Import /\ imp.at = "importing" /\ imp.producer = "fetching"
      /\ imp' = IF page = << >> THEN ToNextPage(imp) ELSE j
      /\ UNCHANGED <<run, fetched, failures>>
  BY DEF PageArrives, Is, PInv, ImportTypes, childVars, chainVars
<1>2. CASE page = << >>
  <2>1. imp' = ToNextPage(imp)
    BY <1>1, <1>2
  <2>2. /\ imp' \in Import
        /\ imp'.pageNo = imp.pageNo + 1 /\ imp'.fetch = NewFetch
        /\ imp'.producer = IF imp.pageNo = LastPage THEN "closing" ELSE "fetching"
        /\ imp'.at = imp.at /\ imp'.consumer = imp.consumer
        /\ imp'.closed = imp.closed
        /\ imp'.broken = imp.broken /\ imp'.cancelled = imp.cancelled
    BY <1>1, <2>1, ToNextPageIs, Zenon
  <2>3. PageSaved(imp.pageNo)
    BY <1>2 DEF PageSaved
  <2>4. PagesInRange' /\ FetchInBudget' /\ PagesSaved' /\ ProducerDone'
    BY <1>1, <2>2, <2>3, NextPageStep
  <2>5. ConsumerDone' /\ ChainInHand' /\ SuccessPassed'
    BY <1>1, <2>2, ConsumerKept, LastChainKept DEF PInv
  <2> QED
    BY <1>1, <2>2, <2>4, <2>5 DEF PInv, ImportTypes
<1>3. CASE page # << >>
  <2>1. imp' = j
    BY <1>1, <1>3
  <2>2. /\ imp' \in Import
        /\ imp'.producer = "saving" /\ imp'.fetch = NewFetch
        /\ imp'.at = imp.at /\ imp'.pageNo = imp.pageNo
        /\ imp'.consumer = imp.consumer /\ imp'.closed = imp.closed
        /\ imp'.broken = imp.broken /\ imp'.cancelled = imp.cancelled
    BY <1>1, <2>1, NewFetchBudget DEF Import
  <2>3. PagesInRange' /\ FetchInBudget' /\ PagesSaved' /\ ProducerDone'
    BY <1>1, <2>2, NewFetchBudget, SamePageStep
  <2>4. ConsumerDone' /\ ChainInHand' /\ SuccessPassed'
    BY <1>1, <2>2, ConsumerKept, LastChainKept DEF PInv
  <2> QED
    BY <1>1, <2>2, <2>3, <2>4 DEF PInv, ImportTypes
<1> QED
  BY <1>2, <1>3

LEMMA RequestFailsStep ==
    ASSUME PInv, CInv', Progress, RequestFails, UNCHANGED up
    PROVE  PInv'
<1>1. /\ imp \in Import /\ imp.at = "importing" /\ imp.producer = "fetching"
      /\ UNCHANGED <<run, fetched, failures>>
  BY DEF RequestFails, Is, PInv, ImportTypes, childVars, chainVars
<1>2. PICK answer \in Failures :
         imp' = IF GivesUp(imp.fetch, answer)
                THEN Breaks([imp EXCEPT !.fetch = AfterFailure(@, answer)])
                ELSE [imp EXCEPT !.fetch = AfterFailure(@, answer)]
  BY DEF RequestFails, Failures
<1> DEFINE fetch == AfterFailure(imp.fetch, answer)
           tried == [imp EXCEPT !.fetch = fetch]
<1>3. /\ fetch \in Budget /\ WithinBudget(fetch) /\ fetch.requests <= MostRequests
      /\ ~GivesUp(imp.fetch, answer) => BudgetLeft(fetch)
  <2>1. imp.fetch \in Budget /\ WithinBudget(imp.fetch) /\ BudgetLeft(imp.fetch)
    BY <1>1, ImportFields DEF PInv, FetchInBudget
  <2> QED
    BY <2>1, FailureInBudget
<1>4. imp' = IF GivesUp(imp.fetch, answer) THEN Breaks(tried) ELSE tried
  BY <1>2
<1> HIDE DEF fetch
<1>5. /\ tried \in Import /\ tried.fetch = fetch
      /\ tried.at = imp.at /\ tried.pageNo = imp.pageNo
      /\ tried.producer = imp.producer
      /\ tried.consumer = imp.consumer /\ tried.closed = imp.closed
      /\ tried.broken = imp.broken /\ tried.cancelled = imp.cancelled
  BY <1>1, <1>3 DEF Import
<1> HIDE DEF tried
<1>6. CASE GivesUp(imp.fetch, answer)
  <2>1. imp' = Breaks(tried)
    BY <1>4, <1>6
  <2>2. /\ imp' \in Import /\ imp'.fetch = fetch
        /\ imp'.producer = "closing" /\ imp'.broken = TRUE
        /\ imp'.at = imp.at /\ imp'.pageNo = imp.pageNo
        /\ imp'.consumer = imp.consumer /\ imp'.closed = imp.closed
        /\ imp'.cancelled = imp.cancelled
    BY <1>5, <2>1, BreaksIs
  <2>3. PagesInRange' /\ FetchInBudget' /\ PagesSaved' /\ ProducerDone'
    BY <1>1, <1>3, <2>2, BreaksStep
  <2>4. ConsumerDone' /\ ChainInHand' /\ SuccessPassed'
    BY <1>1, <2>2, ConsumerKept, LastChainKept DEF PInv
  <2> QED
    BY <1>1, <2>2, <2>3, <2>4 DEF PInv, ImportTypes
<1>7. CASE ~GivesUp(imp.fetch, answer)
  <2>1. imp' = tried
    BY <1>4, <1>7
  <2>2. PagesInRange' /\ FetchInBudget' /\ PagesSaved' /\ ProducerDone'
    BY <1>1, <1>3, <1>5, <1>7, <2>1, SamePageStep
  <2>3. ConsumerDone' /\ ChainInHand' /\ SuccessPassed'
    BY <1>1, <1>5, <2>1, ConsumerKept, LastChainKept DEF PInv
  <2> QED
    BY <1>1, <1>5, <2>1, <2>2, <2>3 DEF PInv, ImportTypes
<1> QED
  BY <1>6, <1>7

LEMMA SomethingFailsType ==
    ASSUME ImportTypes, SomethingFails
    PROVE  failures' \in 0 .. MaxFailures[up]
  BY ImportAssumption DEF ImportTypes, SomethingFails

LEMMA BreakStep ==
    ASSUME PInv, CInv', Progress, FetchBreaks \/ SaveBreaks, UNCHANGED up
    PROVE  PInv'
<1>1. /\ imp \in Import /\ imp.at = "importing"
      /\ imp.producer \in {"fetching", "saving"}
      /\ imp' = Breaks(imp)
      /\ UNCHANGED <<run, fetched>>
      /\ UNCHANGED failures \/ SomethingFails
  BY DEF FetchBreaks, SaveBreaks, Is, PInv, ImportTypes, childVars, chainVars
<1>2. /\ imp' \in Import /\ imp'.fetch = imp.fetch
      /\ imp'.producer = "closing" /\ imp'.broken = TRUE
      /\ imp'.at = imp.at /\ imp'.pageNo = imp.pageNo
      /\ imp'.consumer = imp.consumer /\ imp'.closed = imp.closed
      /\ imp'.cancelled = imp.cancelled
  BY <1>1, BreaksIs
<1>3. WithinBudget(imp.fetch) /\ imp.fetch.requests <= MostRequests
  BY DEF PInv, FetchInBudget, FetchIsBounded
<1>4. PagesInRange' /\ FetchInBudget' /\ PagesSaved' /\ ProducerDone'
  BY <1>1, <1>2, <1>3, BreaksStep
<1>5. ConsumerDone' /\ ChainInHand' /\ SuccessPassed'
  BY <1>1, <1>2, ConsumerKept, LastChainKept DEF PInv
<1>6. failures' \in 0 .. MaxFailures[up]
  BY <1>1, SomethingFailsType DEF PInv, ImportTypes
<1> QED
  BY <1>1, <1>2, <1>4, <1>5, <1>6 DEF PInv, ImportTypes

\* Between its ids and its commit the importer has the page it is at in hand.
PageInHand ==
    minted[Importer] # {} =>
        /\ Is("producer", "saving")
        /\ \A m \in DOMAIN Feed[imp.pageNo] : \E i \in minted[Importer] :
              raw[i] = Feed[imp.pageNo][m]

LEMMA SaveFetchedStep ==
    ASSUME PInv, PageInHand, CInv', Progress, SaveFetched, UNCHANGED up
    PROVE  PInv'
<1>1. /\ imp \in Import /\ imp.at = "importing" /\ imp.producer = "saving"
      /\ SavePage(Importer) /\ minted[Importer] # {}
      /\ imp' = [imp EXCEPT !.producer = "signalling"]
      /\ UNCHANGED <<run, fetched, failures>>
  BY DEF SaveFetched, SavePage, Is, PInv, ImportTypes, chainVars
<1>2. /\ imp' \in Import
      /\ imp'.producer = "signalling" /\ imp'.fetch = imp.fetch
      /\ imp'.at = imp.at /\ imp'.pageNo = imp.pageNo
      /\ imp'.consumer = imp.consumer /\ imp'.closed = imp.closed
      /\ imp'.broken = imp.broken /\ imp'.cancelled = imp.cancelled
  BY <1>1 DEF Import
<1>3. imp.pageNo \in 1 .. LastPage
  BY <1>1, FeedFacts DEF PInv, PagesInRange, Import
<1>4. PageSaved(imp.pageNo)'
  <2>1. ASSUME NEW m \in DOMAIN Feed[imp.pageNo]
        PROVE  Saved(Feed[imp.pageNo][m])'
    <3>1. PICK i \in minted[Importer] : raw[i] = Feed[imp.pageNo][m]
      BY <1>1 DEF PageInHand
    <3>2. Saved(raw[i])'
      BY <1>1, FeedFacts, PageIsSaved DEF PInv, CInv
    <3>3. raw' = raw
      BY <1>1 DEF SavePage
    <3> QED
      BY <1>2, <3>1, <3>2, <3>3 DEF Saved
  <2> QED
    BY <1>2, <2>1 DEF PageSaved
<1>5. WithinBudget(imp.fetch) /\ imp.fetch.requests <= MostRequests
  BY DEF PInv, FetchInBudget, FetchIsBounded
<1>6. PagesInRange' /\ FetchInBudget' /\ PagesSaved' /\ ProducerDone'
  BY <1>1, <1>2, <1>4, <1>5, SamePageStep
<1>7. ConsumerDone' /\ ChainInHand' /\ SuccessPassed'
  BY <1>1, <1>2, ConsumerKept, LastChainKept DEF PInv
<1> QED
  BY <1>1, <1>2, <1>6, <1>7 DEF PInv, ImportTypes

LEMMA SignalStep ==
    ASSUME PInv, CInv', Progress, Signal, UNCHANGED up
    PROVE  PInv'
<1> DEFINE next == ToNextPage(imp)
<1>1. /\ imp \in Import /\ imp.at = "importing" /\ imp.producer = "signalling"
      /\ imp' = [next EXCEPT !.signal = TRUE]
      /\ UNCHANGED <<run, fetched, failures>>
  BY DEF Signal, Is, PInv, ImportTypes, childVars, chainVars
<1>2. /\ next \in Import
      /\ next.pageNo = imp.pageNo + 1 /\ next.fetch = NewFetch
      /\ next.producer = IF imp.pageNo = LastPage THEN "closing" ELSE "fetching"
      /\ next.at = imp.at /\ next.consumer = imp.consumer
      /\ next.closed = imp.closed
      /\ next.broken = imp.broken /\ next.cancelled = imp.cancelled
  BY <1>1, ToNextPageIs
<1> HIDE DEF next
<1>3. /\ imp' \in Import
      /\ imp'.pageNo = imp.pageNo + 1 /\ imp'.fetch = NewFetch
      /\ imp'.producer = IF imp.pageNo = LastPage THEN "closing" ELSE "fetching"
      /\ imp'.at = imp.at /\ imp'.consumer = imp.consumer
      /\ imp'.closed = imp.closed
      /\ imp'.broken = imp.broken /\ imp'.cancelled = imp.cancelled
  BY <1>1, <1>2 DEF Import
<1>4. PageSaved(imp.pageNo)
  <2>1. imp.pageNo \in 1 .. LastPage
    BY <1>1, FeedFacts DEF PInv, PagesInRange, Import
  <2> QED
    BY <1>1, <2>1 DEF PInv, PagesSaved
<1>5. PagesInRange' /\ FetchInBudget' /\ PagesSaved' /\ ProducerDone'
  BY <1>1, <1>3, <1>4, NextPageStep
<1>6. ConsumerDone' /\ ChainInHand' /\ SuccessPassed'
  BY <1>1, <1>3, ConsumerKept, LastChainKept DEF PInv
<1> QED
  BY <1>1, <1>3, <1>5, <1>6 DEF PInv, ImportTypes

LEMMA CloseSignalStep ==
    ASSUME PInv, CInv', Progress, CloseSignal, UNCHANGED up
    PROVE  PInv'
<1>1. /\ imp \in Import /\ imp.at = "importing" /\ imp.producer = "closing"
      /\ imp' = [imp EXCEPT !.producer = "returning", !.fetch = NewFetch,
                            !.closed = TRUE]
      /\ UNCHANGED <<run, fetched, failures>>
  BY DEF CloseSignal, Is, PInv, ImportTypes, childVars, chainVars
<1>2. /\ imp' \in Import
      /\ imp'.producer = "returning" /\ imp'.fetch = NewFetch /\ imp'.closed
      /\ imp'.at = imp.at /\ imp'.pageNo = imp.pageNo
      /\ imp'.consumer = imp.consumer
      /\ imp'.broken = imp.broken /\ imp'.cancelled = imp.cancelled
  BY <1>1, NewFetchBudget DEF Import
<1>3. PagesInRange'
  BY <1>2 DEF PInv, PagesInRange
<1>4. FetchInBudget'
  BY <1>2, NewFetchBudget DEF FetchInBudget, FetchIsBounded
<1>5. PagesSaved'
  BY <1>1, <1>2, ProgressKeeps DEF PInv, PagesSaved
<1>6. ProducerDone'
  BY <1>1, <1>2 DEF PInv, ProducerDone
<1>7. ConsumerDone' /\ ChainInHand' /\ SuccessPassed'
  BY <1>1, <1>2, ConsumerKept, LastChainKept DEF PInv
<1> QED
  BY <1>1, <1>2, <1>3, <1>4, <1>5, <1>6, <1>7 DEF PInv, ImportTypes

LEMMA ProducerReturnsStep ==
    ASSUME PInv, CInv', Progress, ProducerReturns, UNCHANGED up
    PROVE  PInv'
<1>1. /\ imp \in Import /\ imp.at = "importing" /\ imp.producer = "returning"
      /\ imp' = [imp EXCEPT !.producer = "returned",
                            !.cancelled = @ \/ imp.broken]
      /\ UNCHANGED <<run, fetched, failures>>
  BY DEF ProducerReturns, Is, PInv, ImportTypes, childVars, chainVars
<1>2. /\ imp' \in Import
      /\ imp'.producer = "returned" /\ imp'.fetch = imp.fetch
      /\ imp'.closed = imp.closed
      /\ imp'.at = imp.at /\ imp'.pageNo = imp.pageNo
      /\ imp'.consumer = imp.consumer
      /\ imp'.broken = imp.broken
      /\ imp'.cancelled <=> imp.cancelled \/ imp.broken
  BY <1>1 DEF Import
<1>3. PagesInRange'
  BY <1>2 DEF PInv, PagesInRange
<1>4. FetchInBudget'
  BY <1>2 DEF PInv, FetchInBudget, FetchIsBounded
<1>5. PagesSaved'
  BY <1>1, <1>2, ProgressKeeps DEF PInv, PagesSaved
<1>6. ProducerDone'
  BY <1>1, <1>2 DEF PInv, ProducerDone
<1>7. ConsumerDone' /\ ChainInHand' /\ SuccessPassed'
  BY <1>1, <1>2, ConsumerKept, LastChainKept DEF PInv
<1> QED
  BY <1>1, <1>2, <1>3, <1>4, <1>5, <1>6, <1>7 DEF PInv, ImportTypes

----------------------------------------------------------------------------
(* The consumer *)

\* A consumer's step in the fields that matter.
LEMMA ConsumerStep ==
    ASSUME PInv, CInv', Progress, UNCHANGED <<fetched, failures, up>>,
           imp' \in Import,
           imp.at = "importing", imp'.at = imp.at, imp'.producer = imp.producer,
           imp'.pageNo = imp.pageNo, imp'.fetch = imp.fetch,
           imp'.closed = imp.closed, imp'.broken = imp.broken,
           imp.cancelled => imp'.cancelled,
           ConsumerDone', ChainInHand'
    PROVE  PInv'
<1>1. PagesInRange' /\ FetchInBudget' /\ PagesSaved' /\ ProducerDone'
  BY ProducerKept
<1>2. SuccessPassed'
  BY SuccessKept
<1> QED
  BY <1>1, <1>2 DEF PInv, ImportTypes

\* What the importer's chain is when it starts.
LEMMA ImporterStarts ==
    ASSUME ChildTypeOK, NEW final \in BOOLEAN,
           StartChain(Importer, PropertyChain, final)
    PROVE  run'[Importer].at = "waiting" /\ run'[Importer].chain = PropertyChain
<1>1. Importer \in Processes
  BY FeedFacts
<1> QED
  BY <1>1 DEF StartChain, SetRunAt, ChildTypeOK, Off

LEMMA WakeStep ==
    ASSUME PInv, CInv', Progress, Wake, UNCHANGED up
    PROVE  PInv'
<1>1. /\ imp \in Import /\ imp.at = "importing"
      /\ imp' = [imp EXCEPT !.consumer = "draining", !.signal = FALSE]
      /\ UNCHANGED <<fetched, failures>>
  BY DEF Wake, Is, PInv, ImportTypes
<1>2. /\ imp' \in Import /\ imp'.at = imp.at /\ imp'.producer = imp.producer
      /\ imp'.pageNo = imp.pageNo /\ imp'.fetch = imp.fetch
      /\ imp'.closed = imp.closed /\ imp'.broken = imp.broken
      /\ imp'.cancelled = imp.cancelled /\ imp'.consumer = "draining"
  BY <1>1 DEF Import
<1>3. ConsumerDone' /\ ChainInHand'
  BY <1>1, <1>2 DEF ConsumerDone, ChainInHand
<1> QED
  BY <1>1, <1>2, <1>3, ConsumerStep

LEMMA LastDrainStep ==
    ASSUME PInv, CInv', Progress, LastDrain, UNCHANGED up
    PROVE  PInv'
<1>1. /\ imp \in Import /\ imp.at = "importing" /\ imp.closed
      /\ imp' = [imp EXCEPT !.consumer = "finishing"]
      /\ StartChain(Importer, PropertyChain, TRUE)
      /\ UNCHANGED <<fetched, failures>>
  BY DEF LastDrain, Is, PInv, ImportTypes
<1>2. /\ imp' \in Import /\ imp'.at = imp.at /\ imp'.producer = imp.producer
      /\ imp'.pageNo = imp.pageNo /\ imp'.fetch = imp.fetch
      /\ imp'.closed = imp.closed /\ imp'.broken = imp.broken
      /\ imp'.cancelled = imp.cancelled /\ imp'.consumer = "finishing"
  BY <1>1 DEF Import
<1>3. LastChain(run[Importer])'
  BY <1>1, ImporterStarts, PropertyChainFacts DEF LastChain, PInv, CInv
<1>4. ConsumerDone' /\ ChainInHand'
  BY <1>1, <1>2, <1>3 DEF ConsumerDone, ChainInHand
<1> QED
  BY <1>1, <1>2, <1>4, ConsumerStep

\* A chain does not go anywhere but forward.
LEMMA ImporterRun ==
    ASSUME CInv, NEW s \in RunState, SetRunAt(Importer, s)
    PROVE  run'[Importer] = s
  BY FeedFacts DEF CInv, ChildTypeOK, SetRunAt

LEMMA EndPassIs ==
    ASSUME CInv, EndPass(Importer)
    PROVE  /\ run'[Importer].chain = Tail(run[Importer].chain)
           /\ run'[Importer].at =
                 IF Tail(run[Importer].chain) = << >> THEN "done" ELSE "waiting"
<1>1. run[Importer] \in RunState /\ Importer \in Processes
  BY FeedFacts DEF CInv, ChildTypeOK
<1> DEFINE rest == Tail(run[Importer].chain)
           s == [run[Importer] EXCEPT
                    !.at = IF rest = << >> THEN "done" ELSE "waiting",
                    !.chain = rest, !.tables = << >>]
<1>2. SetRunAt(Importer, s)
  BY DEF EndPass
<1> HIDE DEF rest
<1>3. s.chain = rest /\ s.at = IF rest = << >> THEN "done" ELSE "waiting"
  BY <1>1 DEF RunState
<1>4. run'[Importer] = s
  BY <1>1, <1>2 DEF CInv, ChildTypeOK, SetRunAt
<1> QED
  BY <1>3, <1>4 DEF rest

\* The last chain goes over to its next resource when the one it is at is
\* projected.
LEMMA LastChainEndsPass ==
    ASSUME CInv, CInv', Progress, LastChain(run[Importer]),
           run[Importer].at \in {"draining", "relinking"},
           EndPass(Importer), RowsPassed(Current(Importer))
    PROVE  LastChain(run[Importer])'
<1> DEFINE s == run[Importer]
           t == run'[Importer]
<1>1. s.chain # << >> /\ s.chain \in {PropertyChain, ChildResources, << >>}
  BY FeedFacts DEF CInv, ChainsMakeSense, ChainMakesSense, Busy, LastChain
<1>2. t.chain = Tail(s.chain) /\ t.at = IF t.chain = << >> THEN "done" ELSE "waiting"
  BY EndPassIs
<1>3. /\ RowsPassed(Property) => RowsPassed(Property)'
      /\ RowsPassed("property_rooms") => RowsPassed("property_rooms")'
  BY ProgressKeeps
<1>4. CASE s.chain = PropertyChain
  <2>1. t.chain = ChildResources /\ RowsPassed(Property)
    BY <1>2, <1>4, PropertyChainFacts DEF Current
  <2> QED
    BY <1>2, <1>3, <2>1, PropertyChainFacts DEF LastChain
<1>5. CASE s.chain = ChildResources
  <2>1. t.chain = << >> /\ RowsPassed("property_rooms")
    BY <1>2, <1>5, PropertyChainFacts DEF Current
  <2>2. RowsPassed(Property)
    BY <1>5, PropertyChainFacts DEF LastChain
  <2> QED
    BY <1>2, <1>3, <2>1, <2>2, PropertyChainFacts DEF LastChain
<1> QED
  BY <1>1, <1>4, <1>5

\* Transactions keep the chain where it is.
LEMMA SameChain ==
    ASSUME CInv,
           AcquireLock(Importer) \/ BeginChunk(Importer) \/ CommitChunk(Importer)
    PROVE  /\ run[Importer].at # "failed" /\ run[Importer].at # "off"
           /\ run'[Importer].chain = run[Importer].chain
           /\ run'[Importer].at \in {"draining", "writing"}
<1>1. /\ Importer \in Processes /\ run[Importer] \in RunState
      /\ run \in [Processes -> RunState]
  BY FeedFacts DEF CInv, ChildTypeOK
<1>2. CASE AcquireLock(Importer)
  BY <1>1, <1>2 DEF AcquireLock, SetRunAt, RunState
<1>3. CASE BeginChunk(Importer)
  <2>1. PICK rows \in SUBSET Unread(Current(Importer)) :
           SetRunAt(Importer, [run[Importer] EXCEPT
               !.at = "writing",
               !.rows = rows,
               !.seen = IF Current(Importer) = Property THEN {} ELSE ExistingListings,
               !.unlinked = /\ Cardinality(rows) = 1
                            /\ \E i \in rows : /\ raw[i].key \in Children
                                               /\ link[raw[i].key] = NoLink])
    BY <1>3, Zenon DEF BeginChunk
  <2> DEFINE seen == IF Current(Importer) = Property THEN {} ELSE ExistingListings
             unlinked == /\ Cardinality(rows) = 1
                         /\ \E i \in rows : /\ raw[i].key \in Children
                                            /\ link[raw[i].key] = NoLink
             s == [run[Importer] EXCEPT !.at = "writing", !.rows = rows,
                                        !.seen = seen, !.unlinked = unlinked]
  <2>2. run' = [run EXCEPT ![Importer] = s]
    BY <2>1 DEF SetRunAt
  <2> HIDE DEF seen, unlinked
  <2>3. s.at = "writing" /\ s.chain = run[Importer].chain
    BY <1>1 DEF RunState
  <2> HIDE DEF s
  <2>4. run'[Importer] = s /\ run[Importer].at = "draining"
    BY <1>1, <1>3, <2>2 DEF BeginChunk
  <2> QED
    BY <2>3, <2>4
<1>4. CASE CommitChunk(Importer)
  BY <1>1, <1>4 DEF CommitChunk, SetRunAt, RunState
<1> QED
  BY <1>2, <1>3, <1>4

LEMMA LastChainRuns ==
    ASSUME CInv, CInv', Progress, LastChain(run[Importer]),
           \A n \in 1 .. LastPage : PageSaved(n),
           RunChain(Importer)
    PROVE  LastChain(run[Importer])'
<1> DEFINE s == run[Importer]
           t == run'[Importer]
<1>1. Importer \in Processes /\ s \in RunState /\ run \in [Processes -> RunState]
  BY FeedFacts DEF CInv, ChildTypeOK
<1>2. /\ RowsPassed(Property) => RowsPassed(Property)'
      /\ RowsPassed("property_rooms") => RowsPassed("property_rooms")'
  BY ProgressKeeps
<1>3. CASE AcquireLock(Importer) \/ BeginChunk(Importer) \/ CommitChunk(Importer)
  BY <1>2, <1>3, SameChain DEF LastChain
<1>4. CASE Drained(Importer)
  <2>1. s.at = "draining" /\ s.chain # << >> /\ Unread(Current(Importer)) = {}
    BY <1>1, <1>4 DEF Drained, CInv, ChainsMakeSense, ChainMakesSense, Busy
  <2>2. RowsPassed(Current(Importer))
    BY <1>1, <2>1, CurrentResource, NothingUnread DEF CInv
  <2>3. CASE Finalizes(Importer)
    <3>1. t = [s EXCEPT !.at = "relinking", !.tables = Relinked]
      BY <1>1, <1>4, <2>3 DEF Drained, SetRunAt
    <3>2. t.at = "relinking" /\ t.chain = s.chain
      BY <1>1, <3>1 DEF RunState
    <3>3. RowsPassed(Property) /\ Current(Importer) = Property
      BY <2>2, <2>3 DEF Finalizes
    <3>4. Head(s.chain) = Property
      BY <3>3 DEF Current
    <3>5. s.chain = PropertyChain
      BY <2>1, <3>4, PropertyChainFacts DEF LastChain, Property
    <3> QED
      BY <1>2, <3>2, <3>3, <3>5, PropertyChainFacts DEF LastChain
  <2>4. CASE ~Finalizes(Importer)
    <3>1. EndPass(Importer)
      BY <1>4, <2>4 DEF Drained
    <3> QED
      BY <2>1, <2>2, <3>1, LastChainEndsPass
  <2> QED
    BY <2>3, <2>4
<1>5. CASE RelinkTable(Importer)
  <2>1. s.at = "relinking" /\ s.chain # << >>
    BY <1>1, <1>5 DEF RelinkTable, CInv, ChainsMakeSense, ChainMakesSense, Busy
  <2>2. CASE Tail(s.tables) = << >>
    <3>1. EndPass(Importer)
      BY <1>5, <2>2 DEF RelinkTable
    <3>2. RowsPassed(Property) /\ s.chain = PropertyChain
      BY <2>1 DEF LastChain
    <3>3. RowsPassed(Current(Importer))
      BY <3>2, PropertyChainFacts DEF Current
    <3> QED
      BY <2>1, <3>1, <3>3, LastChainEndsPass
  <2>3. CASE Tail(s.tables) # << >>
    <3>1. t = [s EXCEPT !.tables = Tail(@)]
      BY <1>1, <1>5, <2>3 DEF RelinkTable, SetRunAt
    <3>2. t.at = s.at /\ t.chain = s.chain
      BY <1>1, <3>1 DEF RunState
    <3> QED
      BY <1>2, <3>2 DEF LastChain
  <2> QED
    BY <2>2, <2>3
<1>6. CASE HaltOnBadRow(Importer)
  <2>1. t.at = "failed"
    BY <1>1, <1>6 DEF HaltOnBadRow, FailChain, DropChain, SetRunAt, Off
  <2> QED
    BY <2>1 DEF LastChain
<1> QED
  BY <1>3, <1>4, <1>5, <1>6 DEF RunChain

LEMMA DrainStep ==
    ASSUME PInv, CInv', Progress, Drain, UNCHANGED up
    PROVE  PInv'
<1>1. UNCHANGED <<imp, fetched, failures>> /\ imp \in Import
  BY DEF Drain, PInv, ImportTypes
<1>2. PagesInRange' /\ FetchInBudget' /\ PagesSaved' /\ ProducerDone'
  BY <1>1, ProducerKept
<1>3. run[Importer].at # "off"
  <2>1. CASE imp.cancelled
    BY <2>1 DEF Drain, FailChain, Running
  <2>2. CASE ~imp.cancelled
    BY <2>2 DEF Drain, RunChain, AcquireLock, BeginChunk, CommitChunk, Drained,
                RelinkTable, HaltOnBadRow
  <2> QED
    BY <2>1, <2>2
<1>4. ASSUME imp.at = "importing", ~imp.broken, imp.consumer = "finishing",
             LastChain(run[Importer])
      PROVE  LastChain(run[Importer])'
  <2>1. CASE imp.cancelled
    <3>1. run'[Importer].at = "failed"
      BY <2>1, FeedFacts DEF Drain, FailChain, DropChain, SetRunAt, Off, PInv, CInv,
                             ChildTypeOK
    <3> QED
      BY <3>1 DEF LastChain
  <2>2. CASE ~imp.cancelled
    <3>1. imp.closed
      BY <1>4 DEF PInv, ConsumerDone
    <3>2. imp.pageNo = LastPage + 1
      BY <1>4, <3>1 DEF PInv, PagesInRange, ProducerDone
    <3>3. \A n \in 1 .. LastPage : PageSaved(n)
      BY <1>4, <3>2, FeedFacts DEF PInv, PagesSaved
    <3> QED
      BY <1>4, <2>2, <3>3, LastChainRuns DEF Drain, PInv
  <2> QED
    BY <2>1, <2>2
<1>5. ConsumerDone' /\ ChainInHand' /\ SuccessPassed'
  BY <1>1, <1>3, <1>4, ConsumerKept
<1> QED
  BY <1>1, <1>2, <1>5 DEF PInv, ImportTypes

LEMMA ChainReturnsStep ==
    ASSUME PInv, CInv', Progress, ChainReturns, UNCHANGED up
    PROVE  PInv'
<1>1. /\ imp \in Import /\ Importer \in Processes
      /\ run[Importer].at \in {"done", "failed"}
      /\ imp.consumer \in {"draining", "finishing"} /\ imp.at = "importing"
      /\ UNCHANGED <<fetched, failures>>
  BY FeedFacts DEF ChainReturns, EndChain, PInv, ImportTypes, ChainInHand
<1>2. run'[Importer] = Off /\ Off.at = "off"
  BY <1>1, FeedFacts DEF ChainReturns, EndChain, SetRunAt, PInv, CInv, ChildTypeOK, Off
<1>3. CASE run[Importer].at = "failed"
  <2>1. imp' = [imp EXCEPT !.consumer = "returned", !.cancelled = TRUE]
    BY <1>3 DEF ChainReturns
  <2>2. /\ imp' \in Import /\ imp'.at = imp.at /\ imp'.producer = imp.producer
        /\ imp'.pageNo = imp.pageNo /\ imp'.fetch = imp.fetch
        /\ imp'.closed = imp.closed /\ imp'.broken = imp.broken
        /\ imp'.cancelled /\ imp'.consumer = "returned"
    BY <1>1, <2>1 DEF Import
  <2>3. ConsumerDone' /\ ChainInHand'
    BY <1>1, <1>2, <2>2 DEF ConsumerDone, ChainInHand
  <2> QED
    BY <1>1, <2>2, <2>3, ConsumerStep
<1>4. CASE run[Importer].at # "failed"
  <2> DEFINE next == IF imp.consumer = "draining" THEN "ranging" ELSE "returned"
  <2>1. imp' = [imp EXCEPT !.consumer = next]
    BY <1>4 DEF ChainReturns
  <2> HIDE DEF next
  <2>2. next \in {"ranging", "returned"}
    BY DEF next
  <2>3. /\ imp' \in Import /\ imp'.at = imp.at /\ imp'.producer = imp.producer
        /\ imp'.pageNo = imp.pageNo /\ imp'.fetch = imp.fetch
        /\ imp'.closed = imp.closed /\ imp'.broken = imp.broken
        /\ imp'.cancelled = imp.cancelled /\ imp'.consumer = next
    BY <1>1, <2>1, <2>2 DEF Import
  <2>4. ASSUME imp.consumer = "finishing", ~imp.broken
        PROVE  AllPassed'
    <3>1. LastChain(run[Importer])
      BY <1>1, <2>4 DEF PInv, ConsumerDone
    <3>2. run[Importer].chain = << >>
      BY <1>1, <1>4, <3>1 DEF LastChain
    <3>3. AllPassed
      BY <1>4, <3>1, <3>2, PropertyChainFacts, BothPassed DEF LastChain
    <3> QED
      BY <3>3, ProgressKeeps DEF PInv
  <2>5. ConsumerDone'
    BY <1>1, <2>3, <2>4 DEF ConsumerDone, next
  <2>6. ChainInHand'
    BY <1>1, <1>2, <2>3 DEF ChainInHand
  <2> QED
    BY <1>1, <2>3, <2>5, <2>6, ConsumerStep
<1> QED
  BY <1>3, <1>4

----------------------------------------------------------------------------
(* The import as a whole, and the others *)

LEMMA FreshIs ==
    ASSUME NEW n \in 0 .. MaxStarts, NEW alone \in BOOLEAN
    PROVE  LET i == [Fresh EXCEPT !.starts = n, !.alone = alone]
           IN  /\ i \in Import /\ i.at = "importing"
               /\ i.producer = "fetching" /\ i.pageNo = 1 /\ i.fetch = NewFetch
               /\ i.consumer = "ranging"
               /\ ~i.closed /\ ~i.broken /\ ~i.cancelled
<1>1. NewFetch \in Budget
  BY NewFetchBudget
<1> QED
  BY <1>1 DEF Fresh, Import

LEMMA NotStartedIs ==
    ASSUME NEW n \in 0 .. MaxStarts, NEW at \in {"idle", "failed"}
    PROVE  LET i == [NotStarted EXCEPT !.at = at, !.starts = n]
           IN  /\ i \in Import /\ i.at = at
               /\ i.producer = "returned" /\ i.pageNo = 1 /\ i.fetch = NewFetch
               /\ i.consumer = "returned"
               /\ ~i.closed /\ ~i.broken /\ ~i.cancelled
<1>1. NewFetch \in Budget /\ 0 \in 0 .. MaxStarts
  BY NewFetchBudget, ImportAssumption
<1>2. /\ NotStarted \in Import
      /\ NotStarted.producer = "returned" /\ NotStarted.pageNo = 1
      /\ NotStarted.fetch = NewFetch /\ NotStarted.consumer = "returned"
      /\ ~NotStarted.closed /\ ~NotStarted.broken /\ ~NotStarted.cancelled
  BY <1>1 DEF NotStarted, Fresh, Import
<1> QED
  BY <1>2 DEF Import

LEMMA StartImportStep ==
    ASSUME PInv, CInv', Progress, StartImport, UNCHANGED up
    PROVE  PInv'
<1>1. /\ imp \in Import /\ imp.at # "importing" /\ imp.starts < MaxStarts
      /\ UNCHANGED <<run, fetched, failures>>
  BY DEF StartImport, PInv, ImportTypes, childVars, chainVars
<1> DEFINE alone == PropertyDaemons = {}
           n == imp.starts + 1
<1>2. imp' = [Fresh EXCEPT !.starts = n, !.alone = alone]
  BY DEF StartImport
<1>3. n \in 0 .. MaxStarts /\ alone \in BOOLEAN
  BY <1>1, ImportAssumption DEF Import
<1> HIDE DEF alone, n
<1>4. /\ imp' \in Import /\ imp'.at = "importing"
      /\ imp'.producer = "fetching" /\ imp'.pageNo = 1 /\ imp'.fetch = NewFetch
      /\ imp'.consumer = "ranging"
      /\ ~imp'.closed /\ ~imp'.broken /\ ~imp'.cancelled
  BY <1>2, <1>3, FreshIs
<1>5. PagesInRange'
  BY <1>4, FeedFacts DEF PagesInRange
<1>6. FetchInBudget'
  BY <1>4, NewFetchBudget DEF FetchInBudget, FetchIsBounded
<1>7. PagesSaved' /\ ProducerDone' /\ ConsumerDone'
  BY <1>4 DEF PagesSaved, ProducerDone, ConsumerDone
<1>8. ChainInHand'
  BY <1>1, <1>4 DEF PInv, ChainInHand
<1>9. SuccessPassed'
  BY <1>4, SuccessKept
<1> QED
  BY <1>1, <1>4, <1>5, <1>6, <1>7, <1>8, <1>9 DEF PInv, ImportTypes

LEMMA ImportDiesStep ==
    ASSUME PInv, CInv', Progress, ImportDies, UNCHANGED up
    PROVE  PInv'
<1>1. imp \in Import /\ failures' \in 0 .. MaxFailures[up] /\ UNCHANGED fetched
  BY SomethingFailsType DEF ImportDies, PInv, ImportTypes
<1>2. imp' = [NotStarted EXCEPT !.at = "failed", !.starts = imp.starts]
  BY DEF ImportDies
<1>3. /\ imp' \in Import /\ imp'.at = "failed"
      /\ imp'.producer = "returned" /\ imp'.pageNo = 1 /\ imp'.fetch = NewFetch
      /\ imp'.consumer = "returned"
      /\ ~imp'.closed /\ ~imp'.broken /\ ~imp'.cancelled
  <2>1. imp.starts \in 0 .. MaxStarts
    BY <1>1 DEF Import
  <2> QED
    BY <1>2, <2>1, NotStartedIs
<1>4. run'[Importer].at = "off"
  BY FeedFacts DEF ImportDies, Die, DropChain, SetRunAt, Off, PInv, CInv, ChildTypeOK
<1>5. PagesInRange'
  BY <1>3, FeedFacts DEF PagesInRange
<1>6. FetchInBudget'
  BY <1>3, NewFetchBudget DEF FetchInBudget, FetchIsBounded
<1>7. PagesSaved' /\ ProducerDone' /\ ConsumerDone'
  BY <1>3 DEF PagesSaved, ProducerDone, ConsumerDone
<1>8. ChainInHand'
  BY <1>3, <1>4 DEF ChainInHand
<1>9. SuccessPassed'
  BY <1>3, SuccessKept
<1> QED
  BY <1>1, <1>3, <1>5, <1>6, <1>7, <1>8, <1>9 DEF PInv, ImportTypes

LEMMA JoinStep ==
    ASSUME PInv, CInv', Progress, Join \/ Enqueue, UNCHANGED up
    PROVE  PInv'
<1>1. imp \in Import /\ UNCHANGED <<run, fetched>> /\ failures' \in 0 .. MaxFailures[up]
  BY SomethingFailsType DEF Join, Enqueue, PInv, ImportTypes, childVars, chainVars
<1>2. PICK at \in {"failed", "enqueueing", "succeeded"} :
         /\ imp' = [imp EXCEPT !.at = at]
         /\ imp.at \in {"importing", "enqueueing"} /\ imp.consumer = "returned"
         /\ at # "failed" => imp.at = "enqueueing" \/ (Is("producer", "returned")
                                                       /\ ~imp.cancelled)
  <2>1. CASE Join
    BY <2>1 DEF Join, Is
  <2>2. CASE Enqueue
    BY <2>2 DEF Enqueue, PInv, ChainInHand
  <2> QED
    BY <2>1, <2>2
<1>3. /\ imp' \in Import /\ imp'.at = at /\ imp'.producer = imp.producer
      /\ imp'.pageNo = imp.pageNo /\ imp'.fetch = imp.fetch
      /\ imp'.consumer = imp.consumer
      /\ imp'.closed = imp.closed /\ imp'.broken = imp.broken
      /\ imp'.cancelled = imp.cancelled
  BY <1>1, <1>2 DEF Import
<1>4. PagesInRange' /\ FetchInBudget'
  BY <1>3 DEF PInv, PagesInRange, FetchInBudget, FetchIsBounded
<1>5. PagesSaved' /\ ProducerDone' /\ ConsumerDone'
  BY <1>3 DEF PagesSaved, ProducerDone, ConsumerDone
<1>6. ChainInHand'
  BY <1>1, <1>2, <1>3 DEF PInv, ChainInHand
<1>7. SuccessPassed'
  <2>1. CASE at = "failed"
    BY <1>3, <2>1, SuccessKept
  <2>2. CASE imp.at = "enqueueing"
    BY <2>2, SuccessKept
  <2>3. CASE at # "failed" /\ imp.at # "enqueueing"
    <3>1. imp.at = "importing" /\ imp.producer = "returned" /\ ~imp.cancelled
      BY <1>2, <2>3 DEF Is
    <3>2. ~imp.broken
      BY <3>1 DEF PInv, ProducerDone
    <3>3. AllPassed
      BY <1>2, <3>1, <3>2 DEF PInv, ConsumerDone
    <3>4. AllPassed'
      BY <3>3, ProgressKeeps DEF PInv
    <3> QED
      BY <3>4 DEF SuccessPassed, AllPassed
  <2> QED
    BY <2>1, <2>2, <2>3
<1> QED
  BY <1>1, <1>3, <1>4, <1>5, <1>6, <1>7 DEF PInv, ImportTypes

\* Another process's step is no business of the importer's chain.
LEMMA OthersRun ==
    ASSUME ChildTypeOK, NEW d \in Daemons,
           \/ RunChain(d) \/ FailChain(d) \/ EndChain(d)
           \/ \E chain \in Chains : StartChain(d, chain, TRUE)
    PROVE  run'[Importer] = run[Importer]
<1>1. Importer \in Processes /\ d # Importer /\ run \in [Processes -> RunState]
  BY FeedFacts DEF Daemons, ChildTypeOK
<1>2. ASSUME NEW s, SetRunAt(d, s) PROVE run'[Importer] = run[Importer]
  BY <1>1, <1>2 DEF SetRunAt
<1>3. CASE EndPass(d)
  BY <1>2, <1>3 DEF EndPass
<1>4. CASE BeginChunk(d)
  <2>1. \E s : SetRunAt(d, s)
    BY <1>4, Zenon DEF BeginChunk
  <2> QED
    BY <1>2, <2>1
<1>5. CASE AcquireLock(d) \/ CommitChunk(d)
  BY <1>2, <1>5 DEF AcquireLock, CommitChunk
<1>6. CASE Drained(d)
  BY <1>2, <1>3, <1>6 DEF Drained
<1>7. CASE RelinkTable(d)
  BY <1>2, <1>3, <1>7 DEF RelinkTable
<1>8. CASE FailChain(d) \/ HaltOnBadRow(d) \/ EndChain(d)
  BY <1>2, <1>8 DEF FailChain, HaltOnBadRow, DropChain, EndChain
<1>9. CASE \E chain \in Chains : StartChain(d, chain, TRUE)
  BY <1>2, <1>9 DEF StartChain
<1> QED
  BY <1>4, <1>5, <1>6, <1>7, <1>8, <1>9 DEF RunChain

\* A step of a daemon, or of none, in the fields of the import that matter.
LEMMA ElsewhereStep ==
    ASSUME PInv, CInv', Progress, UNCHANGED up,
           fetched' \in [Daemons -> Nat], failures' \in 0 .. MaxFailures[up],
           imp' \in Import,
           imp'.at = imp.at, imp'.producer = imp.producer,
           imp'.pageNo = imp.pageNo, imp'.fetch = imp.fetch,
           imp'.closed = imp.closed, imp'.broken = imp.broken,
           imp'.cancelled = imp.cancelled, imp'.consumer = imp.consumer,
           \/ run'[Importer] = run[Importer]
           \/ run'[Importer].at = "failed" /\ run[Importer].at # "off"
    PROVE  PInv'
<1>1. PagesInRange' /\ FetchInBudget' /\ PagesSaved' /\ ProducerDone'
  BY ProducerKept
<1>2. ConsumerDone' /\ ChainInHand' /\ SuccessPassed'
  BY ConsumerKept, LastChainKept DEF PInv
<1> QED
  BY <1>1, <1>2 DEF PInv, ImportTypes

LEMMA DaemonStep ==
    ASSUME PInv, CInv', Progress, UNCHANGED up, NEW d \in Daemons,
           Daemon(d)
    PROVE  PInv'
<1>1. /\ ChildTypeOK /\ imp \in Import /\ failures \in 0 .. MaxFailures[up]
      /\ fetched \in [Daemons -> Nat]
  BY DEF PInv, ImportTypes, CInv
<1>5. CASE DaemonMints(d) \/ SaveFails(d)
  <2>1. UNCHANGED <<imp, fetched, run>> /\ (UNCHANGED failures \/ SomethingFails)
    BY <1>5 DEF DaemonMints, SaveFails, MintIds, DropPage, chainVars
  <2>2. failures' \in 0 .. MaxFailures[up]
    BY <1>1, <2>1, SomethingFailsType DEF PInv
  <2> QED
    BY <1>1, <2>1, <2>2, ElsewhereStep
<1>2. CASE DaemonSaves(d)
  <2>1. UNCHANGED <<imp, failures, run>>
    BY <1>2 DEF DaemonSaves, SavePage, chainVars
  <2>2. fetched' = [fetched EXCEPT ![d] = @ + 1]
    BY <1>2 DEF DaemonSaves
  <2>3. fetched' \in [Daemons -> Nat]
    BY <1>1, <2>2
  <2> QED
    BY <1>1, <2>1, <2>3, ElsewhereStep
<1>3. CASE Tick(d, ChainOf[d])
  <2> DEFINE alone == imp.alone /\ Head(ChainOf[d]) # Property
  <2>1. imp' = [imp EXCEPT !.alone = alone] /\ UNCHANGED <<fetched, failures>>
    BY <1>3 DEF Tick
  <2> HIDE DEF alone
  <2>2. alone \in BOOLEAN
    BY <1>1 DEF alone, Import
  <2>3. /\ imp' \in Import
        /\ imp'.at = imp.at /\ imp'.producer = imp.producer
        /\ imp'.pageNo = imp.pageNo /\ imp'.fetch = imp.fetch
        /\ imp'.closed = imp.closed /\ imp'.broken = imp.broken
        /\ imp'.cancelled = imp.cancelled /\ imp'.consumer = imp.consumer
    BY <1>1, <2>1, <2>2 DEF Import
  <2>4. run'[Importer] = run[Importer]
    BY <1>1, <1>3, ImportAssumption, OthersRun DEF Tick
  <2> QED
    BY <1>1, <2>1, <2>3, <2>4, ElsewhereStep
<1>4. CASE RunDaemon(d)
  <2>1. UNCHANGED <<imp, fetched, failures>> /\ run'[Importer] = run[Importer]
    BY <1>1, <1>4, OthersRun DEF RunDaemon
  <2> QED
    BY <1>1, <2>1, ElsewhereStep
<1> QED
  BY <1>2, <1>3, <1>4, <1>5 DEF Daemon

LEMMA PassFailsStep ==
    ASSUME PInv, CInv', Progress, PassFails, UNCHANGED up
    PROVE  PInv'
<1>1. /\ ChildTypeOK /\ imp \in Import /\ fetched \in [Daemons -> Nat]
      /\ failures' \in 0 .. MaxFailures[up] /\ UNCHANGED <<imp, fetched>>
  BY SomethingFailsType DEF PInv, ImportTypes, CInv, PassFails
<1>2. PICK p \in Processes : FailChain(p)
  BY DEF PassFails
<1>3. \/ run'[Importer] = run[Importer]
      \/ run'[Importer].at = "failed" /\ run[Importer].at # "off"
  <2>1. CASE p = Importer
    BY <1>1, <1>2, <2>1, FeedFacts DEF FailChain, DropChain, SetRunAt, Off, Running,
                                       ChildTypeOK
  <2>2. CASE p # Importer
    BY <1>1, <1>2, <2>2, OthersRun DEF Daemons
  <2> QED
    BY <2>1, <2>2
<1> QED
  BY <1>1, <1>3, ElsewhereStep

----------------------------------------------------------------------------

LEMMA InitPInv == Init => PInv
<1> SUFFICES ASSUME Init PROVE PInv
  OBVIOUS
<1>1. CInv
  BY ChildInitCInv DEF Init
<1>2. 0 \in 0 .. MaxStarts /\ up \in Deployments /\ 0 \in 0 .. MaxFailures[up]
  BY ImportAssumption DEF Init
<1> DEFINE i == [NotStarted EXCEPT !.at = "idle", !.starts = 0]
<1>3. imp = i
  BY DEF Init, NotStarted, Fresh
<1>a. /\ i \in Import /\ i.at = "idle"
      /\ i.producer = "returned" /\ i.pageNo = 1 /\ i.fetch = NewFetch
      /\ i.consumer = "returned"
      /\ ~i.closed /\ ~i.broken /\ ~i.cancelled
  BY <1>2, NotStartedIs
<1> HIDE DEF i
<1>4. /\ imp \in Import /\ imp.at = "idle"
      /\ imp.producer = "returned" /\ imp.pageNo = 1 /\ imp.fetch = NewFetch
      /\ imp.consumer = "returned"
      /\ ~imp.closed /\ ~imp.broken /\ ~imp.cancelled
  BY <1>3, <1>a
<1>5. ImportTypes
  BY <1>2, <1>4 DEF Init, ImportTypes
<1>6. PagesInRange
  BY <1>4, FeedFacts DEF PagesInRange
<1>7. FetchInBudget
  BY <1>4, NewFetchBudget DEF FetchInBudget, FetchIsBounded
<1>8. PagesSaved /\ ProducerDone /\ ConsumerDone /\ SuccessPassed
  BY <1>4 DEF PagesSaved, ProducerDone, ConsumerDone, SuccessPassed
<1>9. ChainInHand
  BY <1>4, FeedFacts DEF Init, ChildInit, Off, ChainInHand
<1> QED
  BY <1>1, <1>5, <1>6, <1>7, <1>8, <1>9 DEF PInv

LEMMA NextPInv ==
    ASSUME PInv, PageInHand, [Next]_vars
    PROVE  PInv' /\ Progress
<1>1. CInv' /\ Progress
  BY StepIsChildStep
<1>2. CASE UNCHANGED vars
  <2>1. /\ UNCHANGED <<imp, fetched, failures, up>>
        /\ run' = run
    BY <1>2 DEF vars, childVars, chainVars
  <2> QED
    BY <1>1, <2>1, ElsewhereStep DEF PInv, ImportTypes
<1>3. CASE Next
  <2>1. UNCHANGED up
    BY <1>3 DEF Next
  <2>2. CASE StartImport
    BY <1>1, <2>1, <2>2, StartImportStep
  <2>3. CASE PageArrives
    BY <1>1, <2>1, <2>3, PageArrivesStep
  <2>4. CASE RequestFails
    BY <1>1, <2>1, <2>4, RequestFailsStep
  <2>5. CASE FetchBreaks \/ SaveBreaks
    BY <1>1, <2>1, <2>5, BreakStep
  <2>18. CASE MintFetched
    <3>1. UNCHANGED <<imp, fetched, failures, run>>
      BY <2>18 DEF MintFetched, MintIds, chainVars
    <3> QED
      BY <1>1, <2>1, <3>1, ElsewhereStep DEF PInv, ImportTypes
  <2>6. CASE SaveFetched
    BY <1>1, <2>1, <2>6, SaveFetchedStep
  <2>7. CASE Signal
    BY <1>1, <2>1, <2>7, SignalStep
  <2>8. CASE CloseSignal
    BY <1>1, <2>1, <2>8, CloseSignalStep
  <2>9. CASE ProducerReturns
    BY <1>1, <2>1, <2>9, ProducerReturnsStep
  <2>10. CASE Wake
    BY <1>1, <2>1, <2>10, WakeStep
  <2>11. CASE LastDrain
    BY <1>1, <2>1, <2>11, LastDrainStep
  <2>12. CASE Drain
    BY <1>1, <2>1, <2>12, DrainStep
  <2>13. CASE ChainReturns
    BY <1>1, <2>1, <2>13, ChainReturnsStep
  <2>14. CASE Join \/ Enqueue
    BY <1>1, <2>1, <2>14, JoinStep
  <2>15. CASE ImportDies
    BY <1>1, <2>1, <2>15, ImportDiesStep
  <2>16. CASE \E d \in Daemons \cap up : Daemon(d)
    <3>1. PICK d \in Daemons : Daemon(d)
      BY <2>16, Zenon
    <3> QED
      BY <1>1, <2>1, <3>1, DaemonStep
  <2>17. CASE PassFails
    BY <1>1, <2>1, <2>17, PassFailsStep
  <2> QED
    BY <1>1, <1>3, <2>2, <2>3, <2>4, <2>5, <2>6, <2>7, <2>8, <2>9, <2>10, <2>11,
       <2>12, <2>13, <2>14, <2>15, <2>16, <2>17, <2>18, Zenon
       DEF Next, Step, Produce, Consume
<1> QED
  BY <1>1, <1>2, <1>3

\* A step that leaves the importer's page, or that drops it.
LEMMA HandKept ==
    ASSUME PInv, PageInHand, Progress,
           \/ minted'[Importer] = {}
           \/ /\ minted'[Importer] = minted[Importer]
              /\ Is("producer", "saving") =>
                    /\ imp'.at = imp.at /\ imp'.producer = imp.producer
                    /\ imp'.pageNo = imp.pageNo
    PROVE  PageInHand'
<1>1. CASE minted'[Importer] = {}
  BY <1>1 DEF PageInHand
<1>2. CASE minted'[Importer] = minted[Importer] /\ minted[Importer] # {}
  <2>1. minted[Importer] \subseteq DOMAIN raw
    BY FeedFacts DEF PInv, CInv, ChildTypeOK
  <2>2. Is("producer", "saving") /\ Is("producer", "saving")'
        /\ imp'.pageNo = imp.pageNo
    BY <1>2 DEF PageInHand, Is
  <2> QED
    BY <1>2, <2>1, <2>2 DEF PageInHand, Progress, RawGrows
<1> QED
  BY <1>1, <1>2

\* What a daemon saves is not the importer's.
LEMMA NotTheImporters ==
    ASSUME PInv, NEW d \in Daemons,
           \/ SavePage(d) \/ DropPage(d) \/ \E page : MintIds(d, page)
    PROVE  minted'[Importer] = minted[Importer]
<1>1. d # Importer /\ minted \in [Processes -> SUBSET DOMAIN raw] /\ Importer \in Processes
  BY FeedFacts DEF Daemons, PInv, CInv, ChildTypeOK
<1> QED
  BY <1>1 DEF SavePage, DropPage, MintIds

LEMMA NextInHand ==
    ASSUME PInv, PageInHand, [Next]_vars
    PROVE  PageInHand'
<1>1. Progress
  BY StepIsChildStep
<1>2. /\ imp \in Import /\ Importer \in Processes
      /\ minted \in [Processes -> SUBSET DOMAIN raw]
  BY FeedFacts DEF PInv, ImportTypes, CInv, ChildTypeOK
<1>3. CASE MintFetched
  <2> DEFINE page == Feed[imp.pageNo]
  <2>1. /\ Is("producer", "saving") /\ MintIds(Importer, page) /\ UNCHANGED imp
    BY <1>3 DEF MintFetched
  <2>2. page \in Seq(Row)
    <3>1. imp.pageNo \in 1 .. LastPage
      BY <1>2, <2>1, FeedFacts DEF PInv, PagesInRange, Import, Is
    <3> QED
      BY <3>1, FeedFacts
  <2> HIDE DEF page
  <2>3. \A m \in DOMAIN page : \E i \in minted'[Importer] : raw'[i] = page[m]
    BY <1>2, <2>1, <2>2, MintedIds DEF PInv, CInv
  <2> QED
    BY <2>1, <2>3 DEF PageInHand, Is, page
<1>4. CASE SaveFetched \/ SaveBreaks \/ ImportDies
  <2>1. minted'[Importer] = {}
    BY <1>2, <1>4 DEF SaveFetched, SaveBreaks, ImportDies, SavePage, DropPage, Die
  <2> QED
    BY <1>1, <2>1, HandKept
<1>5. CASE \/ StartImport \/ PageArrives \/ RequestFails \/ FetchBreaks \/ Signal
           \/ CloseSignal \/ ProducerReturns \/ Join \/ Enqueue
  <2>1. UNCHANGED minted /\ ~Is("producer", "saving")
    BY <1>5 DEF StartImport, PageArrives, RequestFails, FetchBreaks, Signal,
                CloseSignal, ProducerReturns, Join, Enqueue, Is, childVars
  <2> QED
    BY <1>1, <2>1, HandKept
<1>6. CASE Consume \/ PassFails \/ \E d \in Daemons : RunDaemon(d) \/ Tick(d, ChainOf[d])
  <2>1. UNCHANGED minted
    BY <1>6 DEF Consume, Wake, LastDrain, Drain, ChainReturns, PassFails, RunDaemon, Tick,
                RunChain, AcquireLock, BeginChunk, CommitChunk, Drained, RelinkTable,
                HaltOnBadRow, FailChain, StartChain, EndChain
  <2>2. imp'.at = imp.at /\ imp'.producer = imp.producer /\ imp'.pageNo = imp.pageNo
    BY <1>2, <1>6 DEF Consume, Wake, LastDrain, Drain, ChainReturns, PassFails, RunDaemon,
                      Tick, Import
  <2> QED
    BY <1>1, <2>1, <2>2, HandKept
<1>7. CASE \E d \in Daemons : DaemonMints(d) \/ DaemonSaves(d) \/ SaveFails(d)
  <2>1. minted'[Importer] = minted[Importer] /\ UNCHANGED imp
    BY <1>7, NotTheImporters DEF DaemonMints, DaemonSaves, SaveFails
  <2> QED
    BY <1>1, <2>1, HandKept
<1>8. CASE UNCHANGED vars
  BY <1>1, <1>8, HandKept DEF vars, childVars
<1> QED
  BY <1>3, <1>4, <1>5, <1>6, <1>7, <1>8 DEF Next, Step, Produce, Daemon

LEMMA PInvHolds == Spec => [](PInv /\ PageInHand)
<1>1. Init => PInv /\ PageInHand
  <2>1. Init => PageInHand
    BY FeedFacts DEF Init, ChildInit, PageInHand
  <2> QED
    BY <2>1, InitPInv
<1>2. PInv /\ PageInHand /\ [Next]_vars => PInv' /\ PageInHand'
  BY NextPInv, NextInHand
<1> QED
  BY <1>1, <1>2, PTL DEF Spec

(***************************************************************************)
(* Types, also of what the daemons share with the import, and that the     *)
(* budgets of FetchPage are never overdrawn.                               *)
(***************************************************************************)
THEOREM ImportTypeCorrect == Spec => []TypeOK
<1>1. PInv => TypeOK
  BY DEF PInv, CInv, ImportTypes, FetchInBudget, WithinBudget, TypeOK
<1> QED
  BY <1>1, PInvHolds, PTL

(***************************************************************************)
(* For every budget of retries and of consecutive 429s, and every order of *)
(* answers, FetchPage sends at most MostRequests requests for a page.      *)
(***************************************************************************)
THEOREM FetchBounded == Spec => []FetchIsBounded
<1>1. PInv => FetchIsBounded
  BY DEF PInv, FetchInBudget
<1> QED
  BY <1>1, PInvHolds, PTL

(***************************************************************************)
(* For any number of daemons, whatever they save, project, halt at or die  *)
(* of: as long as the pages of a resource are saved one at a time, no      *)
(* cursor passes a row that no pass has projected.                         *)
(***************************************************************************)
THEOREM ImportSkipsNone == Spec => []NoneSkipped
<1>1. Init => InOrder
  BY ChildInitInOrder DEF Init
<1>2. PInv /\ InOrder /\ [Next]_vars => InOrder'
  BY StepIsChildNext, ChildNextInOrder DEF PInv
<1>3. InOrder => NoneSkipped
  BY DEF InOrder
<1> QED
  BY <1>1, <1>2, <1>3, PInvHolds, PTL DEF Spec

(***************************************************************************)
(* For every feed, every chunk size and any number of daemons, an import   *)
(* that comes to its enqueue has saved every row of its feed, and some     *)
(* pass has projected it, if no two processes were saving pages of one     *)
(* resource at once: no signal that was merged with another or was pending *)
(* when the channel was closed, no failed start before and no page of a    *)
(* daemon saved and projected between two of the import's cost a row.      *)
(***************************************************************************)
THEOREM ImportComplete == Spec => []SuccessIsComplete
<1>1. ASSUME NEW row, Passed(row), NoneSkipped, apart
      PROVE  Projected(row)
  BY <1>1 DEF Passed, NoneSkipped, Projected
<1>2. PInv /\ NoneSkipped => SuccessIsComplete
  BY <1>1 DEF PInv, SuccessPassed, AllPassed, SuccessIsComplete
<1> QED
  BY <1>2, PInvHolds, ImportSkipsNone, PTL

(***************************************************************************)
(* The passes and relinks of all processes together do to the links what   *)
(* ParkedLinks allows: every step sets links to listings that exist and    *)
(* that the child has named, and clears none.                              *)
(***************************************************************************)
THEOREM LinksRefine == Spec => ImplementsParkedLinks
<1>1. Init => Links!LinkInit
  <2> SUFFICES ASSUME Init PROVE Links!LinkInit
    OBVIOUS
  <2>1. \A k \in Keys : store[k] = NewKey
    BY DEF Init, ChildInit
  <2>2. ExistingListings = {}
    BY <2>1, ConstantFacts DEF ExistingListings, Exists, NewKey
  <2>3. \A c \in Children : Named(c) = {}
    BY <2>1, ConstantFacts DEF Named, NewKey
  <2> QED
    BY <2>2, <2>3 DEF Links!LinkInit, Init, ChildInit
<1>2. ASSUME PInv, [Next]_vars
      PROVE  [Links!LinkNext]_(Links!linkVars)
  <2>1. CInv' /\ LinksFollow
    BY <1>2, StepIsChildStep DEF Progress
  <2>2. ExistingListings' \in SUBSET Listings
    BY DEF ExistingListings
  <2>3. ASSUME NEW c \in Children PROVE Named(c)' \in SUBSET Listings
    <3>1. store'[c] \in KeyState
      BY <2>1, ConstantFacts DEF CInv, ChildTypeOK
    <3>2. store'[c].vers \in Seq(Version)
      BY <3>1 DEF KeyState
    <3>3. \A i \in DOMAIN store'[c].vers : store'[c].vers[i] \in Version
      BY <3>2
    <3>4. \A i \in DOMAIN store'[c].vers : store'[c].vers[i].val \in Vals
      BY <3>3 DEF Version
    <3> QED
      BY <3>4, ConstantFacts DEF Named
  <2>4. link' \in [Children -> Listings \cup {NoLink}]
    BY <2>1 DEF CInv, ChildTypeOK
  <2>5. Links!RecordsArrive
    BY <2>1, <2>2, <2>3 DEF Links!RecordsArrive, LinksFollow
  <2>6. Links!LinksAreSet
    BY <2>1, <2>4 DEF Links!LinksAreSet, LinksFollow
  <2> QED
    BY <2>5, <2>6 DEF Links!LinkNext
<1> QED
  BY <1>1, <1>2, PInvHolds, PTL DEF Spec, ImplementsParkedLinks, Links!LinkSpec

----------------------------------------------------------------------------
(* No room is left parked *)

\* The chains there are, and what is left of one.
Tails == {PropertyChain, ChildResources, << OpenHouse >>, << >>}

ChainsAreTails ==
    \A p \in Processes : /\ run[p].chain \in Tails
                         /\ run[p].at = "relinking" => Current(p) = Property

NoneParked == \A c \in Children : ResourceOf[c] # OpenHouse => ~Parked(c)

\* A transaction over rooms that has read of the listings and of its links what
\* is still so.
ReadsAreCurrent(s) ==
    /\ s.seen = ExistingListings
    /\ Cardinality(s.rows) = 1 =>
          \A i \in s.rows : link[raw[i].key] = NoLink => s.unlinked

\* The last chain relinks the rooms before it projects any more of them.
LastChainLinks(s) ==
    s.at # "failed" =>
        /\ s.final
        /\ s.chain \in {PropertyChain, ChildResources, << >>}
        /\ s.at = "done" => s.chain = << >>
        /\ s.at = "relinking" =>
              \/ s.tables = Relinked
              \/ s.tables = Tail(Relinked) /\ NoneParked
        /\ s.chain # PropertyChain => NoneParked
        /\ s.at = "writing" /\ s.chain = ChildResources => ReadsAreCurrent(s)

\* As long as no other process runs Property passes.
RoomsInHand ==
    imp.alone /\ imp.at \notin {"idle", "failed"} =>
        /\ PropertyDaemons = {}
        /\ imp.at = "importing" /\ imp.consumer = "finishing" =>
              LastChainLinks(run[Importer])
        /\ \/ imp.at = "importing" /\ imp.consumer = "returned" /\ ~imp.cancelled
           \/ imp.at \in {"enqueueing", "succeeded"}
           => NoneParked

----------------------------------------------------------------------------

RoomsInv == PInv /\ ChainsAreTails /\ RoomsInHand

\* What is unread is a row of the resource.
LEMMA UnreadRows ==
    ASSUME CInv, NEW r, NEW i \in Unread(r)
    PROVE  /\ i \in DOMAIN raw /\ i \in Nat /\ i \in committed
           /\ raw[i] \in Row /\ raw[i].key \in Keys
           /\ ResourceOf[raw[i].key] = r
<1>1. i \in committed /\ ResourceAt(i) = r
  BY DEF Unread
<1> QED
  BY <1>1, CommittedRows DEF CInv, ResourceAt

LEMMA TailsFacts ==
    /\ PropertyChain \in Tails /\ ChildResources \in Tails /\ << >> \in Tails
    /\ Chains \subseteq Tails
    /\ \A chain \in Tails : chain # << >> => Tail(chain) \in Tails
    /\ \A chain \in Tails : chain # << >> /\ Head(chain) = OpenHouse => Tail(chain) = << >>
    /\ \A chain \in Tails : chain # << >> /\ Head(chain) = Property => chain = PropertyChain
    /\ Head(<< OpenHouse >>) = OpenHouse
    /\ Property # OpenHouse /\ "property_rooms" # OpenHouse /\ "property_rooms" # Property
<1>1. Property # OpenHouse /\ "property_rooms" # OpenHouse /\ "property_rooms" # Property
  BY DEF Property, OpenHouse
<1>2. ASSUME NEW a PROVE Head(<< a >>) = a /\ Tail(<< a >>) = << >>
  OBVIOUS
<1>3. /\ Head(<< OpenHouse >>) = OpenHouse /\ Tail(<< OpenHouse >>) = << >>
  BY <1>2
<1>4. Chains = {PropertyChain, << OpenHouse >>}
  BY DEF Chains, PropertyChain
<1> QED
  BY <1>1, <1>3, <1>4, PropertyChainFacts DEF Tails

LEMMA RelinkedTables ==
    /\ Head(Relinked) = "property_rooms"
    /\ Tail(Relinked) = << OpenHouse >> /\ Tail(Relinked) # << >>
    /\ Head(<< OpenHouse >>) = OpenHouse /\ Tail(<< OpenHouse >>) = << >>
<1>1. ASSUME NEW a, NEW b
      PROVE  /\ Head(<< a, b >>) = a /\ Tail(<< a, b >>) = << b >>
             /\ Head(<< b >>) = b /\ Tail(<< b >>) = << >> /\ << b >> # << >>
  OBVIOUS
<1> QED
  BY <1>1 DEF Relinked

----------------------------------------------------------------------------
(* The chain after a step of its process *)

\* Where a chain goes, and what becomes of the lock.
GoesOn(p) ==
    /\ lock' = lock \/ lock' = [lock EXCEPT ![Current(p)] = p]
    /\ run'[p].chain = run[p].chain
    /\ run'[p].at \in {"draining", "writing", "relinking"}
    /\ run'[p].at = "relinking" => run[p].at = "relinking" \/ Current(p) = Property
    /\ run'[p].final = run[p].final

EndsPass(p) ==
    /\ lock' = [lock EXCEPT ![Current(p)] = NoProcess]
    /\ run'[p].chain = Tail(run[p].chain)
    /\ run'[p].at = IF run'[p].chain = << >> THEN "done" ELSE "waiting"
    /\ run'[p].final = run[p].final

Stops(p) ==
    /\ run'[p].chain = << >> /\ run'[p].at \in {"off", "failed"}
    /\ \A r \in Resources : lock'[r] = lock[r] \/ lock'[r] = NoProcess
    /\ \A r \in Resources : lock'[r] = p => run[p].at \notin Holding

LEMMA EndPassEnds ==
    ASSUME CInv, NEW p \in Processes, EndPass(p)
    PROVE  EndsPass(p)
<1>1. run[p] \in RunState
  BY DEF CInv, ChildTypeOK
<1> DEFINE rest == Tail(run[p].chain)
           at == IF rest = << >> THEN "done" ELSE "waiting"
           s == [run[p] EXCEPT !.at = at, !.chain = rest, !.tables = << >>]
<1>2. SetRunAt(p, s)
  BY DEF EndPass
<1>3. run' = [run EXCEPT ![p] = s]
  BY <1>2 DEF SetRunAt
<1> HIDE DEF rest, at
<1>4. s.chain = rest /\ s.at = at /\ s.final = run[p].final
  BY <1>1 DEF RunState
<1> HIDE DEF s
<1>5. run'[p] = s
  BY <1>3 DEF CInv, ChildTypeOK
<1>6. lock' = [lock EXCEPT ![Current(p)] = NoProcess]
  BY DEF EndPass
<1> QED
  BY <1>4, <1>5, <1>6 DEF EndsPass, rest, at

LEMMA ChainMoves ==
    ASSUME CInv, NEW p \in Processes, RunChain(p)
    PROVE  /\ run[p].at \in Busy /\ run[p].chain # << >>
           /\ \/ GoesOn(p) \/ EndsPass(p)
              \/ Stops(p) /\ run'[p].at = "failed"
           /\ \A q \in Processes \ {p} : run'[q] = run[q]
<1>1. run \in [Processes -> RunState] /\ run[p] \in RunState
  BY DEF CInv, ChildTypeOK
<1>2. run[p].at \in Busy
  BY DEF RunChain, AcquireLock, BeginChunk, CommitChunk, Drained, RelinkTable,
         HaltOnBadRow, Busy
<1>3. run[p].chain # << >>
  BY <1>2 DEF CInv, ChainsMakeSense, ChainMakesSense
<1>a. ASSUME NEW s, SetRunAt(p, s)
      PROVE  run'[p] = s /\ \A q \in Processes \ {p} : run'[q] = run[q]
  BY <1>1, <1>a DEF SetRunAt
<1>4. CASE AcquireLock(p)
  <2>1. SetRunAt(p, [run[p] EXCEPT !.at = "draining"])
    BY <1>4 DEF AcquireLock
  <2>2. run'[p] = [run[p] EXCEPT !.at = "draining"]
    BY <1>a, <2>1
  <2>3. GoesOn(p)
    BY <1>1, <1>4, <2>2 DEF GoesOn, RunState, AcquireLock
  <2> QED
    BY <1>2, <1>3, <1>a, <2>1, <2>3
<1>5. CASE BeginChunk(p)
  <2>1. PICK rows \in SUBSET Unread(Current(p)) :
           SetRunAt(p, [run[p] EXCEPT
               !.at = "writing",
               !.rows = rows,
               !.seen = IF Current(p) = Property THEN {} ELSE ExistingListings,
               !.unlinked = /\ Cardinality(rows) = 1
                            /\ \E i \in rows : /\ raw[i].key \in Children
                                               /\ link[raw[i].key] = NoLink])
    BY <1>5, Zenon DEF BeginChunk
  <2> DEFINE seen == IF Current(p) = Property THEN {} ELSE ExistingListings
             unlinked == /\ Cardinality(rows) = 1
                         /\ \E i \in rows : /\ raw[i].key \in Children
                                            /\ link[raw[i].key] = NoLink
             s == [run[p] EXCEPT !.at = "writing", !.rows = rows,
                                 !.seen = seen, !.unlinked = unlinked]
  <2>2. SetRunAt(p, s)
    BY <2>1
  <2> HIDE DEF seen, unlinked
  <2>3. s.at = "writing" /\ s.chain = run[p].chain /\ s.final = run[p].final
    BY <1>1 DEF RunState
  <2> HIDE DEF s
  <2>4. run'[p] = s /\ \A q \in Processes \ {p} : run'[q] = run[q]
    BY <1>a, <2>2
  <2>5. lock' = lock
    BY <1>5 DEF BeginChunk
  <2>6. GoesOn(p)
    BY <2>3, <2>4, <2>5 DEF GoesOn
  <2> QED
    BY <1>2, <1>3, <2>4, <2>6
<1>6. CASE CommitChunk(p)
  <2> DEFINE s == [run[p] EXCEPT !.at = "draining", !.rows = {}, !.seen = {},
                                 !.unlinked = FALSE]
  <2>1. SetRunAt(p, s) /\ lock' = lock
    BY <1>6 DEF CommitChunk
  <2>2. run'[p] = s /\ \A q \in Processes \ {p} : run'[q] = run[q]
    BY <1>a, <2>1
  <2>3. GoesOn(p)
    BY <1>1, <2>1, <2>2 DEF GoesOn, RunState
  <2> QED
    BY <1>2, <1>3, <2>2, <2>3
<1>7. CASE EndPass(p)
  <2>1. EndsPass(p)
    BY <1>7, EndPassEnds
  <2>2. \A q \in Processes \ {p} : run'[q] = run[q]
    BY <1>7, <1>a DEF EndPass
  <2> QED
    BY <1>2, <1>3, <2>1, <2>2
<1>8. CASE Drained(p) /\ Finalizes(p)
  <2> DEFINE s == [run[p] EXCEPT !.at = "relinking", !.tables = Relinked]
  <2>1. SetRunAt(p, s) /\ Current(p) = Property /\ lock' = lock
    BY <1>8 DEF Drained, Finalizes
  <2>2. run'[p] = s /\ \A q \in Processes \ {p} : run'[q] = run[q]
    BY <1>a, <2>1
  <2>3. GoesOn(p)
    BY <1>1, <2>1, <2>2 DEF GoesOn, RunState
  <2> QED
    BY <1>2, <1>3, <2>2, <2>3
<1>9. CASE RelinkTable(p) /\ Tail(run[p].tables) # << >>
  <2> DEFINE s == [run[p] EXCEPT !.tables = Tail(@)]
  <2>1. SetRunAt(p, s) /\ run[p].at = "relinking" /\ lock' = lock
    BY <1>9 DEF RelinkTable
  <2>2. run'[p] = s /\ \A q \in Processes \ {p} : run'[q] = run[q]
    BY <1>a, <2>1
  <2>3. GoesOn(p)
    BY <1>1, <2>1, <2>2 DEF GoesOn, RunState
  <2> QED
    BY <1>2, <1>3, <2>2, <2>3
<1>10. CASE HaltOnBadRow(p)
  <2> DEFINE s == [Off EXCEPT !.at = "failed"]
  <2>1. /\ SetRunAt(p, s)
        /\ lock' = [r \in Resources |-> IF lock[r] = p THEN NoProcess ELSE lock[r]]
    BY <1>10 DEF HaltOnBadRow, FailChain, DropChain
  <2>2. run'[p] = s /\ \A q \in Processes \ {p} : run'[q] = run[q]
    BY <1>a, <2>1
  <2>3. Stops(p) /\ run'[p].at = "failed"
    BY <2>1, <2>2, LinkAssumption DEF Stops, Off
  <2> QED
    BY <1>2, <1>3, <2>2, <2>3
<1> QED
  BY <1>4, <1>5, <1>6, <1>7, <1>8, <1>9, <1>10 DEF RunChain, Drained, RelinkTable

LEMMA ChainStops ==
    ASSUME CInv, NEW p \in Processes, FailChain(p) \/ Die(p) \/ EndChain(p)
    PROVE  Stops(p) /\ \A q \in Processes \ {p} : run'[q] = run[q]
<1>1. run \in [Processes -> RunState]
  BY DEF CInv, ChildTypeOK
<1>2. PICK at \in {"off", "failed"} : SetRunAt(p, [Off EXCEPT !.at = at])
  <2>1. CASE EndChain(p)
    <3>1. Off = [Off EXCEPT !.at = "off"]
      BY DEF Off
    <3> QED
      BY <2>1, <3>1, Zenon DEF EndChain
  <2> QED
    BY <2>1 DEF FailChain, Die, DropChain
<1>3. run'[p] = [Off EXCEPT !.at = at]
  BY <1>1, <1>2 DEF SetRunAt
<1>4. /\ \A r \in Resources : lock'[r] = lock[r] \/ lock'[r] = NoProcess
      /\ \A r \in Resources : lock'[r] = p => run[p].at \notin Holding
  <2>1. CASE EndChain(p)
    BY <2>1 DEF EndChain, Holding
  <2>2. CASE FailChain(p) \/ Die(p)
    <3>1. lock' = [r \in Resources |-> IF lock[r] = p THEN NoProcess ELSE lock[r]]
      BY <2>2 DEF FailChain, Die, DropChain
    <3> QED
      BY <3>1, LinkAssumption
  <2> QED
    BY <2>1, <2>2
<1>5. Stops(p)
  BY <1>3, <1>4 DEF Stops, Off
<1> QED
  BY <1>1, <1>2, <1>5 DEF SetRunAt

LEMMA ChainStarts ==
    ASSUME CInv, NEW p \in Processes, NEW chain \in Chains, NEW final \in BOOLEAN,
           StartChain(p, chain, final)
    PROVE  /\ run'[p].chain = chain /\ run'[p].at = "waiting" /\ run'[p].final = final
           /\ \A q \in Processes \ {p} : run'[q] = run[q]
           /\ UNCHANGED <<raw, committed, store, link, lock>> /\ run[p].at = "off"
  BY DEF CInv, ChildTypeOK, StartChain, SetRunAt, Off

----------------------------------------------------------------------------
(* Chains stay tails of chains *)

LEMMA OneMovesTails ==
    ASSUME ChainsAreTails, NEW p \in Processes,
           \A q \in Processes \ {p} : run'[q] = run[q],
           run'[p].chain \in Tails,
           run'[p].at = "relinking" => Head(run'[p].chain) = Property
    PROVE  ChainsAreTails'
  BY DEF ChainsAreTails, Current

\* A step by which a process's chain starts, goes on or ends.
Moves(p) ==
    \/ RunChain(p) \/ FailChain(p) \/ Die(p) \/ EndChain(p)
    \/ \E chain \in Chains, final \in BOOLEAN : StartChain(p, chain, final)

LEMMA MovesTails ==
    ASSUME CInv, ChainsAreTails, NEW p \in Processes, Moves(p)
    PROVE  ChainsAreTails'
<1>1. /\ run[p].chain \in Tails
      /\ run[p].at = "relinking" => Head(run[p].chain) = Property
  BY DEF ChainsAreTails, Current
<1>2. CASE RunChain(p)
  <2>1. /\ run[p].chain # << >> /\ (GoesOn(p) \/ EndsPass(p) \/ Stops(p))
        /\ \A q \in Processes \ {p} : run'[q] = run[q]
    BY <1>2, ChainMoves
  <2>2. run'[p].chain \in Tails
    BY <1>1, <2>1, TailsFacts DEF GoesOn, EndsPass, Stops
  <2>3. run'[p].at = "relinking" => Head(run'[p].chain) = Property
    BY <1>1, <2>1 DEF GoesOn, EndsPass, Stops, Current
  <2> QED
    BY <2>1, <2>2, <2>3, OneMovesTails
<1>3. CASE FailChain(p) \/ Die(p) \/ EndChain(p)
  <2>1. Stops(p) /\ \A q \in Processes \ {p} : run'[q] = run[q]
    BY <1>3, ChainStops
  <2> QED
    BY <2>1, TailsFacts, OneMovesTails DEF Stops
<1>4. CASE \E chain \in Chains, final \in BOOLEAN : StartChain(p, chain, final)
  BY <1>4, ChainStarts, TailsFacts, OneMovesTails
<1> QED
  BY <1>2, <1>3, <1>4 DEF Moves

----------------------------------------------------------------------------
(* Steps that leave listings and rooms alone *)

RoomsQuiet ==
    /\ RawGrows
    /\ \A k \in Keys : ResourceOf[k] # OpenHouse => store'[k] = store[k]
    /\ \A c \in Children : ResourceOf[c] # OpenHouse => link'[c] = link[c]

LEMMA QuietIsQuiet ==
    ASSUME CInv, RawGrows, UNCHANGED <<store, link>>
    PROVE  RoomsQuiet
  BY DEF RoomsQuiet

LEMMA QuietListings ==
    ASSUME RoomsQuiet
    PROVE  ExistingListings' = ExistingListings
<1>1. \A l \in Listings : l \in Keys /\ ResourceOf[l] # OpenHouse
  BY LinkAssumption, TailsFacts
<1>2. \A l \in Listings : store'[l] = store[l]
  BY <1>1 DEF RoomsQuiet
<1> QED
  BY <1>2 DEF ExistingListings

LEMMA QuietRooms ==
    ASSUME RoomsQuiet, NoneParked
    PROVE  NoneParked'
<1>1. ASSUME NEW c \in Children, ResourceOf[c] # OpenHouse
      PROVE  ~Parked(c)'
  <2>1. store'[c] = store[c] /\ link'[c] = link[c]
    BY <1>1, ConstantFacts DEF RoomsQuiet
  <2>2. ~Parked(c)
    BY <1>1 DEF NoneParked
  <2> QED
    BY <2>1, <2>2, QuietListings DEF Parked
<1> QED
  BY <1>1 DEF NoneParked

LEMMA QuietLastChain ==
    ASSUME CInv, RoomsQuiet, LastChainLinks(run[Importer]),
           run'[Importer] = run[Importer]
    PROVE  LastChainLinks(run[Importer])'
<1> DEFINE s == run[Importer]
<1>1. ASSUME s.at = "writing", s.chain = ChildResources, ReadsAreCurrent(s)
      PROVE  ReadsAreCurrent(run[Importer])'
  <2>1. s.rows \subseteq Unread("property_rooms")
    BY <1>1, FeedFacts, PropertyChainFacts
       DEF CInv, ChainsMakeSense, ChainMakesSense, Current
  <2>2. ASSUME NEW i \in s.rows
        PROVE  raw'[i] = raw[i] /\ link'[raw[i].key] = link[raw[i].key]
    <3>1. /\ i \in DOMAIN raw /\ raw[i].key \in Keys
          /\ ResourceOf[raw[i].key] = "property_rooms"
      BY <2>1, UnreadRows
    <3>2. raw[i].key \in Children
      BY <3>1, LinkAssumption, TailsFacts DEF Children
    <3> QED
      BY <3>1, <3>2, TailsFacts DEF RoomsQuiet, RawGrows
  <2> QED
    BY <1>1, <2>2, QuietListings DEF ReadsAreCurrent
<1>2. NoneParked => NoneParked'
  BY QuietRooms
<1> QED
  BY <1>1, <1>2 DEF LastChainLinks

\* A process that runs no Property pass leaves listings and rooms alone.
LEMMA OpenHousesAreQuiet ==
    ASSUME CInv, ChainsAreTails, NEW p \in Processes, RunChain(p),
           Current(p) = OpenHouse
    PROVE  RoomsQuiet /\ run'[p].chain \in {run[p].chain, << >>}
<1>1. run[p].chain # << >> /\ run[p].chain \in Tails
  BY ChainMoves DEF ChainsAreTails
<1>2. Tail(run[p].chain) = << >>
  BY <1>1, TailsFacts DEF Current
<1>3. run'[p].chain \in {run[p].chain, << >>}
  BY <1>2, ChainMoves DEF GoesOn, EndsPass, Stops
<1>4. RawGrows
  BY RunChainStep DEF Progress
<1>5. ~RelinkTable(p)
  BY TailsFacts DEF RelinkTable, ChainsAreTails
<1>6. CASE CommitChunk(p)
  <2>1. run[p].rows \subseteq Unread(OpenHouse)
    BY <1>6 DEF CommitChunk, CInv, ChainsMakeSense, ChainMakesSense
  <2>2. \A k \in Touched(run[p].rows) : ResourceOf[k] = OpenHouse
    BY <2>1, UnreadRows DEF Touched
  <2>3. /\ store' = [k \in Keys |->
              IF k \in Touched(run[p].rows)
              THEN Process(store[k], raw[RowFor(k, run[p].rows)], RowFor(k, run[p].rows))
              ELSE store[k]]
        /\ link' = [c \in Children |->
              IF c \in Touched(run[p].rows)
              THEN WrittenLink(c, raw[RowFor(c, run[p].rows)], run[p])
              ELSE link[c]]
    BY <1>6 DEF CommitChunk
  <2>4. \A k \in Keys : ResourceOf[k] # OpenHouse => store'[k] = store[k]
    BY <2>2, <2>3
  <2>5. \A c \in Children : ResourceOf[c] # OpenHouse => link'[c] = link[c]
    BY <2>2, <2>3
  <2> QED
    BY <1>3, <1>4, <2>4, <2>5 DEF RoomsQuiet
<1>7. CASE ~CommitChunk(p)
  <2>1. UNCHANGED <<store, link>>
    BY <1>5, <1>7 DEF RunChain, AcquireLock, BeginChunk, Drained, HaltOnBadRow,
                      FailChain, DropChain
  <2> QED
    BY <1>3, <1>4, <2>1, QuietIsQuiet
<1> QED
  BY <1>6, <1>7

----------------------------------------------------------------------------
(* The last chain *)

\* After the statement for rooms none is parked.
LEMMA RelinkUnparks ==
    ASSUME CInv, UNCHANGED store,
           link' = [c \in Children |-> Relink(c, "property_rooms")]
    PROVE  NoneParked'
<1>1. ASSUME NEW c \in Children, ResourceOf[c] # OpenHouse, Parked(c)'
      PROVE  FALSE
  <2>1. ResourceOf[c] = "property_rooms"
    BY <1>1, ConstantFacts, LinkAssumption DEF Children, Resources
  <2>2. /\ Exists(store[c]) /\ link'[c] = NoLink
        /\ ListingOf[store[c].ent.val] \in ExistingListings
    BY <1>1 DEF Parked, ExistingListings
  <2>3. link'[c] = Relink(c, "property_rooms")
    OBVIOUS
  <2>4. CASE link[c] = NoLink
    <3>1. link'[c] \in ExistingListings
      BY <2>1, <2>2, <2>3, <2>4 DEF Relink
    <3> QED
      BY <2>2, <3>1, ConstantFacts DEF ExistingListings
  <2>5. CASE link[c] # NoLink
    BY <2>2, <2>3, <2>5 DEF Relink
  <2> QED
    BY <2>4, <2>5
<1> QED
  BY <1>1 DEF NoneParked

\* The statement for open houses is none of the rooms' business.
LEMMA RelinkOthers ==
    ASSUME CInv, UNCHANGED <<raw, committed, store>>,
           link' = [c \in Children |-> Relink(c, OpenHouse)]
    PROVE  RoomsQuiet
<1>1. \A c \in Children : ResourceOf[c] # OpenHouse => link'[c] = link[c]
  BY DEF Relink
<1>2. RawGrows
  BY DEF RawGrows, CInv, ChildTypeOK
<1> QED
  BY <1>1, <1>2 DEF RoomsQuiet

\* What one row makes of its entity.
LEMMA ShowsRow ==
    ASSUME NEW ks \in KeyState, NEW row \in Row, NEW id \in Nat
    PROVE  LET new == Process(ks, row, id)
           IN  \/ /\ PlanFor(ks, row) \in Skips
                  /\ new = ks
               \/ /\ PlanFor(ks, row) = "Delete"
                  /\ Exists(ks) /\ new.ent.val = ks.ent.val
               \/ /\ PlanFor(ks, row) \in {"Insert", "DeleteFirstSighting", "Update"}
                  /\ new.ent.val = row.val
<1> DEFINE cv == IF Exists(ks) THEN LookupCurrentVersion(ks) ELSE 0
           plan == PlanFor(ks, row)
           new == Process(ks, row, id)
<1>1. new = ApplyPlan(ks, cv, row, id, plan)
  BY DEF Process, PlanFor
<1>2. CASE plan \in Skips
  BY <1>1, <1>2 DEF ApplyPlan
<1>3. CASE plan \notin Skips
  <2>1. new.ent = WriteEntity(ks, row, plan, Len(ks.vers) + 1)
    BY <1>1, <1>3 DEF ApplyPlan
  <2>2. CASE plan = "Delete"
    <3>1. new.ent.val = ks.ent.val
      BY <2>1, <2>2 DEF WriteEntity, KeyState, Entity
    <3>2. Exists(ks)
      BY <2>2, DecideNames DEF PlanFor
    <3> QED
      BY <2>2, <3>1, <3>2
  <2>3. CASE plan # "Delete"
    <3>1. new.ent.val = row.val
      BY <2>1, <2>3 DEF WriteEntity
    <3>2. plan \in Plans
      BY DecideIsPlan DEF PlanFor
    <3> QED
      BY <1>3, <2>3, <3>1, <3>2 DEF Plans, Skips
  <2> QED
    BY <2>2, <2>3
<1> QED
  BY <1>2, <1>3

\* A row whose transaction has seen the listings there are, and its own link,
\* leaves no room parked that was not.
LEMMA WrittenUnparked ==
    ASSUME CInv, NEW c \in Children, NEW row \in Row, NEW id \in Nat, NEW t,
           t.seen = ExistingListings,
           Cardinality(t.rows) = 1 /\ link[c] = NoLink => t.unlinked,
           ~Parked(c)
    PROVE  LET new == Process(store[c], row, id)
               l == WrittenLink(c, row, t)
           IN  ~(Exists(new) /\ l = NoLink /\ ListingOf[new.ent.val] \in ExistingListings)
<1> DEFINE new == Process(store[c], row, id)
           l == WrittenLink(c, row, t)
           plan == PlanFor(store[c], row)
           fk == ParentFK(row, t.seen)
<1>1. store[c] \in KeyState
  BY ConstantFacts DEF CInv, ChildTypeOK
<1>2. NoLink \notin ExistingListings
  BY ConstantFacts DEF ExistingListings
<1> SUFFICES ASSUME Exists(new), l = NoLink, ListingOf[new.ent.val] \in ExistingListings
             PROVE  FALSE
  BY Zenon
<1>3. CASE plan \in Skips
  <2>1. new = store[c] /\ l = link[c]
    BY <1>1, <1>3, ShowsRow DEF WrittenLink, Skips
  <2> QED
    BY <2>1 DEF Parked
<1>4. CASE plan = "Delete"
  <2>1. Exists(store[c]) /\ new.ent.val = store[c].ent.val /\ l = link[c]
    BY <1>1, <1>4, ShowsRow DEF WrittenLink, Skips
  <2> QED
    BY <2>1 DEF Parked
<1>5. CASE plan \in {"Insert", "DeleteFirstSighting", "Update"}
  <2>1. new.ent.val = row.val
    BY <1>1, <1>5, ShowsRow DEF Skips
  <2>2. fk \in ExistingListings /\ fk # NoLink
    BY <1>2, <2>1 DEF ParentFK
  <2>3. CASE plan # "Update"
    BY <1>5, <2>2, <2>3 DEF WrittenLink
  <2>4. CASE plan = "Update"
    <3>1. l = UpdatedLink(c, fk, t)
      BY <2>4 DEF WrittenLink
    <3>2. UpdatedLink(c, fk, t) # NoLink
      BY <2>2 DEF UpdatedLink
    <3> QED
      BY <3>1, <3>2
  <2> QED
    BY <2>3, <2>4
<1>6. plan \in Skips \cup {"Delete", "Insert", "DeleteFirstSighting", "Update"}
  BY <1>1, ShowsRow
<1> QED
  BY <1>3, <1>4, <1>5, <1>6

\* A transaction over rooms that reads what is so parks none.
LEMMA CommitUnparked ==
    ASSUME CInv, NEW p \in Processes, CommitChunk(p), Current(p) = "property_rooms",
           NoneParked, ReadsAreCurrent(run[p])
    PROVE  NoneParked'
<1> DEFINE t == run[p]
           rows == t.rows
<1>1. rows \subseteq Unread("property_rooms")
  BY DEF CommitChunk, CInv, ChainsMakeSense, ChainMakesSense
<1>2. /\ store' = [k \in Keys |->
            IF k \in Touched(rows)
            THEN Process(store[k], raw[RowFor(k, rows)], RowFor(k, rows))
            ELSE store[k]]
      /\ link' = [c \in Children |->
            IF c \in Touched(rows)
            THEN WrittenLink(c, raw[RowFor(c, rows)], t)
            ELSE link[c]]
  BY DEF CommitChunk
<1>3. t.seen = ExistingListings
      /\ (Cardinality(rows) = 1 =>
            \A i \in rows : link[raw[i].key] = NoLink => t.unlinked)
  BY DEF ReadsAreCurrent
<1> HIDE DEF t, rows
<1>4. \A k \in Touched(rows) : ResourceOf[k] = "property_rooms"
  BY <1>1, UnreadRows DEF Touched
<1>5. ExistingListings' = ExistingListings
  <2>1. \A l \in Listings : l \in Keys /\ l \notin Touched(rows)
    BY <1>4, LinkAssumption, TailsFacts
  <2>2. \A l \in Listings : store'[l] = store[l]
    BY <1>2, <2>1
  <2> QED
    BY <2>2 DEF ExistingListings
<1>6. ASSUME NEW c \in Children, ResourceOf[c] # OpenHouse
      PROVE  ~Parked(c)'
  <2>1. c \in Keys /\ ~Parked(c)
    BY <1>6, ConstantFacts DEF NoneParked
  <2>2. CASE c \notin Touched(rows)
    <3>1. store'[c] = store[c] /\ link'[c] = link[c]
      BY <1>2, <2>1, <2>2
    <3> QED
      BY <1>5, <2>1, <3>1 DEF Parked
  <2>3. CASE c \in Touched(rows)
    <3>1. PICK i : i = RowFor(c, rows)
      OBVIOUS
    <3>2. i \in rows /\ raw[i].key = c
      BY <2>3, <3>1 DEF RowFor, Touched
    <3>3. i \in Nat /\ raw[i] \in Row
      BY <1>1, <3>2, UnreadRows
    <3>4. store'[c] = Process(store[c], raw[i], i) /\ link'[c] = WrittenLink(c, raw[i], t)
      BY <1>2, <2>1, <2>3, <3>1
    <3>5. Cardinality(t.rows) = 1 /\ link[c] = NoLink => t.unlinked
      BY <1>3, <3>2 DEF rows
    <3>6. ~(/\ Exists(Process(store[c], raw[i], i)) /\ WrittenLink(c, raw[i], t) = NoLink
            /\ ListingOf[Process(store[c], raw[i], i).ent.val] \in ExistingListings)
      BY <1>3, <2>1, <3>3, <3>5, WrittenUnparked
    <3> QED
      BY <1>5, <3>4, <3>6 DEF Parked
  <2> QED
    BY <2>2, <2>3
<1> QED
  BY <1>6 DEF NoneParked

\* What a transaction of the last chain reads.
LEMMA ReadsRooms ==
    ASSUME CInv, BeginChunk(Importer), Current(Importer) = "property_rooms"
    PROVE  /\ ReadsAreCurrent(run[Importer])'
           /\ run'[Importer].chain = run[Importer].chain
           /\ run'[Importer].final = run[Importer].final
           /\ run'[Importer].at = "writing"
<1>1. /\ Importer \in Processes /\ run[Importer] \in RunState
      /\ run \in [Processes -> RunState]
  BY FeedFacts DEF CInv, ChildTypeOK
<1>2. PICK rows \in SUBSET Unread(Current(Importer)) :
         SetRunAt(Importer, [run[Importer] EXCEPT
             !.at = "writing",
             !.rows = rows,
             !.seen = IF Current(Importer) = Property THEN {} ELSE ExistingListings,
             !.unlinked = /\ Cardinality(rows) = 1
                          /\ \E i \in rows : /\ raw[i].key \in Children
                                             /\ link[raw[i].key] = NoLink])
  BY Zenon DEF BeginChunk
<1> DEFINE unlinked == /\ Cardinality(rows) = 1
                       /\ \E i \in rows : /\ raw[i].key \in Children
                                          /\ link[raw[i].key] = NoLink
           seen == ExistingListings
           s == [run[Importer] EXCEPT !.at = "writing", !.rows = rows,
                                      !.seen = seen, !.unlinked = unlinked]
<1>3. Current(Importer) # Property
  BY TailsFacts
<1>4. SetRunAt(Importer, s)
  BY <1>2, <1>3
<1>5. Cardinality(rows) = 1 =>
         \A i \in rows : link[raw[i].key] = NoLink => unlinked
  <2>1. ASSUME NEW i \in rows PROVE raw[i].key \in Children
    <3>1. raw[i].key \in Keys /\ ResourceOf[raw[i].key] = "property_rooms"
      BY <1>2, UnreadRows
    <3> QED
      BY <3>1, LinkAssumption, TailsFacts DEF Children
  <2> QED
    BY <2>1
<1> HIDE DEF unlinked, seen
<1>6. /\ s.chain = run[Importer].chain /\ s.final = run[Importer].final
      /\ s.at = "writing" /\ s.rows = rows /\ s.seen = seen /\ s.unlinked = unlinked
  BY <1>1 DEF RunState
<1> HIDE DEF s
<1>7. run'[Importer] = s
  BY <1>1, <1>4 DEF SetRunAt
<1>8. UNCHANGED <<raw, committed, store, link>>
  BY DEF BeginChunk
<1>9. ExistingListings' = seen
  BY <1>8 DEF ExistingListings, seen
<1>10. ReadsAreCurrent(run[Importer])'
  BY <1>5, <1>6, <1>7, <1>8, <1>9 DEF ReadsAreCurrent
<1> QED
  BY <1>6, <1>7, <1>10

LEMMA SameTables ==
    ASSUME UNCHANGED <<store, link>>, NoneParked
    PROVE  NoneParked'
  BY DEF NoneParked, Parked, ExistingListings

LEMMA LastChainLinksRuns ==
    ASSUME CInv, ChainsAreTails, LastChainLinks(run[Importer]), RunChain(Importer)
    PROVE  LastChainLinks(run[Importer])'
<1> DEFINE s == run[Importer]
           t == run'[Importer]
<1>1. Importer \in Processes /\ s \in RunState /\ run \in [Processes -> RunState]
  BY FeedFacts DEF CInv, ChildTypeOK
<1>2. /\ s.at \in Busy /\ s.chain # << >>
      /\ GoesOn(Importer) \/ EndsPass(Importer) \/ Stops(Importer)
  BY <1>1, ChainMoves
<1>3. /\ s.final /\ s.chain \in {PropertyChain, ChildResources}
      /\ s.chain # PropertyChain => NoneParked
  BY <1>2 DEF LastChainLinks, Busy
<1>4. s.chain = PropertyChain <=> Current(Importer) = Property
  BY <1>3, PropertyChainFacts, TailsFacts DEF Current
<1>5. s.chain = ChildResources => Current(Importer) = "property_rooms"
  BY PropertyChainFacts DEF Current
<1>6. CASE AcquireLock(Importer)
  <2>1. t.at = "draining" /\ t.chain = s.chain /\ t.final = s.final
    BY <1>1, <1>6 DEF AcquireLock, SetRunAt, RunState
  <2>2. NoneParked => NoneParked'
    BY <1>6, SameTables DEF AcquireLock
  <2> QED
    BY <1>3, <2>1, <2>2 DEF LastChainLinks
<1>7. CASE BeginChunk(Importer)
  <2>1. NoneParked => NoneParked'
    BY <1>7, SameTables DEF BeginChunk
  <2>2. CASE s.chain = PropertyChain
    <3>1. t.chain = s.chain /\ t.at \in {"draining", "writing"} /\ t.final = s.final
      BY <1>2, <1>7, SameChain, <2>2, PropertyChainFacts DEF GoesOn, EndsPass, Stops
    <3> QED
      BY <1>3, <2>1, <2>2, <3>1, PropertyChainFacts DEF LastChainLinks
  <2>3. CASE s.chain = ChildResources
    <3>1. ReadsAreCurrent(run[Importer])' /\ t.chain = s.chain
          /\ t.final = s.final /\ t.at = "writing"
      BY <1>5, <1>7, <2>3, ReadsRooms
    <3> QED
      BY <1>3, <2>1, <2>3, <3>1, PropertyChainFacts DEF LastChainLinks
  <2> QED
    BY <1>3, <2>2, <2>3
<1>8. CASE CommitChunk(Importer)
  <2>1. t.at = "draining" /\ t.chain = s.chain /\ t.final = s.final
    BY <1>1, <1>8 DEF CommitChunk, SetRunAt, RunState
  <2>2. CASE s.chain = PropertyChain
    BY <1>3, <2>1, <2>2 DEF LastChainLinks
  <2>3. CASE s.chain = ChildResources
    <3>1. NoneParked /\ ReadsAreCurrent(s)
      BY <1>3, <1>8, <2>3, PropertyChainFacts DEF LastChainLinks, CommitChunk
    <3>2. NoneParked'
      BY <1>1, <1>5, <1>8, <2>3, <3>1, CommitUnparked
    <3> QED
      BY <1>3, <2>1, <2>3, <3>2 DEF LastChainLinks
  <2> QED
    BY <1>3, <2>2, <2>3
<1>9. CASE Drained(Importer)
  <2>1. NoneParked => NoneParked'
    BY <1>9, SameTables DEF Drained
  <2>2. CASE s.chain = PropertyChain
    <3>1. t = [s EXCEPT !.at = "relinking", !.tables = Relinked]
      BY <1>1, <1>3, <1>4, <1>9, <2>2 DEF Drained, Finalizes, SetRunAt
    <3>2. t.at = "relinking" /\ t.tables = Relinked /\ t.chain = s.chain /\ t.final = s.final
      BY <1>1, <3>1 DEF RunState
    <3> QED
      BY <1>3, <2>2, <3>2 DEF LastChainLinks
  <2>3. CASE s.chain = ChildResources
    <3>1. EndPass(Importer)
      BY <1>4, <1>9, <2>3, PropertyChainFacts DEF Drained, Finalizes
    <3>2. EndsPass(Importer)
      BY <1>1, <3>1, EndPassEnds
    <3>3. t.chain = << >> /\ t.at = "done" /\ t.final = s.final
      BY <2>3, <3>2, PropertyChainFacts DEF EndsPass
    <3> QED
      BY <1>3, <2>1, <2>3, <3>3, PropertyChainFacts DEF LastChainLinks
  <2> QED
    BY <1>3, <2>2, <2>3
<1>10. CASE RelinkTable(Importer)
  <2>1. /\ s.at = "relinking" /\ UNCHANGED <<raw, committed, store, cursor>>
        /\ link' = [c \in Children |-> Relink(c, Head(s.tables))]
    BY <1>10 DEF RelinkTable
  <2>2. s.chain = PropertyChain
    BY <1>1, <1>4, <2>1 DEF ChainsAreTails
  <2>3. CASE s.tables = Relinked
    <3>1. t = [s EXCEPT !.tables = Tail(@)]
      BY <1>1, <1>10, <2>3, RelinkedTables DEF RelinkTable, SetRunAt
    <3>2. t.at = "relinking" /\ t.tables = Tail(Relinked) /\ t.chain = s.chain /\ t.final = s.final
      BY <1>1, <2>1, <2>3, <3>1 DEF RunState
    <3>3. NoneParked'
      BY <2>1, <2>3, RelinkedTables, RelinkUnparks
    <3> QED
      BY <1>3, <2>2, <3>2, <3>3 DEF LastChainLinks
  <2>4. CASE s.tables = Tail(Relinked) /\ NoneParked
    <3>1. EndPass(Importer)
      BY <1>10, <2>4, RelinkedTables DEF RelinkTable
    <3>2. EndsPass(Importer)
      BY <1>1, <3>1, EndPassEnds
    <3>3. t.chain = ChildResources /\ t.at = "waiting" /\ t.final = s.final
      BY <2>2, <3>2, PropertyChainFacts DEF EndsPass
    <3>4. RoomsQuiet
      BY <2>1, <2>4, RelinkedTables, RelinkOthers
    <3>5. NoneParked'
      BY <2>4, <3>4, QuietRooms
    <3> QED
      BY <1>3, <3>3, <3>5, PropertyChainFacts DEF LastChainLinks
  <2> QED
    BY <2>1, <2>3, <2>4 DEF LastChainLinks
<1>11. CASE HaltOnBadRow(Importer)
  <2>1. t.at = "failed"
    BY <1>1, <1>11 DEF HaltOnBadRow, FailChain, DropChain, SetRunAt, Off
  <2> QED
    BY <2>1 DEF LastChainLinks
<1> QED
  BY <1>6, <1>7, <1>8, <1>9, <1>10, <1>11 DEF RunChain

----------------------------------------------------------------------------
(* The rooms, whatever the others do *)

LEMMA DaemonsSame ==
    ASSUME \A d \in Daemons : run'[d] = run[d]
    PROVE  PropertyDaemons' = PropertyDaemons
  BY DEF PropertyDaemons, Current

LEMMA RoomsKept ==
    ASSUME RoomsInv, RoomsQuiet,
           imp'.at = imp.at, imp'.consumer = imp.consumer,
           imp'.alone => imp.alone,
           imp.cancelled => imp'.cancelled,
           run'[Importer] = run[Importer] \/ run'[Importer].at = "failed",
           imp'.alone /\ PropertyDaemons = {} => PropertyDaemons' = {}
    PROVE  RoomsInHand'
<1> SUFFICES ASSUME imp'.alone, imp'.at \notin {"idle", "failed"}
             PROVE  RoomsInHand'
  BY DEF RoomsInHand
<1>1. PropertyDaemons' = {}
  BY DEF RoomsInv, RoomsInHand
<1>2. imp'.at = "importing" /\ imp'.consumer = "finishing" =>
          LastChainLinks(run[Importer])'
  <2> SUFFICES ASSUME imp'.at = "importing", imp'.consumer = "finishing"
               PROVE  LastChainLinks(run[Importer])'
    OBVIOUS
  <2>1. LastChainLinks(run[Importer])
    BY DEF RoomsInv, RoomsInHand
  <2>2. CASE run'[Importer] = run[Importer]
    BY <2>1, <2>2, QuietLastChain DEF RoomsInv, PInv
  <2>3. CASE run'[Importer].at = "failed"
    BY <2>3 DEF LastChainLinks
  <2> QED
    BY <2>2, <2>3
<1>3. NoneParked => NoneParked'
  BY QuietRooms
<1>4. \/ imp'.at = "importing" /\ imp'.consumer = "returned" /\ ~imp'.cancelled
      \/ imp'.at \in {"enqueueing", "succeeded"}
      => NoneParked'
  BY <1>3 DEF RoomsInv, RoomsInHand
<1> QED
  BY <1>1, <1>2, <1>4 DEF RoomsInHand

\* Pages are saved, or dropped, next to the chains.
LEMMA SavingIsQuiet ==
    ASSUME CInv, NEW p \in Processes,
           \/ \E page \in Seq(Row) : MintIds(p, page)
           \/ SavePage(p)
           \/ DropPage(p) /\ UNCHANGED chainVars
    PROVE  RoomsQuiet /\ UNCHANGED chainVars
<1>1. UNCHANGED chainVars
  BY DEF MintIds, SavePage
<1>2. RawGrows
  BY MintIdsStep, SavePageStep, DropPageStep DEF Progress
<1> QED
  BY <1>1, <1>2, QuietIsQuiet DEF chainVars

LEMMA ProducerOnly ==
    ASSUME imp \in Import, Produce \/ FetchBreaks \/ SaveBreaks
    PROVE  /\ imp'.at = imp.at /\ imp'.consumer = imp.consumer
           /\ imp'.alone = imp.alone
           /\ imp.cancelled => imp'.cancelled
<1>1. ASSUME NEW i \in Import
      PROVE  LET j == ToNextPage(i)
             IN  /\ j \in Import
                 /\ j.at = i.at /\ j.consumer = i.consumer
                 /\ j.alone = i.alone /\ j.cancelled = i.cancelled
  <2>1. ToNextPage(i) \in Import
    BY ToNextPageIs
  <2> DEFINE end == IF i.pageNo = LastPage THEN "closing" ELSE "fetching"
             n == i.pageNo + 1
             fetch == NewFetch
             j == [i EXCEPT !.pageNo = n, !.fetch = fetch, !.producer = end]
  <2>2. j = ToNextPage(i)
    BY DEF ToNextPage
  <2> HIDE DEF end, n, fetch
  <2>3. /\ j.at = i.at /\ j.consumer = i.consumer
        /\ j.alone = i.alone /\ j.cancelled = i.cancelled
    BY DEF Import
  <2> QED
    BY <2>1, <2>2, <2>3
<1>2. ASSUME NEW i \in Import
      PROVE  LET j == Breaks(i)
             IN  /\ j.at = i.at /\ j.consumer = i.consumer
                 /\ j.alone = i.alone /\ j.cancelled = i.cancelled
  BY DEF Breaks, Import
<1>3. CASE PageArrives
  <2>1. CASE Feed[imp.pageNo] = << >>
    BY <1>1, <1>3, <2>1 DEF PageArrives
  <2>2. CASE Feed[imp.pageNo] # << >>
    <3>1. imp' = [imp EXCEPT !.producer = "saving", !.fetch = NewFetch]
      BY <1>3, <2>2 DEF PageArrives
    <3> QED
      BY <3>1 DEF Import
  <2> QED
    BY <2>1, <2>2
<1>4. CASE RequestFails
  <2>1. PICK f : \/ imp' = [imp EXCEPT !.fetch = f]
                 \/ imp' = Breaks([imp EXCEPT !.fetch = f])
    <3>1. PICK answer : LET tried == [imp EXCEPT !.fetch = AfterFailure(@, answer)]
                        IN  imp' = IF GivesUp(imp.fetch, answer) THEN Breaks(tried) ELSE tried
      BY <1>4, Zenon DEF RequestFails
    <3> DEFINE f == AfterFailure(imp.fetch, answer)
    <3>2. \/ imp' = [imp EXCEPT !.fetch = f]
          \/ imp' = Breaks([imp EXCEPT !.fetch = f])
      BY <3>1
    <3> QED
      BY <3>2
  <2>2. CASE imp' = [imp EXCEPT !.fetch = f]
    BY <2>2 DEF Import
  <2>3. CASE imp' = Breaks([imp EXCEPT !.fetch = f])
    <3>1. imp' = [imp EXCEPT !.fetch = f, !.producer = "closing", !.broken = TRUE]
      BY <2>3 DEF Breaks
    <3> QED
      BY <3>1 DEF Import
  <2> QED
    BY <2>1, <2>2, <2>3
<1>5. CASE MintFetched \/ SaveFetched
  BY <1>5 DEF MintFetched, SaveFetched, Import
<1>6. CASE FetchBreaks \/ SaveBreaks
  BY <1>2, <1>6 DEF FetchBreaks, SaveBreaks
<1>7. CASE Signal
  <2>1. imp' = [ToNextPage(imp) EXCEPT !.signal = TRUE]
    BY <1>7 DEF Signal
  <2>2. PICK j : j = ToNextPage(imp)
    OBVIOUS
  <2>3. imp' = [j EXCEPT !.signal = TRUE] /\ j \in Import
    BY <1>1, <2>1, <2>2
  <2>4. /\ imp'.at = j.at /\ imp'.consumer = j.consumer
        /\ imp'.alone = j.alone /\ imp'.cancelled = j.cancelled
    BY <2>3 DEF Import
  <2> QED
    BY <1>1, <2>2, <2>4
<1>8. CASE CloseSignal
  <2> DEFINE f == NewFetch
  <2>1. imp' = [imp EXCEPT !.producer = "returning", !.fetch = f, !.closed = TRUE]
    BY <1>8 DEF CloseSignal
  <2> HIDE DEF f
  <2> QED
    BY <2>1 DEF Import
<1>9. CASE ProducerReturns
  BY <1>9 DEF ProducerReturns, Import
<1> QED
  BY <1>3, <1>4, <1>5, <1>6, <1>7, <1>8, <1>9 DEF Produce

LEMMA ProducerRooms ==
    ASSUME RoomsInv, Produce \/ FetchBreaks \/ SaveBreaks
    PROVE  RoomsInHand'
<1>1. CInv /\ imp \in Import
  BY DEF RoomsInv, PInv, ImportTypes
<1>2. RoomsQuiet /\ UNCHANGED chainVars
  <2>1. CASE MintFetched
    <3>1. imp.pageNo \in 1 .. LastPage
      BY <1>1, <2>1, FeedFacts
         DEF RoomsInv, PInv, PagesInRange, Import, MintFetched, Is
    <3>2. Feed[imp.pageNo] \in Seq(Row)
      BY <3>1, FeedFacts
    <3> QED
      BY <1>1, <2>1, <3>2, FeedFacts, SavingIsQuiet DEF MintFetched
  <2>3. CASE SaveFetched \/ SaveBreaks
    BY <1>1, <2>3, FeedFacts, SavingIsQuiet DEF SaveFetched, SaveBreaks
  <2>2. CASE ~(MintFetched \/ SaveFetched \/ SaveBreaks)
    <3>1. UNCHANGED childVars
      BY <2>2 DEF Produce, PageArrives, RequestFails, FetchBreaks,
                  Signal, CloseSignal, ProducerReturns
    <3>2. RawGrows
      BY <1>1, <3>1 DEF RawGrows, CInv, ChildTypeOK, childVars
    <3> QED
      BY <1>1, <3>1, <3>2, QuietIsQuiet DEF childVars, chainVars
  <2> QED
    BY <2>1, <2>2, <2>3
<1>3. run' = run
  BY <1>2 DEF chainVars
<1>4. PropertyDaemons' = PropertyDaemons
  BY <1>3, DaemonsSame
<1> QED
  BY <1>1, <1>2, <1>3, <1>4, ProducerOnly, RoomsKept

LEMMA DaemonRooms ==
    ASSUME RoomsInv, NEW d \in Daemons,
           Daemon(d)
    PROVE  RoomsInHand'
<1>1. CInv /\ imp \in Import /\ d \in Processes /\ ChainOf[d] \in Chains /\ d # Importer
  BY ImportAssumption DEF RoomsInv, PInv, ImportTypes, Daemons
<1>2. CASE DaemonMints(d) \/ DaemonSaves(d) \/ SaveFails(d)
  <2>1. imp' = imp
    BY <1>2 DEF DaemonMints, DaemonSaves, SaveFails
  <2>2. RoomsQuiet /\ UNCHANGED chainVars
    <3>1. CASE DaemonMints(d)
      <4>1. Deltas[up][d][fetched[d] + 1] \in Seq(Row)
        BY <3>1, DeltaPage, LinkAssumption DEF RoomsInv, PInv
      <4> QED
        BY <1>1, <3>1, <4>1, SavingIsQuiet DEF DaemonMints
    <3>2. CASE DaemonSaves(d) \/ SaveFails(d)
      BY <1>1, <3>2, SavingIsQuiet DEF DaemonSaves, SaveFails
    <3> QED
      BY <1>2, <3>1, <3>2
  <2>3. run' = run
    BY <2>2 DEF chainVars
  <2> QED
    BY <2>1, <2>2, <2>3, DaemonsSame, RoomsKept
<1>3. CASE Tick(d, ChainOf[d])
  <2> DEFINE alone == imp.alone /\ Head(ChainOf[d]) # Property
  <2>1. imp' = [imp EXCEPT !.alone = alone] /\ StartChain(d, ChainOf[d], TRUE)
    BY <1>3 DEF Tick
  <2> HIDE DEF alone
  <2>2. imp'.at = imp.at /\ imp'.consumer = imp.consumer
        /\ imp'.cancelled = imp.cancelled /\ imp'.alone = alone
    BY <1>1, <2>1 DEF Import
  <2>3. /\ run'[d].chain = ChainOf[d]
        /\ \A q \in Processes \ {d} : run'[q] = run[q]
        /\ UNCHANGED <<raw, committed, store, link>>
    BY <1>1, <2>1, ChainStarts
  <2>4. RoomsQuiet
    <3>1. RawGrows
      BY <1>1, <2>3 DEF RawGrows, CInv, ChildTypeOK
    <3> QED
      BY <1>1, <2>3, <3>1, QuietIsQuiet
  <2>5. ASSUME alone PROVE Current(d)' = OpenHouse
    <3>1. Head(ChainOf[d]) # Property
      BY <2>5 DEF alone
    <3>2. ChainOf[d] = << OpenHouse >>
      BY <1>1, <3>1, PropertyChainFacts DEF Chains, PropertyChain
    <3> QED
      BY <2>3, <3>2, TailsFacts DEF Current
  <2>6. imp'.alone /\ PropertyDaemons = {} => PropertyDaemons' = {}
    <3>1. \A q \in Daemons \ {d} : run'[q] = run[q]
      BY <2>3 DEF Daemons
    <3> QED
      BY <2>2, <2>5, <3>1 DEF PropertyDaemons, Current
  <2>7. run'[Importer] = run[Importer]
    BY <1>1, <2>3, FeedFacts
  <2>8. imp'.alone => imp.alone
    BY <2>2 DEF alone
  <2> QED
    BY <2>2, <2>4, <2>6, <2>7, <2>8, RoomsKept
<1>4. CASE RunDaemon(d)
  <2>1. imp' = imp /\ (RunChain(d) \/ EndChain(d))
    BY <1>4 DEF RunDaemon
  <2>2. \A q \in Processes \ {d} : run'[q] = run[q]
    BY <1>1, <2>1, ChainMoves, ChainStops
  <2>3. run'[Importer] = run[Importer] /\ \A q \in Daemons \ {d} : run'[q] = run[q]
    BY <1>1, <2>2, FeedFacts DEF Daemons
  <2>4. CASE ~(imp.alone /\ imp.at \notin {"idle", "failed"})
    BY <2>1, <2>4 DEF RoomsInHand
  <2>5. CASE imp.alone /\ imp.at \notin {"idle", "failed"}
    <3>1. PropertyDaemons = {}
      BY <2>5 DEF RoomsInv, RoomsInHand
    <3>2. CASE RunChain(d)
      <4>1. run[d].chain # << >>
        BY <1>1, <3>2, ChainMoves
      <4>2. Current(d) = OpenHouse
        BY <3>1, <4>1 DEF PropertyDaemons
      <4>3. RoomsQuiet /\ run'[d].chain \in {run[d].chain, << >>}
        BY <1>1, <3>2, <4>2, OpenHousesAreQuiet DEF RoomsInv
      <4>4. PropertyDaemons' = {}
        BY <2>3, <3>1, <4>3 DEF PropertyDaemons, Current
      <4> QED
        BY <2>1, <2>3, <4>3, <4>4, RoomsKept
    <3>3. CASE EndChain(d)
      <4>1. run'[d].chain = << >>
        BY <1>1, <3>3, ChainStops DEF Stops
      <4>2. RoomsQuiet
        <5>1. UNCHANGED <<raw, committed, store, link>>
          BY <3>3 DEF EndChain
        <5>2. RawGrows
          BY <1>1, <5>1 DEF RawGrows, CInv, ChildTypeOK
        <5> QED
          BY <1>1, <5>1, <5>2, QuietIsQuiet
      <4>3. PropertyDaemons' = {}
        BY <2>3, <3>1, <4>1 DEF PropertyDaemons, Current
      <4> QED
        BY <2>1, <2>3, <4>2, <4>3, RoomsKept
    <3> QED
      BY <2>1, <3>2, <3>3
  <2> QED
    BY <2>4, <2>5
<1> QED
  BY <1>2, <1>3, <1>4 DEF Daemon

LEMMA PassFailsRooms ==
    ASSUME RoomsInv, PassFails
    PROVE  RoomsInHand'
<1>1. CInv
  BY DEF RoomsInv, PInv
<1>2. PICK p \in Processes : FailChain(p) /\ imp' = imp
  BY DEF PassFails
<1>3. Stops(p) /\ \A q \in Processes \ {p} : run'[q] = run[q]
  BY <1>1, <1>2, ChainStops
<1>4. RoomsQuiet
  <2>1. UNCHANGED <<raw, committed, store, link>>
    BY <1>2 DEF FailChain, DropChain
  <2>2. RawGrows
    BY <1>1, <2>1 DEF RawGrows, CInv, ChildTypeOK
  <2> QED
    BY <1>1, <2>1, <2>2, QuietIsQuiet
<1>5. PropertyDaemons' \subseteq PropertyDaemons
  <2>1. \A d \in Daemons : run'[d] = run[d] \/ run'[d].chain = << >>
    BY <1>3 DEF Stops, Daemons
  <2> QED
    BY <2>1 DEF PropertyDaemons, Current
<1>6. run'[Importer] = run[Importer] \/ run'[Importer].at = "failed"
  <2>1. CASE p = Importer
    BY <1>1, <1>2, <2>1 DEF FailChain, DropChain, SetRunAt, Off, CInv, ChildTypeOK
  <2> QED
    BY <1>3, <2>1, FeedFacts
<1> QED
  BY <1>2, <1>4, <1>5, <1>6, RoomsKept

----------------------------------------------------------------------------
(* The rooms at the import's own steps *)

LEMMA ConsumerRooms ==
    ASSUME RoomsInv, Wake \/ LastDrain
    PROVE  RoomsInHand'
<1>1. CInv /\ imp \in Import /\ Importer \in Processes /\ imp.at = "importing"
  BY FeedFacts DEF RoomsInv, PInv, ImportTypes, Wake, LastDrain, Is
<1>2. PICK final \in BOOLEAN :
         /\ StartChain(Importer, PropertyChain, final)
         /\ LastDrain => final
  BY DEF Wake, LastDrain
<1>3. /\ run'[Importer].chain = PropertyChain /\ run'[Importer].at = "waiting"
      /\ run'[Importer].final = final
      /\ \A q \in Processes \ {Importer} : run'[q] = run[q]
  BY <1>1, <1>2, PropertyChainFacts, ChainStarts
<1>4. PropertyDaemons' = PropertyDaemons
  BY <1>3, DaemonsSame DEF Daemons
<1>5. /\ imp'.at = "importing" /\ imp'.alone = imp.alone
      /\ imp'.consumer # "returned"
      /\ imp'.consumer = "finishing" => final
  BY <1>1, <1>2 DEF Wake, LastDrain, Import
<1>6. final => LastChainLinks(run[Importer])'
  BY <1>3, PropertyChainFacts DEF LastChainLinks
<1> QED
  BY <1>1, <1>4, <1>5, <1>6 DEF RoomsInv, RoomsInHand

LEMMA DrainRooms ==
    ASSUME RoomsInv, Drain
    PROVE  RoomsInHand'
<1>1. CInv /\ ChainsAreTails /\ Importer \in Processes /\ imp' = imp
  BY FeedFacts DEF RoomsInv, PInv, Drain
<1>2. run[Importer].at # "off"
  <2>1. CASE imp.cancelled
    BY <2>1 DEF Drain, FailChain, Running
  <2>2. CASE ~imp.cancelled
    BY <1>1, <2>2, ChainMoves DEF Drain, Busy
  <2> QED
    BY <2>1, <2>2
<1>3. imp.consumer \in {"draining", "finishing"} /\ imp.at = "importing"
  BY <1>2 DEF RoomsInv, PInv, ChainInHand
<1>4. \A q \in Processes \ {Importer} : run'[q] = run[q]
  BY <1>1, ChainMoves, ChainStops DEF Drain
<1>5. PropertyDaemons' = PropertyDaemons
  BY <1>4, DaemonsSame DEF Daemons
<1>6. LastChainLinks(run[Importer]) => LastChainLinks(run[Importer])'
  <2>1. CASE imp.cancelled
    <3>1. run'[Importer].at = "failed"
      BY <1>1, <2>1 DEF Drain, FailChain, DropChain, SetRunAt, Off, CInv, ChildTypeOK
    <3> QED
      BY <3>1 DEF LastChainLinks
  <2>2. CASE ~imp.cancelled
    BY <1>1, <2>2, LastChainLinksRuns DEF Drain
  <2> QED
    BY <2>1, <2>2
<1> QED
  BY <1>1, <1>3, <1>5, <1>6 DEF RoomsInv, RoomsInHand

LEMMA ChainReturnsRooms ==
    ASSUME RoomsInv, ChainReturns
    PROVE  RoomsInHand'
<1>1. /\ CInv /\ imp \in Import /\ Importer \in Processes
      /\ run[Importer].at \in {"done", "failed"}
      /\ imp.consumer \in {"draining", "finishing"} /\ imp.at = "importing"
      /\ UNCHANGED <<raw, committed, store, link>>
  BY FeedFacts DEF ChainReturns, EndChain, RoomsInv, PInv, ImportTypes, ChainInHand
<1>2. PropertyDaemons' = PropertyDaemons
  <2>1. \A q \in Processes \ {Importer} : run'[q] = run[q]
    BY <1>1, ChainStops DEF ChainReturns
  <2> QED
    BY <2>1, DaemonsSame DEF Daemons
<1>3. CASE run[Importer].at = "failed"
  <2>1. imp' = [imp EXCEPT !.consumer = "returned", !.cancelled = TRUE]
    BY <1>3 DEF ChainReturns
  <2>2. imp'.at = imp.at /\ imp'.alone = imp.alone /\ imp'.consumer = "returned"
        /\ imp'.cancelled
    BY <1>1, <2>1 DEF Import
  <2> QED
    BY <1>1, <1>2, <2>2 DEF RoomsInv, RoomsInHand
<1>4. CASE run[Importer].at # "failed"
  <2> DEFINE next == IF imp.consumer = "draining" THEN "ranging" ELSE "returned"
  <2>1. imp' = [imp EXCEPT !.consumer = next]
    BY <1>4 DEF ChainReturns
  <2> HIDE DEF next
  <2>2. imp'.at = imp.at /\ imp'.alone = imp.alone /\ imp'.consumer = next
    BY <1>1, <2>1 DEF Import
  <2>3. next = "returned" => imp.consumer = "finishing"
    BY <1>1 DEF next
  <2>4. next # "finishing"
    BY DEF next
  <2>5. ASSUME imp.alone, imp.consumer = "finishing" PROVE NoneParked'
    <3>1. LastChainLinks(run[Importer])
      BY <1>1, <2>5 DEF RoomsInv, RoomsInHand
    <3>2. NoneParked
      BY <1>1, <1>4, <3>1, PropertyChainFacts DEF LastChainLinks
    <3> QED
      BY <1>1, <3>2, SameTables
  <2> QED
    BY <1>1, <1>2, <2>2, <2>3, <2>4, <2>5 DEF RoomsInv, RoomsInHand
<1> QED
  BY <1>3, <1>4

LEMMA WholeRooms ==
    ASSUME RoomsInv, StartImport \/ Join \/ Enqueue \/ ImportDies
    PROVE  RoomsInHand'
<1>1. CInv /\ imp \in Import
  BY DEF RoomsInv, PInv, ImportTypes
<1>2. CASE StartImport
  <2> DEFINE alone == PropertyDaemons = {}
             n == imp.starts + 1
  <2>1. imp' = [Fresh EXCEPT !.starts = n, !.alone = alone]
    BY <1>2 DEF StartImport
  <2> HIDE DEF alone, n
  <2>2. imp'.alone = alone /\ imp'.consumer = "ranging" /\ imp'.at = "importing"
    BY <2>1 DEF Fresh
  <2>3. PropertyDaemons' = PropertyDaemons
    BY <1>2, DaemonsSame DEF StartImport, childVars, chainVars
  <2> QED
    BY <2>2, <2>3 DEF RoomsInHand, alone
<1>3. CASE Join \/ Enqueue
  <2>1. UNCHANGED childVars
    BY <1>3 DEF Join, Enqueue
  <2>2. PICK at \in {"failed", "enqueueing", "succeeded"} :
           /\ imp' = [imp EXCEPT !.at = at]
           /\ at # "failed" =>
                 \/ imp.at = "enqueueing"
                 \/ imp.at = "importing" /\ imp.consumer = "returned" /\ ~imp.cancelled
    BY <1>3 DEF Join, Enqueue, Is
  <2>3. imp'.at = at /\ imp'.alone = imp.alone
    BY <1>1, <2>2 DEF Import
  <2>4. PropertyDaemons' = PropertyDaemons
    BY <2>1, DaemonsSame DEF childVars, chainVars
  <2>5. NoneParked => NoneParked'
    BY <2>1, SameTables DEF childVars, chainVars
  <2> QED
    BY <2>2, <2>3, <2>4, <2>5 DEF RoomsInv, RoomsInHand
<1>4. CASE ImportDies
  <2>1. imp' = [NotStarted EXCEPT !.at = "failed", !.starts = imp.starts]
    BY <1>4 DEF ImportDies
  <2>2. imp'.at = "failed"
    BY <2>1 DEF NotStarted, Fresh
  <2> QED
    BY <2>2 DEF RoomsInHand
<1> QED
  BY <1>2, <1>3, <1>4

\* All steps but these leave the chains alone.
LEMMA StepMoves ==
    ASSUME [Next]_vars
    PROVE  UNCHANGED <<lock, run>> \/ \E p \in Processes : Moves(p)
<1>1. Importer \in Processes /\ PropertyChain \in Chains
  BY FeedFacts, PropertyChainFacts
<1>2. CASE StartImport \/ Produce \/ FetchBreaks \/ SaveBreaks \/ Join \/ Enqueue
           \/ UNCHANGED vars
  BY <1>2 DEF StartImport, Produce, PageArrives, RequestFails, MintFetched, SaveFetched,
              FetchBreaks, SaveBreaks, Signal, CloseSignal, ProducerReturns, Join,
              Enqueue, MintIds, SavePage, vars, childVars, chainVars
<1>3. CASE Consume \/ ImportDies
  <2>1. CASE Wake \/ LastDrain
    BY <1>1, <2>1 DEF Wake, LastDrain, Moves
  <2>2. CASE Drain \/ ChainReturns \/ ImportDies
    BY <1>1, <2>2 DEF Drain, ChainReturns, ImportDies, Moves
  <2> QED
    BY <1>3, <2>1, <2>2 DEF Consume
<1>4. CASE \E d \in Daemons \cap up : Daemon(d)
  <2>1. PICK d \in Daemons : Daemon(d)
    BY <1>4, Zenon
  <2>2. d \in Processes /\ ChainOf[d] \in Chains
    BY ImportAssumption DEF Daemons
  <2>3. CASE DaemonMints(d) \/ DaemonSaves(d) \/ SaveFails(d)
    BY <2>3 DEF DaemonMints, DaemonSaves, SaveFails, MintIds, SavePage, chainVars
  <2>4. CASE Tick(d, ChainOf[d]) \/ RunDaemon(d)
    BY <2>2, <2>4 DEF Tick, RunDaemon, Moves
  <2> QED
    BY <2>1, <2>3, <2>4 DEF Daemon
<1>5. CASE PassFails
  BY <1>5 DEF PassFails, Moves
<1> QED
  BY <1>2, <1>3, <1>4, <1>5, Zenon DEF Next, Step

LEMMA NextTails ==
    ASSUME RoomsInv, [Next]_vars
    PROVE  ChainsAreTails'
<1>1. CInv /\ ChainsAreTails
  BY DEF RoomsInv, PInv
<1>2. CASE UNCHANGED run
  BY <1>1, <1>2 DEF ChainsAreTails, Current
<1>3. CASE \E p \in Processes : Moves(p)
  BY <1>1, <1>3, MovesTails
<1> QED
  BY <1>2, <1>3, StepMoves

LEMMA NextRooms ==
    ASSUME RoomsInv, PageInHand, [Next]_vars
    PROVE  RoomsInv'
<1>1. PInv' /\ ChainsAreTails'
  BY NextPInv, NextTails DEF RoomsInv
<1>2. RoomsInHand'
  <2>1. CASE UNCHANGED vars
    <3>1. UNCHANGED <<imp, raw, committed, store, link, run>>
      BY <2>1 DEF vars, childVars, chainVars
    <3>2. RawGrows
      BY <3>1 DEF RawGrows, RoomsInv, PInv, CInv, ChildTypeOK
    <3>3. RoomsQuiet
      BY <3>1, <3>2, QuietIsQuiet DEF RoomsInv, PInv
    <3> QED
      BY <3>1, <3>3, DaemonsSame, RoomsKept
  <2>2. CASE \E d \in Daemons \cap up : Daemon(d)
    <3>1. PICK d \in Daemons : Daemon(d)
      BY <2>2, Zenon
    <3> QED
      BY <3>1, DaemonRooms
  <2>3. CASE Consume
    BY <2>3, ConsumerRooms, DrainRooms, ChainReturnsRooms DEF Consume
  <2> QED
    BY <2>1, <2>2, <2>3, ProducerRooms, PassFailsRooms, WholeRooms, Zenon
       DEF Next, Step
<1> QED
  BY <1>1, <1>2 DEF RoomsInv

(***************************************************************************)
(* For every feed, chunk size and number of daemons: a room is linked when *)
(* the import succeeds, if no other process has run Property passes since  *)
(* it started.  Daemons of open houses, bad rows, failures and earlier     *)
(* starts of the import do not matter.                                     *)
(***************************************************************************)
THEOREM RoomsGetLinked == Spec => []SuccessLinksRooms
<1>1. Init => RoomsInv
  <2> SUFFICES ASSUME Init PROVE RoomsInv
    OBVIOUS
  <2>1. \A p \in Processes : run[p] = Off
    BY DEF Init, ChildInit
  <2>2. ChainsAreTails
    BY <2>1, TailsFacts DEF ChainsAreTails, Off
  <2>3. imp.at = "idle"
    BY DEF Init, NotStarted, Fresh
  <2>4. RoomsInHand
    BY <2>3 DEF RoomsInHand
  <2> QED
    BY <2>2, <2>4, InitPInv DEF RoomsInv
<1>2. RoomsInv => SuccessLinksRooms
  BY DEF RoomsInv, RoomsInHand, NoneParked, SuccessLinksRooms
<1> QED
  BY <1>1, <1>2, NextRooms, PInvHolds, PTL DEF Spec

----------------------------------------------------------------------------
(* Who waits for whom *)

\* A lock is held in the middle of a pass of its resource, and only there.
LocksHeld ==
    \A r \in Resources : lock[r] # NoProcess =>
        run[lock[r]].at \in Holding /\ Current(lock[r]) = r

\* The channel is closed before the producer's error or return is seen.
ClosedFirst ==
    imp.at = "importing" /\ imp.producer \in {"returning", "returned"} => imp.closed

ChainIsThere ==
    imp.at = "importing" /\ imp.consumer \in {"draining", "finishing"} =>
        run[Importer].at # "off"

WInv == PInv /\ LocksHeld /\ ClosedFirst /\ ChainIsThere

LEMMA MovesLocks ==
    ASSUME CInv, LocksHeld, NEW p \in Processes, Moves(p)
    PROVE  LocksHeld'
<1>1. lock \in [Resources -> Processes \cup {NoProcess}] /\ NoProcess \notin Processes
  BY LinkAssumption DEF CInv, ChildTypeOK
<1>2. \A r \in Resources : lock[r] = p => run[p].at \in Holding /\ Current(p) = r
  BY <1>1 DEF LocksHeld
<1>3. /\ \A q \in Processes \ {p} : run'[q] = run[q]
      /\ \A r \in Resources : lock'[r] \in {lock[r], NoProcess, p}
      /\ \A r \in Resources : lock'[r] = p =>
            run'[p].at \in Holding /\ run'[p].chain = run[p].chain /\ Current(p) = r
  <2>1. CASE RunChain(p)
    <3>1. /\ run[p].chain # << >> /\ \A q \in Processes \ {p} : run'[q] = run[q]
          /\ (GoesOn(p) \/ EndsPass(p) \/ Stops(p))
      BY <2>1, ChainMoves
    <3>2. CASE GoesOn(p)
      BY <1>1, <1>2, <3>1, <3>2 DEF GoesOn, Holding
    <3>3. CASE EndsPass(p)
      BY <1>1, <1>2, <3>1, <3>3 DEF EndsPass
    <3>4. CASE Stops(p)
      BY <1>1, <1>2, <3>1, <3>4 DEF Stops
    <3> QED
      BY <3>1, <3>2, <3>3, <3>4
  <2>2. CASE FailChain(p) \/ Die(p) \/ EndChain(p)
    <3>1. Stops(p) /\ \A q \in Processes \ {p} : run'[q] = run[q]
      BY <2>2, ChainStops
    <3> QED
      BY <1>1, <1>2, <3>1 DEF Stops
  <2>3. CASE \E chain \in Chains, final \in BOOLEAN : StartChain(p, chain, final)
    <3>1. /\ \A q \in Processes \ {p} : run'[q] = run[q]
          /\ lock' = lock /\ run[p].at = "off"
      BY <2>3, ChainStarts
    <3> QED
      BY <1>1, <1>2, <3>1 DEF Holding
  <2> QED
    BY <2>1, <2>2, <2>3 DEF Moves
<1>4. ASSUME NEW r \in Resources, lock'[r] # NoProcess
      PROVE  run'[lock'[r]].at \in Holding /\ Head(run'[lock'[r]].chain) = r
  <2>1. CASE lock'[r] = p
    BY <1>3, <2>1 DEF Current
  <2>2. CASE lock'[r] # p
    <3>1. lock'[r] = lock[r] /\ lock[r] \in Processes \ {p}
      BY <1>1, <1>3, <1>4, <2>2
    <3> QED
      BY <1>3, <1>4, <3>1 DEF LocksHeld, Current
  <2> QED
    BY <2>1, <2>2
<1> QED
  BY <1>4 DEF LocksHeld, Current

\* The producer's part.
LEMMA ClosesFirst ==
    ASSUME WInv, [Next]_vars
    PROVE  ClosedFirst'
<1>1. imp \in Import
  BY DEF WInv, PInv, ImportTypes
<1>2. CASE /\ imp'.at = "importing" => imp.at = "importing"
           /\ imp'.producer = imp.producer /\ imp'.closed = imp.closed
  BY <1>2 DEF WInv, ClosedFirst
<1>3. CASE StartImport \/ ImportDies
  BY <1>3 DEF StartImport, ImportDies, Fresh, NotStarted, ClosedFirst
<1>4. CASE \/ PageArrives \/ RequestFails \/ FetchBreaks
           \/ MintFetched \/ SaveFetched \/ SaveBreaks \/ Signal
  <2>1. imp'.producer \in {"fetching", "saving", "signalling", "closing"}
    BY <1>1, <1>4 DEF PageArrives, RequestFails, FetchBreaks, MintFetched, SaveFetched,
                      SaveBreaks, Signal, ToNextPage, Breaks, Is, Import
  <2> QED
    BY <2>1 DEF ClosedFirst
<1>5. CASE CloseSignal
  <2>1. imp'.closed
    BY <1>1, <1>5 DEF CloseSignal, Import
  <2> QED
    BY <2>1 DEF ClosedFirst
<1>6. CASE ProducerReturns
  <2>1. imp'.closed = imp.closed /\ imp.closed
    BY <1>1, <1>6 DEF ProducerReturns, Is, Import, WInv, ClosedFirst
  <2> QED
    BY <2>1 DEF ClosedFirst
<1>7. CASE Wake \/ LastDrain \/ ChainReturns \/ Join \/ Enqueue
  BY <1>1, <1>2, <1>7 DEF Wake, LastDrain, ChainReturns, Join, Enqueue, Is, Import
<1>8. CASE UNCHANGED vars \/ Drain \/ PassFails
  BY <1>2, <1>8 DEF vars, Drain, PassFails
<1>9. ASSUME NEW d \in Daemons, Daemon(d)
      PROVE  ClosedFirst'
  BY <1>1, <1>2, <1>9
     DEF Daemon, DaemonMints, DaemonSaves, SaveFails, Tick, RunDaemon, Import
<1>10. CASE \E d \in Daemons \cap up : Daemon(d)
  BY <1>9, <1>10, Zenon
<1> QED
  BY <1>3, <1>4, <1>5, <1>6, <1>7, <1>8, <1>10, Zenon DEF Next, Step, Produce, Consume

\* A chain in hand has an end to tell of.
LEMMA RunGoesOn ==
    ASSUME CInv, NEW p \in Processes, RunChain(p)
    PROVE  run'[p].at # "off"
  BY ChainMoves DEF GoesOn, EndsPass

\* The consumer's part.
LEMMA ChainStaysThere ==
    ASSUME WInv, [Next]_vars
    PROVE  ChainIsThere'
<1>1. /\ CInv /\ imp \in Import /\ Importer \in Processes /\ PropertyChain \in Chains
      /\ imp.consumer \in {"draining", "finishing"} =>
            imp.at = "importing" /\ run[Importer].at # "off"
  BY FeedFacts, PropertyChainFacts
     DEF WInv, PInv, ImportTypes, ChainInHand, ChainIsThere
<1>2. CASE imp'.consumer = imp.consumer /\ run'[Importer] = run[Importer]
  BY <1>1, <1>2 DEF ChainIsThere
<1>3. CASE imp'.consumer \notin {"draining", "finishing"}
  BY <1>3 DEF ChainIsThere
<1>4. CASE StartImport \/ ImportDies
  BY <1>3, <1>4 DEF StartImport, ImportDies, Fresh, NotStarted
<1>5. CASE Produce \/ FetchBreaks \/ SaveBreaks \/ Join \/ Enqueue \/ UNCHANGED vars
  <2>1. imp'.consumer = imp.consumer
    BY <1>1, <1>5 DEF Produce, PageArrives, RequestFails, FetchBreaks, MintFetched,
                      SaveFetched, SaveBreaks, Signal, CloseSignal, ProducerReturns, ToNextPage,
                      Breaks, Join, Enqueue, Import, vars
  <2>2. run' = run
    BY <1>5 DEF Produce, PageArrives, RequestFails, FetchBreaks, MintFetched,
                SaveFetched, SaveBreaks, Signal, CloseSignal, ProducerReturns, Join,
                Enqueue, MintIds, SavePage, vars, childVars, chainVars
  <2> QED
    BY <1>2, <2>1, <2>2
<1>6. CASE Wake \/ LastDrain
  <2>1. PICK final \in BOOLEAN : StartChain(Importer, PropertyChain, final)
    BY <1>6 DEF Wake, LastDrain
  <2>2. run'[Importer].at = "waiting"
    BY <1>1, <2>1, ChainStarts
  <2> QED
    BY <2>2 DEF ChainIsThere
<1>7. CASE Drain
  <2>1. CASE imp.cancelled
    <3>1. run'[Importer].at = "failed"
      BY <1>1, <1>7, <2>1 DEF Drain, FailChain, DropChain, SetRunAt, Off, CInv, ChildTypeOK
    <3> QED
      BY <3>1 DEF ChainIsThere
  <2>2. CASE ~imp.cancelled
    <3>1. run'[Importer].at # "off"
      BY <1>1, <1>7, <2>2, RunGoesOn DEF Drain
    <3> QED
      BY <3>1 DEF ChainIsThere
  <2> QED
    BY <2>1, <2>2
<1>8. CASE ChainReturns
  <2>1. imp'.consumer \in {"ranging", "returned"}
    BY <1>1, <1>8 DEF ChainReturns, Import
  <2> QED
    BY <1>3, <2>1
<1>9. ASSUME NEW d \in Daemons, Daemon(d)
      PROVE  ChainIsThere'
  <2>1. d \in Processes /\ d # Importer /\ ChainOf[d] \in Chains
    BY ImportAssumption DEF Daemons
  <2>2. imp'.consumer = imp.consumer
    BY <1>1, <1>9 DEF Daemon, DaemonMints, DaemonSaves, SaveFails, Tick, RunDaemon, Import
  <2>3. CASE DaemonMints(d) \/ DaemonSaves(d) \/ SaveFails(d)
    BY <1>2, <2>2, <2>3 DEF DaemonMints, DaemonSaves, SaveFails, MintIds, SavePage, chainVars
  <2>4. CASE Tick(d, ChainOf[d])
    BY <1>1, <1>2, <2>1, <2>2, <2>4, ChainStarts DEF Tick
  <2>5. CASE RunDaemon(d)
    BY <1>1, <1>2, <2>1, <2>2, <2>5, ChainMoves, ChainStops DEF RunDaemon
  <2> QED
    BY <1>9, <2>3, <2>4, <2>5 DEF Daemon
<1>10. CASE PassFails
  <2>1. PICK p \in Processes : FailChain(p) /\ imp' = imp
    BY <1>10 DEF PassFails
  <2>2. run'[p].at = "failed" /\ \A q \in Processes \ {p} : run'[q] = run[q]
    BY <1>1, <2>1 DEF FailChain, DropChain, SetRunAt, Off, CInv, ChildTypeOK
  <2> QED
    BY <1>1, <1>2, <2>1, <2>2 DEF ChainIsThere
<1>11. CASE \E d \in Daemons \cap up : Daemon(d)
  BY <1>9, <1>11, Zenon
<1> QED
  BY <1>4, <1>5, <1>6, <1>7, <1>8, <1>10, <1>11, Zenon DEF Next, Step, Consume

(***************************************************************************)
(* For any number of processes, and whatever fails or dies: the holder of  *)
(* an advisory lock is in the middle of a pass and waits for no other      *)
(* lock, so that no circle of waiting processes forms, and neither         *)
(* goroutine of an import waits for one that has returned.  Liveness       *)
(* itself needs the fairness that only the run assumes.                    *)
(***************************************************************************)
THEOREM WaitsHaveAnEnd == Spec => []NobodyWaitsInVain
<1>1. Init => WInv
  <2> SUFFICES ASSUME Init PROVE WInv
    OBVIOUS
  <2>1. LocksHeld
    BY DEF Init, ChildInit, LocksHeld
  <2>2. imp.at = "idle"
    BY DEF Init, NotStarted, Fresh
  <2> QED
    BY <2>1, <2>2, InitPInv DEF WInv, ClosedFirst, ChainIsThere
<1>2. WInv /\ PageInHand /\ [Next]_vars => WInv'
  <2> SUFFICES ASSUME WInv, PageInHand, [Next]_vars PROVE WInv'
    OBVIOUS
  <2>1. CInv /\ LocksHeld
    BY DEF WInv, PInv
  <2>2. LocksHeld'
    <3>1. CASE UNCHANGED <<lock, run>>
      BY <2>1, <3>1 DEF LocksHeld, Current
    <3>2. CASE \E p \in Processes : Moves(p)
      BY <2>1, <3>2, MovesLocks
    <3> QED
      BY <3>1, <3>2, StepMoves
  <2> QED
    BY <2>2, NextPInv, ClosesFirst, ChainStaysThere DEF WInv
<1>3. WInv => NobodyWaitsInVain
  <2> SUFFICES ASSUME WInv PROVE NobodyWaitsInVain
    OBVIOUS
  <2>1. ASSUME NEW p \in Processes, run[p].at = "waiting", lock[Current(p)] # NoProcess
        PROVE  run[lock[Current(p)]].at \in Holding
    <3>1. CInv /\ run[p].chain # << >>
      BY <2>1 DEF WInv, PInv, CInv, ChainsMakeSense, ChainMakesSense, Busy
    <3>2. Current(p) \in Resources
      BY <3>1, CurrentResource DEF CInv
    <3> QED
      BY <2>1, <3>2 DEF WInv, LocksHeld
  <2> QED
    BY <2>1 DEF WInv, ClosedFirst, ChainIsThere, NobodyWaitsInVain, Holding
<1> QED
  BY <1>1, <1>2, <1>3, PInvHolds, PTL DEF Spec
============================================================================
