-------------------------- MODULE ChildLinks_proofs --------------------------
(***************************************************************************)
(* Passes of any number of processes, of parents and of children, and the  *)
(* relink between them: types, the locks, and that a link is only ever set *)
(* to a listing that exists and that the child has named.                  *)
(***************************************************************************)
EXTENDS ChildLinks, RecordLifecycle_proofs

USE DEF saveVars, rowVars

\* The contents a key's versions have had.
Contents(ks) == {ks.vers[i].val : i \in DOMAIN ks.vers}

\* An entity shows a content one of its versions has.
ShowsHistory(ks) == Exists(ks) => ks.ent.val \in Contents(ks)

Busy == {"waiting", "draining", "writing", "relinking"}
Holding == {"draining", "writing", "relinking"}

\* What a process's chain has in hand.  A transaction writes rows after the
\* cursor, for nobody moves the cursor of a resource that is locked.
ChainMakesSense(p) ==
    /\ run[p].at \in Busy => run[p].chain # << >>
    /\ run[p].at = "relinking" => run[p].tables # << >>
    /\ run[p].at \in Holding => lock[Current(p)] = p
    /\ run[p].at = "writing" =>
          run[p].rows # {} /\ run[p].rows \subseteq Unread(Current(p))

ChainsMakeSense == \A p \in Processes : ChainMakesSense(p)

\* What is read of the listings stays true: listings are never removed.
SeenExist == \A p \in Processes : run[p].seen \subseteq ExistingListings

StoreShowsHistory == \A k \in Keys : ShowsHistory(store[k])

\* A child without a row has no link.
LinkNeedsRow == \A c \in Children : ~Exists(store[c]) => link[c] = NoLink

CInv == /\ ChildTypeOK
        /\ ChainsMakeSense
        /\ SeenExist
        /\ StoreShowsHistory
        /\ LinkNeedsRow

----------------------------------------------------------------------------
(* One key *)

\* What is in a history stays in it.
LEMMA AppendedContents ==
    ASSUME NEW ks \in KeyState, NEW later \in KeyState, OnlyAppended(ks, later)
    PROVE  Contents(ks) \subseteq Contents(later)
<1>1. ks.vers \in Seq(Version) /\ later.vers \in Seq(Version)
  BY DEF KeyState
<1>2. ASSUME NEW i \in DOMAIN ks.vers
      PROVE  i \in DOMAIN later.vers /\ later.vers[i].val = ks.vers[i].val
  <2>1. i \in DOMAIN later.vers
    BY <1>1 DEF OnlyAppended
  <2>2. OnlyClosed(ks.vers[i], later.vers[i])
    BY DEF OnlyAppended
  <2>3. ks.vers[i] \in Version
    BY <1>1
  <2> QED
    BY <2>1, <2>2, <2>3 DEF OnlyClosed, Version
<1> QED
  BY <1>2 DEF Contents

\* Which decisions need the entity to be there.
LEMMA DecideNames ==
    ASSUME NEW ks \in KeyState, NEW cv, NEW row \in Row
    PROVE  /\ Decide(ks, cv, row) \in {"Delete", "Update"} => Exists(ks)
           /\ Decide(ks, cv, row) \in {"Insert", "DeleteFirstSighting"} => ~Exists(ks)
  BY DEF Decide, DecideNewer, Row, KeyState, Entity

\* Processing a row keeps the entity there and within its history; a row that is
\* not skipped leaves the entity there and its content in the history.
LEMMA ProcessContents ==
    ASSUME NEW ks \in KeyState, NEW row \in Row, NEW id \in Nat,
           ShowsHistory(ks)
    PROVE  /\ Contents(ks) \subseteq Contents(Process(ks, row, id))
           /\ ShowsHistory(Process(ks, row, id))
           /\ Exists(ks) => Exists(Process(ks, row, id))
           /\ PlanFor(ks, row) \notin Skips =>
                 /\ Exists(Process(ks, row, id))
                 /\ row.val \in Contents(Process(ks, row, id))
<1> DEFINE cv == IF Exists(ks) THEN LookupCurrentVersion(ks) ELSE 0
           plan == PlanFor(ks, row)
           new == Process(ks, row, id)
           v == NewVersion(row, id, ChangeOf(plan))
           kept == IF plan = "Insert" THEN ks.vers ELSE CloseVersion(ks.vers, cv)
<1>1. new = ApplyPlan(ks, cv, row, id, plan)
  BY DEF Process, PlanFor
<1>2. new \in KeyState
  BY ProcessType
<1>3. Contents(ks) \subseteq Contents(new)
  BY <1>2, ProcessOnlyAppends, AppendedContents
<1>4. CASE plan \in Skips
  BY <1>1, <1>4 DEF ApplyPlan
<1>5. CASE plan \notin Skips
  <2>1. /\ new.ent = WriteEntity(ks, row, plan, Len(ks.vers) + 1)
        /\ new.vers = Append(kept, v)
    BY <1>1, <1>5 DEF ApplyPlan
  <2>2. ks.vers \in Seq(Version) /\ Len(ks.vers) \in Nat /\ cv \in Nat
    BY LookupInHistory DEF KeyState
  <2>3. kept \in Seq(Version)
    BY <2>2, LookupInHistory, CloseVersionProperties
  <2>4. plan \in Plans
    BY DecideIsPlan DEF PlanFor
  <2>5. v \in Version /\ v.val = row.val
    BY <1>5, <2>4 DEF NewVersion, ChangeOf, Version, ChangeTypes, Row, Plans
  <2> HIDE DEF v, kept, new
  <2>6. Len(kept) + 1 \in DOMAIN new.vers /\ new.vers[Len(kept) + 1] = v
    BY <2>1, <2>3, <2>5, AppendProperties
  <2>7. row.val \in Contents(new)
    BY <2>5, <2>6 DEF Contents
  <2>8. new.ent.cur = Len(ks.vers) + 1
    BY <2>1, <2>2 DEF WriteEntity, KeyState, Entity
  <2>9. Exists(new)
    BY <2>2, <2>8 DEF Exists
  <2>10. CASE plan = "Delete"
    <3>1. new.ent.val = ks.ent.val
      BY <2>1, <2>10 DEF WriteEntity, KeyState, Entity
    <3>2. Exists(ks)
      BY <2>10, DecideNames DEF PlanFor
    <3> QED
      BY <1>3, <2>7, <2>9, <3>1, <3>2 DEF ShowsHistory, new
  <2>11. CASE plan # "Delete"
    <3>1. new.ent.val = row.val
      BY <2>1, <2>11 DEF WriteEntity
    <3> QED
      BY <1>3, <2>7, <2>9, <3>1 DEF ShowsHistory, new
  <2> QED
    BY <2>10, <2>11
<1> QED
  BY <1>4, <1>5

----------------------------------------------------------------------------
(* What every step does *)

RawGrows ==
    /\ raw' \in Seq(Row)
    /\ DOMAIN raw \subseteq DOMAIN raw'
    /\ \A i \in DOMAIN raw : raw'[i] = raw[i]
    /\ committed \subseteq DOMAIN raw
    /\ committed \subseteq committed'

CursorsGrow == \A r \in Resources : cursor[r] <= cursor'[r]

LinksFollow ==
    /\ ExistingListings \subseteq ExistingListings'
    /\ \A c \in Children : Named(c) \subseteq Named(c)'
    /\ \A c \in Children :
          link'[c] = link[c] \/ link'[c] \in Named(c)' \cap ExistingListings'

Progress == RawGrows /\ CursorsGrow /\ LinksFollow

LEMMA ConstantFacts ==
    /\ Listings \subseteq Keys
    /\ Children \subseteq Keys
    /\ \A k \in Keys : ResourceOf[k] \in Resources
    /\ \A v \in Vals : ListingOf[v] \in Listings
    /\ NoLink \notin Listings
    /\ NoProcess \notin Processes
  BY LinkAssumption DEF Children

LEMMA RawRows ==
    ASSUME ChildTypeOK, NEW i \in DOMAIN raw
    PROVE  i \in Nat /\ raw[i] \in Row /\ raw[i].key \in Keys
<1>1. raw \in Seq(Row)
  BY DEF ChildTypeOK
<1>2. i \in Nat /\ raw[i] \in Row
  BY <1>1
<1> QED
  BY <1>2 DEF Row

\* The resource a chain that is under way works at.
LEMMA CurrentResource ==
    ASSUME ChildTypeOK, NEW p \in Processes, run[p].chain # << >>
    PROVE  Current(p) \in Resources /\ Tail(run[p].chain) \in Seq(Resources)
<1>1. run[p].chain \in Seq(Resources)
  BY DEF ChildTypeOK, RunState
<1> QED
  BY <1>1 DEF Current

LEMMA CommittedRows ==
    ASSUME ChildTypeOK, NEW i \in committed
    PROVE  /\ i \in DOMAIN raw /\ i \in Nat
           /\ raw[i] \in Row /\ raw[i].key \in Keys
           /\ ResourceAt(i) \in Resources
<1>1. i \in DOMAIN raw
  BY DEF ChildTypeOK
<1>2. i \in Nat /\ raw[i] \in Row /\ raw[i].key \in Keys
  BY <1>1, RawRows
<1> QED
  BY <1>1, <1>2, ConstantFacts DEF ResourceAt

\* What a process has minted stays, or is dropped as it dies.
SavesKept(p) ==
    /\ UNCHANGED <<raw, committed, apart>>
    /\ UNCHANGED minted \/ minted' = [minted EXCEPT ![p] = {}]

LEMMA KeptSavesType ==
    ASSUME ChildTypeOK, NEW p \in Processes, SavesKept(p)
    PROVE  /\ minted' \in [Processes -> SUBSET DOMAIN raw']
           /\ \A q \in Processes : minted'[q] \subseteq minted[q]
           /\ RawGrows
  BY DEF ChildTypeOK, SavesKept, RawGrows

\* A row that is unread stays so while the cursor does not move.
LEMMA UnreadGrows ==
    ASSUME RawGrows, NEW r, cursor'[r] = cursor[r]
    PROVE  Unread(r) \subseteq Unread(r)'
  BY DEF Unread, RawGrows, ResourceAt

\* A step of process p that respects the others' locks.
LEMMA StepKeepsCInv ==
    ASSUME CInv, NEW p \in Processes,
           ChildTypeOK', RawGrows,
           \A q \in Processes \ {p} :
               /\ run'[q] = run[q]
               /\ \A r \in Resources :
                     lock[r] = q => lock'[r] = q /\ cursor'[r] = cursor[r],
           ChainMakesSense(p)',
           run'[p].seen \subseteq ExistingListings',
           ExistingListings \subseteq ExistingListings',
           StoreShowsHistory', LinkNeedsRow'
    PROVE  CInv'
<1>1. ASSUME NEW q \in Processes, q # p
      PROVE  ChainMakesSense(q)' /\ run'[q].seen \subseteq ExistingListings'
  <2>1. run'[q] = run[q] /\ Current(q)' = Current(q)
    BY <1>1 DEF Current
  <2>2. ChainMakesSense(q) /\ run[q].seen \subseteq ExistingListings
    BY DEF CInv, ChainsMakeSense, SeenExist
  <2>3. ASSUME run[q].at \in Holding
        PROVE  lock'[Current(q)] = q /\ cursor'[Current(q)] = cursor[Current(q)]
    <3>1. lock[Current(q)] = q /\ run[q].chain # << >>
      BY <2>2, <2>3 DEF ChainMakesSense, Busy, Holding
    <3>2. Current(q) \in Resources
      BY <3>1, CurrentResource DEF CInv
    <3> QED
      BY <1>1, <3>1, <3>2
  <2>4. run[q].at = "writing" => Unread(Current(q)) \subseteq Unread(Current(q))'
    <3> SUFFICES ASSUME run[q].at = "writing"
                 PROVE  Unread(Current(q)) \subseteq Unread(Current(q))'
      OBVIOUS
    <3>1. cursor'[Current(q)] = cursor[Current(q)]
      BY <2>3 DEF Holding
    <3> QED
      BY <2>1, <3>1, UnreadGrows
  <2>5. ChainMakesSense(q)'
    BY <2>1, <2>2, <2>3, <2>4 DEF ChainMakesSense
  <2> QED
    BY <2>1, <2>2, <2>5
<1>2. ChainsMakeSense'
  BY <1>1 DEF ChainsMakeSense
<1>3. SeenExist'
  BY <1>1 DEF SeenExist
<1> QED
  BY <1>2, <1>3 DEF CInv

\* A step that writes no rows.
LEMMA RowsAlone ==
    ASSUME CInv, UNCHANGED <<store, link>>
    PROVE  /\ ExistingListings' = ExistingListings
           /\ StoreShowsHistory' /\ LinkNeedsRow'
           /\ LinksFollow
<1>1. ExistingListings' = ExistingListings
  BY DEF ExistingListings
<1>2. StoreShowsHistory' /\ LinkNeedsRow'
  BY DEF CInv, StoreShowsHistory, LinkNeedsRow
<1>3. LinksFollow
  BY <1>1 DEF LinksFollow, Named
<1> QED
  BY <1>1, <1>2, <1>3

----------------------------------------------------------------------------
(* The steps *)

LEMMA NewRunType ==
    ASSUME ChildTypeOK, NEW p \in Processes, NEW s \in RunState, SetRunAt(p, s)
    PROVE  /\ run' \in [Processes -> RunState]
           /\ run'[p] = s
           /\ \A q \in Processes \ {p} : run'[q] = run[q]
  BY DEF ChildTypeOK, SetRunAt

LEMMA OffIsRun ==
    \A at \in {"off", "done", "failed"} :
        /\ [Off EXCEPT !.at = at] \in RunState
        /\ [Off EXCEPT !.at = at].at = at
        /\ [Off EXCEPT !.at = at].seen = {}
<1>1. << >> \in Seq(Resources)
  OBVIOUS
<1>2. Off \in RunState /\ Off.seen = {}
  BY <1>1 DEF Off, RunState
<1> QED
  BY <1>2 DEF RunState

LEMMA AppendToOne ==
    ASSUME NEW S, NEW a \in S, NEW b \in S
    PROVE  Append(<< a >>, b) = << a, b >>
<1> DEFINE s == Append(<< a >>, b)
           t == << a, b >>
<1>1. << a >> \in Seq(S) /\ Len(<< a >>) = 1 /\ << a >>[1] = a
  OBVIOUS
<1>2. t \in Seq(S) /\ Len(t) = 2 /\ t[1] = a /\ t[2] = b
  OBVIOUS
<1>3. s \in Seq(S) /\ Len(s) = 2 /\ s[1] = a /\ s[2] = b
  BY <1>1, AppendProperties
<1> HIDE DEF s, t
<1>4. \A i \in 1 .. Len(s) : s[i] = t[i]
  BY <1>2, <1>3
<1>5. s = t
  BY <1>2, <1>3, <1>4, SeqEqual
<1> QED
  BY <1>5 DEF s, t

\* The chains are made of resources.
LEMMA ChainIsSequence ==
    /\ \A chain \in Chains : chain \in Seq(Resources) /\ chain # << >>
    /\ << Property >> \o ChildResources = << Property, "property_rooms" >>
<1>2. /\ Property \in Resources /\ OpenHouse \in Resources
      /\ "property_rooms" \in Resources
  BY DEF Resources
<1>1. << Property >> \o ChildResources = << Property, "property_rooms" >>
  <2>1. ASSUME NEW S, NEW a \in S, NEW b \in S
        PROVE  << a >> \o << b >> = << a, b >>
    <3>1. << a >> \in Seq(S)
      OBVIOUS
    <3>2. Append(<< a >>, b) = << a >> \o << b >>
      BY <3>1, AppendIsConcat
    <3>3. Append(<< a >>, b) = << a, b >>
      BY AppendToOne
    <3> QED
      BY <3>2, <3>3
  <2> QED
    BY <1>2, <2>1 DEF ChildResources
<1>3. << Property, "property_rooms" >> \in Seq(Resources)
  BY <1>2
<1>4. << OpenHouse >> \in Seq(Resources)
  BY <1>2
<1>5. << Property, "property_rooms" >> # << >> /\ << OpenHouse >> # << >>
  OBVIOUS
<1> QED
  BY <1>1, <1>3, <1>4, <1>5 DEF Chains

LinksAreGood ==
    /\ link' \in [Children -> Listings \cup {NoLink}]
    /\ LinkNeedsRow'
    /\ LinksFollow

\* What an action that leaves the rows and the cursors alone needs.
LEMMA PassStep ==
    ASSUME CInv, NEW p \in Processes, NEW s \in RunState, SetRunAt(p, s),
           SavesKept(p), UNCHANGED <<store, cursor, projected>>,
           LinksAreGood,
           lock' \in [Resources -> Processes \cup {NoProcess}],
           \A q \in Processes \ {p}, r \in Resources : lock[r] = q => lock'[r] = q,
           ChainMakesSense(p)',
           s.seen \subseteq ExistingListings
    PROVE  CInv' /\ Progress
<1>1. ChildTypeOK
  BY DEF CInv
<1>2. /\ run' \in [Processes -> RunState]
      /\ run'[p] = s
      /\ \A q \in Processes \ {p} : run'[q] = run[q]
  BY <1>1, NewRunType
<1>3. ChildTypeOK'
  BY <1>1, <1>2, KeptSavesType DEF ChildTypeOK, LinksAreGood, SavesKept
<1>4. RawGrows
  BY <1>1, KeptSavesType
<1>5. CursorsGrow
  BY <1>1 DEF CursorsGrow, ChildTypeOK
<1>6. ExistingListings' = ExistingListings /\ StoreShowsHistory'
  BY DEF CInv, ExistingListings, StoreShowsHistory
<1>7. CInv'
  <2>1. \A q \in Processes \ {p} :
           /\ run'[q] = run[q]
           /\ \A r \in Resources :
                 lock[r] = q => lock'[r] = q /\ cursor'[r] = cursor[r]
    BY <1>2
  <2> QED
    BY <1>2, <1>3, <1>4, <1>6, <2>1, StepKeepsCInv DEF LinksAreGood
<1> QED
  BY <1>4, <1>5, <1>7 DEF Progress, LinksAreGood

LEMMA RunStep ==
    ASSUME CInv, NEW p \in Processes, NEW s \in RunState, SetRunAt(p, s),
           SavesKept(p), UNCHANGED rowVars,
           lock' \in [Resources -> Processes \cup {NoProcess}],
           \A q \in Processes \ {p}, r \in Resources : lock[r] = q => lock'[r] = q,
           ChainMakesSense(p)',
           s.seen \subseteq ExistingListings
    PROVE  CInv' /\ Progress
<1>1. LinksAreGood
  BY RowsAlone DEF LinksAreGood, CInv, ChildTypeOK
<1>2. UNCHANGED <<store, cursor, projected>>
  OBVIOUS
<1> QED
  BY <1>1, <1>2, PassStep

\* What a step on the pages that are being saved needs.
LEMMA SaveStep ==
    ASSUME CInv, UNCHANGED chainVars, RawGrows,
           minted' \in [Processes -> SUBSET DOMAIN raw'],
           committed' \subseteq DOMAIN raw', apart' \in BOOLEAN
    PROVE  CInv' /\ Progress
<1>1. ChildTypeOK
  BY DEF CInv
<1>2. UNCHANGED <<store, link, cursor, projected, lock, run>>
  BY DEF chainVars
<1>3. ChildTypeOK'
  BY <1>1, <1>2 DEF ChildTypeOK, RawGrows
<1>4. CursorsGrow
  BY <1>1, <1>2 DEF CursorsGrow, ChildTypeOK
<1>5. /\ ExistingListings' = ExistingListings
      /\ StoreShowsHistory' /\ LinkNeedsRow'
      /\ LinksFollow
  BY <1>2, RowsAlone
<1>6. ChainsMakeSense'
  <2>1. \A r : Unread(r) \subseteq Unread(r)'
    BY <1>2, UnreadGrows
  <2>2. \A p \in Processes : Current(p)' = Current(p)
    BY <1>2 DEF Current
  <2>3. \A p \in Processes : ChainMakesSense(p)
    BY DEF CInv, ChainsMakeSense
  <2>4. ASSUME NEW p \in Processes PROVE ChainMakesSense(p)'
    BY <1>2, <2>1, <2>2, <2>3 DEF ChainMakesSense
  <2> QED
    BY <2>4 DEF ChainsMakeSense
<1>7. SeenExist'
  BY <1>2, <1>5 DEF CInv, SeenExist
<1> QED
  BY <1>3, <1>4, <1>5, <1>6, <1>7 DEF CInv, Progress

\* A page's ids follow all the ids there are, in the order of its rows.
LEMMA MintedIds ==
    ASSUME ChildTypeOK, NEW p \in Processes, NEW page \in Seq(Row), MintIds(p, page)
    PROVE  /\ RawGrows
           /\ DOMAIN raw' = DOMAIN raw \cup minted'[p]
           /\ \A i \in DOMAIN raw, j \in minted'[p] : i < j
           /\ \A j \in minted'[p] : \E n \in DOMAIN page : raw'[j] = page[n]
           /\ \A n \in DOMAIN page : \E j \in minted'[p] : raw'[j] = page[n]
           /\ minted' = [minted EXCEPT ![p] = minted'[p]]
           /\ minted'[p] # {}
<1>1. /\ raw \in Seq(Row) /\ Len(raw) \in Nat /\ DOMAIN raw = 1 .. Len(raw)
      /\ Len(page) \in Nat /\ DOMAIN page = 1 .. Len(page) /\ Len(page) # 0
  BY DEF ChildTypeOK, MintIds
<1>2. /\ raw' = raw \o page
      /\ minted' = [minted EXCEPT ![p] = Len(raw) + 1 .. Len(raw) + Len(page)]
      /\ UNCHANGED committed
  BY DEF MintIds
<1>3. minted'[p] = Len(raw) + 1 .. Len(raw) + Len(page)
  BY <1>2 DEF ChildTypeOK
<1>4. /\ raw' \in Seq(Row) /\ Len(raw') = Len(raw) + Len(page)
      /\ \A i \in 1 .. Len(raw) + Len(page) :
            raw'[i] = IF i <= Len(raw) THEN raw[i] ELSE page[i - Len(raw)]
  BY <1>1, <1>2, ConcatProperties, Zenon
<1>5. DOMAIN raw' = 1 .. Len(raw) + Len(page)
  BY <1>4
<1>6. \A i \in DOMAIN raw : raw'[i] = raw[i]
  BY <1>1, <1>4
<1>7. RawGrows
  BY <1>1, <1>2, <1>4, <1>5, <1>6 DEF RawGrows, ChildTypeOK
<1>8. ASSUME NEW j \in minted'[p]
      PROVE  j - Len(raw) \in DOMAIN page /\ raw'[j] = page[j - Len(raw)]
  BY <1>1, <1>3, <1>4
<1>9. ASSUME NEW n \in DOMAIN page
      PROVE  Len(raw) + n \in minted'[p] /\ raw'[Len(raw) + n] = page[n]
  <2>1. Len(raw) + n \in minted'[p]
    BY <1>1, <1>3
  <2>2. Len(raw) + n - Len(raw) = n
    BY <1>1
  <2> QED
    BY <1>8, <2>1, <2>2
<1>10. DOMAIN raw' = DOMAIN raw \cup minted'[p]
  BY <1>1, <1>3, <1>5
<1>11. \A i \in DOMAIN raw, j \in minted'[p] : i < j
  BY <1>1, <1>3
<1>12. minted'[p] # {}
  BY <1>1, <1>9
<1> QED
  BY <1>2, <1>3, <1>7, <1>8, <1>9, <1>10, <1>11, <1>12

LEMMA MintIdsStep ==
    ASSUME CInv, NEW p \in Processes, NEW page \in Seq(Row), MintIds(p, page)
    PROVE  CInv' /\ Progress
<1>1. ChildTypeOK
  BY DEF CInv
<1>2. /\ RawGrows /\ DOMAIN raw' = DOMAIN raw \cup minted'[p]
      /\ minted' = [minted EXCEPT ![p] = minted'[p]]
  BY <1>1, MintedIds
<1>3. UNCHANGED <<committed, chainVars>> /\ apart' \in BOOLEAN
  BY DEF MintIds
<1>4. minted' \in [Processes -> SUBSET DOMAIN raw']
  BY <1>1, <1>2 DEF ChildTypeOK
<1>5. committed' \subseteq DOMAIN raw'
  BY <1>1, <1>2, <1>3 DEF ChildTypeOK
<1> QED
  BY <1>2, <1>3, <1>4, <1>5, SaveStep

LEMMA SavePageStep ==
    ASSUME CInv, NEW p \in Processes, SavePage(p)
    PROVE  CInv' /\ Progress
<1>1. ChildTypeOK
  BY DEF CInv
<1>2. /\ UNCHANGED <<raw, apart, chainVars>>
      /\ committed' = committed \cup {i \in minted[p] : ~Saved(raw[i])}
      /\ minted' = [minted EXCEPT ![p] = {}]
  BY DEF SavePage
<1>3. RawGrows
  BY <1>1, <1>2 DEF RawGrows, ChildTypeOK
<1>4. /\ minted' \in [Processes -> SUBSET DOMAIN raw']
      /\ committed' \subseteq DOMAIN raw' /\ apart' \in BOOLEAN
  BY <1>1, <1>2 DEF ChildTypeOK
<1> QED
  BY <1>2, <1>3, <1>4, SaveStep

\* After its commit every row of a page is in the table, under this id or another.
LEMMA PageIsSaved ==
    ASSUME ChildTypeOK, NEW p \in Processes, SavePage(p), NEW i \in minted[p]
    PROVE  Saved(raw[i])'
<1>1. /\ UNCHANGED raw
      /\ committed' = committed \cup {j \in minted[p] : ~Saved(raw[j])}
  BY DEF SavePage
<1> QED
  BY <1>1 DEF Saved

LEMMA DropPageStep ==
    ASSUME CInv, NEW p \in Processes, DropPage(p), UNCHANGED chainVars
    PROVE  CInv' /\ Progress
<1>1. SavesKept(p)
  BY DEF DropPage, SavesKept
<1>2. /\ minted' \in [Processes -> SUBSET DOMAIN raw'] /\ RawGrows
      /\ UNCHANGED <<raw, committed, apart>>
  BY <1>1, KeptSavesType DEF CInv, SavesKept
<1>3. committed' \subseteq DOMAIN raw' /\ apart' \in BOOLEAN
  BY <1>2 DEF CInv, ChildTypeOK
<1> QED
  BY <1>2, <1>3, SaveStep

LEMMA StartChainStep ==
    ASSUME CInv, NEW p \in Processes, NEW chain \in Chains, NEW final \in BOOLEAN,
           StartChain(p, chain, final)
    PROVE  CInv' /\ Progress
<1> DEFINE s == [Off EXCEPT !.at = "waiting", !.chain = chain, !.final = final]
<1>1. chain \in Seq(Resources) /\ chain # << >>
  BY ChainIsSequence
<1>2. s \in RunState /\ s.at = "waiting" /\ s.chain = chain /\ s.seen = {}
  <2>1. Off \in RunState /\ Off.seen = {}
    BY OffIsRun DEF Off
  <2> QED
    BY <1>1, <2>1 DEF RunState
<1>3. SetRunAt(p, s) /\ SavesKept(p) /\ UNCHANGED <<rowVars, lock>>
  BY DEF StartChain, SavesKept
<1> HIDE DEF s
<1>4. run'[p] = s
  BY <1>2, <1>3, NewRunType DEF CInv
<1>5. ChainMakesSense(p)'
  BY <1>1, <1>2, <1>4 DEF ChainMakesSense, Holding
<1>6. lock' \in [Resources -> Processes \cup {NoProcess}]
  BY <1>3 DEF CInv, ChildTypeOK
<1> QED
  BY <1>2, <1>3, <1>5, <1>6, RunStep

LEMMA AcquireLockStep ==
    ASSUME CInv, NEW p \in Processes, AcquireLock(p)
    PROVE  CInv' /\ Progress
<1> DEFINE s == [run[p] EXCEPT !.at = "draining"]
<1>1. run[p] \in RunState /\ run[p].at = "waiting" /\ run[p].chain # << >>
  BY DEF CInv, ChildTypeOK, ChainsMakeSense, ChainMakesSense, AcquireLock, Busy
<1>2. /\ s \in RunState /\ s.at = "draining"
      /\ s.chain = run[p].chain /\ s.seen = run[p].seen
  BY <1>1 DEF RunState
<1>3. /\ SetRunAt(p, s) /\ SavesKept(p) /\ UNCHANGED rowVars
      /\ lock' = [lock EXCEPT ![Current(p)] = p]
      /\ lock[Current(p)] = NoProcess
  BY DEF AcquireLock, SavesKept
<1> HIDE DEF s
<1>4. run'[p] = s
  BY <1>2, <1>3, NewRunType DEF CInv
<1>5. Current(p) \in Resources
  BY <1>1, CurrentResource DEF CInv
<1>6. lock \in [Resources -> Processes \cup {NoProcess}]
  BY DEF CInv, ChildTypeOK
<1>7. /\ lock' \in [Resources -> Processes \cup {NoProcess}]
      /\ lock'[Current(p)] = p
      /\ \A q \in Processes \ {p}, r \in Resources : lock[r] = q => lock'[r] = q
  BY <1>3, <1>5, <1>6, ConstantFacts
<1>8. Current(p)' = Current(p)
  BY <1>2, <1>4 DEF Current
<1>9. ChainMakesSense(p)'
  BY <1>1, <1>2, <1>4, <1>7, <1>8 DEF ChainMakesSense
<1>10. s.seen \subseteq ExistingListings
  BY <1>2 DEF CInv, SeenExist
<1> QED
  BY <1>2, <1>3, <1>7, <1>9, <1>10, RunStep

LEMMA BeginChunkStep ==
    ASSUME CInv, NEW p \in Processes, BeginChunk(p)
    PROVE  CInv' /\ Progress
<1>1. PICK rows \in SUBSET Unread(Current(p)) :
         /\ IsChunk(rows, Current(p))
         /\ SetRunAt(p, [run[p] EXCEPT
                !.at = "writing",
                !.rows = rows,
                !.seen = IF Current(p) = Property THEN {} ELSE ExistingListings,
                !.unlinked = /\ Cardinality(rows) = 1
                             /\ \E i \in rows : /\ raw[i].key \in Children
                                                /\ link[raw[i].key] = NoLink])
  BY Zenon DEF BeginChunk
<1> DEFINE seen == IF Current(p) = Property THEN {} ELSE ExistingListings
           unlinked == /\ Cardinality(rows) = 1
                       /\ \E i \in rows : /\ raw[i].key \in Children
                                          /\ link[raw[i].key] = NoLink
           s == [run[p] EXCEPT !.at = "writing", !.rows = rows, !.seen = seen,
                               !.unlinked = unlinked]
<1>2. SetRunAt(p, s)
  BY <1>1
<1>3. /\ run[p] \in RunState /\ run[p].at = "draining" /\ run[p].chain # << >>
      /\ lock[Current(p)] = p
  BY DEF CInv, ChildTypeOK, ChainsMakeSense, ChainMakesSense, BeginChunk, Busy, Holding
<1>4. seen \subseteq ExistingListings /\ seen \in SUBSET Listings
  BY DEF ExistingListings
<1>5. unlinked \in BOOLEAN
  OBVIOUS
<1>6. rows \in SUBSET Nat /\ rows # {} /\ rows \subseteq Unread(Current(p))
  BY <1>1, CommittedRows DEF CInv, IsChunk, Unread
<1> HIDE DEF seen, unlinked
<1>7. /\ s \in RunState /\ s.at = "writing" /\ s.rows = rows
      /\ s.chain = run[p].chain /\ s.seen = seen
  BY <1>3, <1>4, <1>5, <1>6 DEF RunState
<1> HIDE DEF s
<1>8. run'[p] = s
  BY <1>2, <1>7, NewRunType DEF CInv
<1>9. SavesKept(p) /\ UNCHANGED <<raw, committed, rowVars, lock>>
  BY DEF BeginChunk, SavesKept
<1>10. Current(p)' = Current(p)
  BY <1>7, <1>8 DEF Current
<1>11. Unread(Current(p))' = Unread(Current(p))
  BY <1>9, <1>10 DEF Unread, ResourceAt
<1>12. ChainMakesSense(p)'
  BY <1>3, <1>6, <1>7, <1>8, <1>9, <1>10, <1>11 DEF ChainMakesSense
<1>13. lock' \in [Resources -> Processes \cup {NoProcess}]
  BY <1>9 DEF CInv, ChildTypeOK
<1> QED
  BY <1>2, <1>4, <1>7, <1>9, <1>12, <1>13, RunStep

----------------------------------------------------------------------------
(* A transaction's writes *)

LEMMA NamedFromContents ==
    ASSUME NEW c \in Children
    PROVE  /\ Named(c) = {ListingOf[v] : v \in Contents(store[c])}
           /\ Named(c)' = {ListingOf[v] : v \in Contents(store'[c])}
  BY DEF Named, Contents

\* A row's write leaves the link, or sets it to the listing the row names, which
\* the transaction has seen.
LEMMA WrittenLinkIs ==
    ASSUME CInv, NEW c \in Children, NEW row \in Row, NEW t
    PROVE  \/ WrittenLink(c, row, t) = link[c]
           \/ /\ WrittenLink(c, row, t) = ListingOf[row.val]
              /\ ListingOf[row.val] \in t.seen
              /\ PlanFor(store[c], row) \notin Skips
<1> DEFINE plan == PlanFor(store[c], row)
           fk == ParentFK(row, t.seen)
<1>1. fk = NoLink \/ (fk = ListingOf[row.val] /\ ListingOf[row.val] \in t.seen)
  BY DEF ParentFK
<1>2. store[c] \in KeyState
  BY ConstantFacts DEF CInv, ChildTypeOK
<1>3. CASE plan \in {"Insert", "DeleteFirstSighting"}
  <2>1. ~Exists(store[c])
    BY <1>2, <1>3, DecideNames DEF PlanFor
  <2>2. link[c] = NoLink
    BY <2>1 DEF CInv, LinkNeedsRow
  <2>3. WrittenLink(c, row, t) = fk
    BY <1>3 DEF WrittenLink
  <2> QED
    BY <1>1, <1>3, <2>2, <2>3 DEF Skips
<1>4. CASE plan = "Update"
  <2>1. WrittenLink(c, row, t) = UpdatedLink(c, fk, t)
    BY <1>4 DEF WrittenLink
  <2>2. UpdatedLink(c, fk, t) = link[c]
           \/ (UpdatedLink(c, fk, t) = fk /\ fk # NoLink)
    BY DEF UpdatedLink
  <2> QED
    BY <1>1, <1>4, <2>1, <2>2 DEF Skips
<1>5. CASE plan \notin {"Insert", "DeleteFirstSighting", "Update"}
  BY <1>5 DEF WrittenLink
<1> QED
  BY <1>3, <1>4, <1>5

LEMMA CommitChunkStep ==
    ASSUME CInv, NEW p \in Processes, CommitChunk(p)
    PROVE  CInv' /\ Progress
<1> DEFINE rows == run[p].rows
           s == [run[p] EXCEPT !.at = "draining", !.rows = {}, !.seen = {},
                               !.unlinked = FALSE]
<1>1. ChildTypeOK
  BY DEF CInv
<1>2. /\ run[p] \in RunState /\ run[p].at = "writing" /\ run[p].chain # << >>
      /\ lock[Current(p)] = p
      /\ rows # {} /\ rows \subseteq Unread(Current(p))
      /\ run[p].seen \subseteq ExistingListings
  BY DEF CInv, ChildTypeOK, ChainsMakeSense, ChainMakesSense, SeenExist,
         CommitChunk, Busy, Holding
<1>3. /\ s \in RunState /\ s.at = "draining" /\ s.seen = {}
      /\ s.chain = run[p].chain
  BY <1>2 DEF RunState
<1>4. /\ SetRunAt(p, s) /\ UNCHANGED <<saveVars, lock>>
      /\ projected' = projected \cup rows
      /\ store' = [k \in Keys |->
            IF k \in Touched(rows)
            THEN Process(store[k], raw[RowFor(k, rows)], RowFor(k, rows))
            ELSE store[k]]
      /\ link' = [c \in Children |->
            IF c \in Touched(rows)
            THEN WrittenLink(c, raw[RowFor(c, rows)], run[p])
            ELSE link[c]]
      /\ \E last \in rows : cursor' = [cursor EXCEPT ![Current(p)] = last]
  BY DEF CommitChunk
<1> HIDE DEF s, rows
<1>5. ASSUME NEW k \in Touched(rows)
      PROVE  /\ RowFor(k, rows) \in Nat
             /\ raw[RowFor(k, rows)] \in Row
  <2>1. RowFor(k, rows) \in rows
    BY DEF RowFor, Touched
  <2>2. RowFor(k, rows) \in DOMAIN raw
    BY <1>1, <1>2, <2>1, CommittedRows DEF Unread
  <2> QED
    BY <1>1, <2>2, RawRows
<1>6. ASSUME NEW k \in Keys
      PROVE  /\ store'[k] \in KeyState
             /\ Contents(store[k]) \subseteq Contents(store'[k])
             /\ ShowsHistory(store'[k])
             /\ Exists(store[k]) => Exists(store'[k])
             /\ k \in Touched(rows)
                /\ PlanFor(store[k], raw[RowFor(k, rows)]) \notin Skips =>
                   /\ Exists(store'[k])
                   /\ raw[RowFor(k, rows)].val \in Contents(store'[k])
  <2>1. store[k] \in KeyState /\ ShowsHistory(store[k])
    BY DEF CInv, ChildTypeOK, StoreShowsHistory
  <2>2. CASE k \in Touched(rows)
    <3>1. store'[k] = Process(store[k], raw[RowFor(k, rows)], RowFor(k, rows))
      BY <1>4, <2>2
    <3>2. store'[k] \in KeyState
      BY <1>5, <2>1, <2>2, <3>1, ProcessType
    <3> QED
      BY <1>5, <2>1, <2>2, <3>1, <3>2, ProcessContents
  <2>3. CASE k \notin Touched(rows)
    <3>1. store'[k] = store[k]
      BY <1>4, <2>3
    <3> QED
      BY <2>1, <2>3, <3>1
  <2> QED
    BY <2>2, <2>3
<1>7. ASSUME NEW c \in Children
      PROVE  \/ link'[c] = link[c]
             \/ /\ c \in Touched(rows)
                /\ link'[c] = ListingOf[raw[RowFor(c, rows)].val]
                /\ link'[c] \in ExistingListings
                /\ PlanFor(store[c], raw[RowFor(c, rows)]) \notin Skips
  <2>1. CASE c \in Touched(rows)
    <3>1. link'[c] = WrittenLink(c, raw[RowFor(c, rows)], run[p])
      BY <1>4, <2>1
    <3> QED
      BY <1>2, <1>5, <2>1, <3>1, WrittenLinkIs
  <2>2. CASE c \notin Touched(rows)
    BY <1>4, <2>2
  <2> QED
    BY <2>1, <2>2
<1>8. ExistingListings \subseteq ExistingListings'
  BY <1>6, ConstantFacts DEF ExistingListings
<1>9. LinksFollow
  <2>1. ASSUME NEW c \in Children
        PROVE  /\ Named(c) \subseteq Named(c)'
               /\ link'[c] = link[c] \/ link'[c] \in Named(c)' \cap ExistingListings'
    <3>1. c \in Keys
      BY ConstantFacts
    <3>2. Named(c) \subseteq Named(c)'
      BY <1>6, <3>1, NamedFromContents
    <3>3. ASSUME link'[c] # link[c]
          PROVE  link'[c] \in Named(c)' \cap ExistingListings'
      BY <1>6, <1>7, <1>8, <3>1, <3>3, NamedFromContents
    <3> QED
      BY <3>2, <3>3
  <2> QED
    BY <1>8, <2>1 DEF LinksFollow
<1>10. LinkNeedsRow'
  <2>1. ASSUME NEW c \in Children, ~Exists(store'[c])
        PROVE  link'[c] = NoLink
    <3>1. c \in Keys
      BY ConstantFacts
    <3>2. ~Exists(store[c]) /\ link'[c] = link[c]
      BY <1>6, <1>7, <2>1, <3>1
    <3> QED
      BY <3>2 DEF CInv, LinkNeedsRow
  <2> QED
    BY <2>1 DEF LinkNeedsRow
<1>11. StoreShowsHistory'
  BY <1>6 DEF StoreShowsHistory
<1>12. /\ run' \in [Processes -> RunState]
       /\ run'[p] = s
       /\ \A q \in Processes \ {p} : run'[q] = run[q]
  BY <1>1, <1>3, <1>4, NewRunType
<1>13. PICK last \in rows : cursor' = [cursor EXCEPT ![Current(p)] = last]
  BY <1>4
<1>14. last \in Nat /\ last > cursor[Current(p)]
  BY <1>1, <1>2, CommittedRows DEF Unread
<1>15. Current(p) \in Resources
  BY <1>1, <1>2, CurrentResource
<1>16. cursor \in [Resources -> Nat]
  BY <1>1 DEF ChildTypeOK
<1>17. /\ cursor' \in [Resources -> Nat]
       /\ CursorsGrow
       /\ \A r \in Resources \ {Current(p)} : cursor'[r] = cursor[r]
  BY <1>13, <1>14, <1>15, <1>16 DEF CursorsGrow
<1>18. link' \in [Children -> Listings \cup {NoLink}]
  <2>1. \A c \in Children : link'[c] \in Listings \cup {NoLink}
    BY <1>1, <1>7 DEF ChildTypeOK, ExistingListings
  <2> QED
    BY <1>4, <2>1
<1>19. ChildTypeOK'
  <2>1. store' \in [Keys -> KeyState]
    BY <1>4, <1>6
  <2> QED
    BY <1>1, <1>2, <1>4, <1>12, <1>17, <1>18, <2>1 DEF ChildTypeOK, Unread
<1>20. RawGrows
  BY <1>1, <1>4 DEF RawGrows, ChildTypeOK
<1>21. ChainMakesSense(p)'
  <2>1. Current(p)' = Current(p)
    BY <1>3, <1>12 DEF Current
  <2> QED
    BY <1>2, <1>3, <1>4, <1>12, <2>1 DEF ChainMakesSense
<1>22. CInv'
  <2>1. \A q \in Processes \ {p} :
           /\ run'[q] = run[q]
           /\ \A r \in Resources :
                 lock[r] = q => lock'[r] = q /\ cursor'[r] = cursor[r]
    BY <1>2, <1>4, <1>12, <1>17
  <2>2. run'[p].seen \subseteq ExistingListings'
    BY <1>3, <1>12
  <2> QED
    BY <1>8, <1>10, <1>11, <1>19, <1>20, <1>21, <2>1, <2>2, StepKeepsCInv
<1> QED
  BY <1>9, <1>17, <1>20, <1>22 DEF Progress

----------------------------------------------------------------------------
(* The end of a pass and of a chain *)

LEMMA EndPassStep ==
    ASSUME CInv, NEW p \in Processes, EndPass(p),
           run[p].at \in {"draining", "relinking"},
           LinksAreGood, SavesKept(p), UNCHANGED <<store, cursor, projected>>
    PROVE  CInv' /\ Progress
<1> DEFINE rest == Tail(run[p].chain)
           s == [run[p] EXCEPT !.at = IF rest = << >> THEN "done" ELSE "waiting",
                               !.chain = rest, !.tables = << >>]
<1>1. /\ run[p] \in RunState /\ run[p].chain # << >> /\ lock[Current(p)] = p
      /\ run[p].seen \subseteq ExistingListings
  BY DEF CInv, ChildTypeOK, ChainsMakeSense, ChainMakesSense, SeenExist, Busy,
         Holding
<1>2. Current(p) \in Resources /\ rest \in Seq(Resources)
  BY <1>1, CurrentResource DEF CInv
<1>3. SetRunAt(p, s) /\ lock' = [lock EXCEPT ![Current(p)] = NoProcess]
  BY DEF EndPass
<1> HIDE DEF rest
<1>4. << >> \in Seq(Resources)
  OBVIOUS
<1>5. /\ s \in RunState /\ s.chain = rest /\ s.seen = run[p].seen
      /\ s.at = IF rest = << >> THEN "done" ELSE "waiting"
  BY <1>1, <1>2, <1>4 DEF RunState
<1> HIDE DEF s
<1>6. run'[p] = s
  BY <1>3, <1>5, NewRunType DEF CInv
<1>7. ChainMakesSense(p)'
  BY <1>5, <1>6 DEF ChainMakesSense, Busy, Holding
<1>8. lock \in [Resources -> Processes \cup {NoProcess}]
  BY DEF CInv, ChildTypeOK
<1>9. /\ lock' \in [Resources -> Processes \cup {NoProcess}]
      /\ \A q \in Processes \ {p}, r \in Resources : lock[r] = q => lock'[r] = q
  BY <1>1, <1>2, <1>3, <1>8
<1> QED
  BY <1>1, <1>3, <1>5, <1>7, <1>9, PassStep

LEMMA DrainedStep ==
    ASSUME CInv, NEW p \in Processes, Drained(p)
    PROVE  CInv' /\ Progress
<1>1. run[p].at = "draining" /\ SavesKept(p) /\ UNCHANGED rowVars
  BY DEF Drained, SavesKept
<1>2. CASE Finalizes(p)
  <2> DEFINE s == [run[p] EXCEPT !.at = "relinking", !.tables = Relinked]
  <2>1. /\ run[p] \in RunState /\ run[p].chain # << >> /\ lock[Current(p)] = p
        /\ run[p].seen \subseteq ExistingListings
    BY <1>1 DEF CInv, ChildTypeOK, ChainsMakeSense, ChainMakesSense, SeenExist,
                Busy, Holding
  <2>2. Relinked \in Seq(Resources) /\ Relinked # << >>
    <3>1. "property_rooms" \in Resources /\ OpenHouse \in Resources
      BY DEF Resources
    <3> QED
      BY <3>1 DEF Relinked
  <2>3. /\ s \in RunState /\ s.at = "relinking" /\ s.tables = Relinked
        /\ s.chain = run[p].chain /\ s.seen = run[p].seen
    BY <2>1, <2>2 DEF RunState
  <2>4. SetRunAt(p, s) /\ UNCHANGED lock
    BY <1>2 DEF Drained
  <2> HIDE DEF s
  <2>5. run'[p] = s
    BY <2>3, <2>4, NewRunType DEF CInv
  <2>6. Current(p)' = Current(p)
    BY <2>3, <2>5 DEF Current
  <2>7. ChainMakesSense(p)'
    BY <2>1, <2>2, <2>3, <2>4, <2>5, <2>6 DEF ChainMakesSense
  <2>8. lock' \in [Resources -> Processes \cup {NoProcess}]
    BY <2>4 DEF CInv, ChildTypeOK
  <2> QED
    BY <1>1, <2>1, <2>3, <2>4, <2>7, <2>8, RunStep
<1>3. CASE ~Finalizes(p)
  <2>1. EndPass(p)
    BY <1>3 DEF Drained
  <2>2. LinksAreGood
    BY <1>1, RowsAlone DEF LinksAreGood, CInv, ChildTypeOK
  <2> QED
    BY <1>1, <2>1, <2>2, EndPassStep
<1> QED
  BY <1>2, <1>3

LEMMA RelinkTableStep ==
    ASSUME CInv, NEW p \in Processes, RelinkTable(p)
    PROVE  CInv' /\ Progress
<1> DEFINE table == Head(run[p].tables)
<1>1. /\ run[p].at = "relinking" /\ SavesKept(p) /\ UNCHANGED <<store, cursor, projected>>
      /\ link' = [c \in Children |-> Relink(c, table)]
  BY DEF RelinkTable, SavesKept
<1> HIDE DEF table
<1>2. ASSUME NEW c \in Children
      PROVE  \/ link'[c] = link[c]
             \/ /\ Exists(store[c])
                /\ link'[c] = ListingOf[store[c].ent.val]
                /\ link'[c] \in ExistingListings
  BY <1>1 DEF Relink
<1>3. ExistingListings' = ExistingListings
  BY <1>1 DEF ExistingListings
<1>4. ASSUME NEW c \in Children
      PROVE  /\ Named(c) \subseteq Named(c)'
             /\ link'[c] = link[c] \/ link'[c] \in Named(c)' \cap ExistingListings'
  <2>1. Named(c)' = Named(c) /\ c \in Keys
    BY <1>1, ConstantFacts DEF Named
  <2>2. Exists(store[c]) => ListingOf[store[c].ent.val] \in Named(c)
    BY <2>1, NamedFromContents DEF CInv, StoreShowsHistory, ShowsHistory
  <2> QED
    BY <1>2, <1>3, <2>1, <2>2
<1>5. LinksAreGood
  <2>1. link' \in [Children -> Listings \cup {NoLink}]
    <3>1. \A c \in Children : link'[c] \in Listings \cup {NoLink}
      BY <1>2 DEF CInv, ChildTypeOK, ExistingListings
    <3> QED
      BY <1>1, <3>1
  <2>2. LinkNeedsRow'
    BY <1>1, <1>2 DEF CInv, LinkNeedsRow
  <2>3. LinksFollow
    BY <1>3, <1>4 DEF LinksFollow
  <2> QED
    BY <2>1, <2>2, <2>3 DEF LinksAreGood
<1>6. CASE Tail(run[p].tables) = << >>
  <2>1. EndPass(p)
    BY <1>6 DEF RelinkTable
  <2> QED
    BY <1>1, <1>5, <2>1, EndPassStep
<1>7. CASE Tail(run[p].tables) # << >>
  <2> DEFINE s == [run[p] EXCEPT !.tables = Tail(@)]
  <2>1. /\ run[p] \in RunState /\ run[p].chain # << >> /\ lock[Current(p)] = p
        /\ run[p].seen \subseteq ExistingListings /\ run[p].tables # << >>
    BY <1>1 DEF CInv, ChildTypeOK, ChainsMakeSense, ChainMakesSense, SeenExist,
                Busy, Holding
  <2>2. Tail(run[p].tables) \in Seq(Resources)
    <3>1. run[p].tables \in Seq(Resources)
      BY <2>1 DEF RunState
    <3> QED
      BY <2>1, <3>1
  <2>3. /\ s \in RunState /\ s.at = "relinking"
        /\ s.tables = Tail(run[p].tables)
        /\ s.chain = run[p].chain /\ s.seen = run[p].seen
    BY <1>1, <2>1, <2>2 DEF RunState
  <2>4. SetRunAt(p, s) /\ UNCHANGED lock
    BY <1>7 DEF RelinkTable
  <2> HIDE DEF s
  <2>5. run'[p] = s
    BY <2>3, <2>4, NewRunType DEF CInv
  <2>6. Current(p)' = Current(p)
    BY <2>3, <2>5 DEF Current
  <2>7. ChainMakesSense(p)'
    BY <1>7, <2>1, <2>3, <2>4, <2>5, <2>6 DEF ChainMakesSense
  <2>8. lock' \in [Resources -> Processes \cup {NoProcess}]
    BY <2>4 DEF CInv, ChildTypeOK
  <2> QED
    BY <1>1, <1>5, <2>1, <2>3, <2>4, <2>7, <2>8, PassStep
<1> QED
  BY <1>6, <1>7

LEMMA DropChainStep ==
    ASSUME CInv, NEW p \in Processes, NEW at \in {"off", "failed"},
           DropChain(p, at), SavesKept(p)
    PROVE  CInv' /\ Progress
<1> DEFINE s == [Off EXCEPT !.at = at]
<1>1. s \in RunState /\ s.at = at /\ s.seen = {}
  BY OffIsRun
<1>2. /\ SetRunAt(p, s) /\ UNCHANGED rowVars
      /\ lock' = [r \in Resources |-> IF lock[r] = p THEN NoProcess ELSE lock[r]]
  BY DEF DropChain
<1> HIDE DEF s
<1>3. run'[p] = s
  BY <1>1, <1>2, NewRunType DEF CInv
<1>4. ChainMakesSense(p)'
  BY <1>1, <1>3 DEF ChainMakesSense, Busy, Holding
<1>5. lock \in [Resources -> Processes \cup {NoProcess}]
  BY DEF CInv, ChildTypeOK
<1>6. /\ lock' \in [Resources -> Processes \cup {NoProcess}]
      /\ \A q \in Processes \ {p}, r \in Resources : lock[r] = q => lock'[r] = q
  BY <1>2, <1>5
<1> QED
  BY <1>1, <1>2, <1>4, <1>6, RunStep

LEMMA EndChainStep ==
    ASSUME CInv, NEW p \in Processes, EndChain(p)
    PROVE  CInv' /\ Progress
<1>1. Off \in RunState /\ Off.at = "off" /\ Off.seen = {}
  BY OffIsRun DEF Off
<1>2. SetRunAt(p, Off) /\ SavesKept(p) /\ UNCHANGED <<rowVars, lock>>
  BY DEF EndChain, SavesKept
<1>3. run'[p] = Off
  BY <1>1, <1>2, NewRunType DEF CInv
<1>4. ChainMakesSense(p)'
  BY <1>1, <1>3 DEF ChainMakesSense, Busy, Holding
<1>5. lock' \in [Resources -> Processes \cup {NoProcess}]
  BY <1>2 DEF CInv, ChildTypeOK
<1> QED
  BY <1>1, <1>2, <1>4, <1>5, RunStep

LEMMA RunChainStep ==
    ASSUME CInv, NEW p \in Processes,
           RunChain(p) \/ FailChain(p) \/ Die(p) \/ EndChain(p)
    PROVE  CInv' /\ Progress
<1>1. CASE FailChain(p) \/ HaltOnBadRow(p)
  <2>1. DropChain(p, "failed") /\ SavesKept(p)
    BY <1>1 DEF FailChain, HaltOnBadRow, SavesKept
  <2> QED
    BY <2>1, DropChainStep
<1>2. CASE Die(p)
  <2>1. DropChain(p, "off") /\ SavesKept(p)
    BY <1>2 DEF Die, DropPage, SavesKept
  <2> QED
    BY <2>1, DropChainStep
<1>3. CASE EndChain(p)
  BY <1>3, EndChainStep
<1>4. CASE AcquireLock(p)
  BY <1>4, AcquireLockStep
<1>5. CASE BeginChunk(p)
  BY <1>5, BeginChunkStep
<1>6. CASE CommitChunk(p)
  BY <1>6, CommitChunkStep
<1>7. CASE Drained(p)
  BY <1>7, DrainedStep
<1>8. CASE RelinkTable(p)
  BY <1>8, RelinkTableStep
<1> QED
  BY <1>1, <1>2, <1>3, <1>4, <1>5, <1>6, <1>7, <1>8 DEF RunChain

----------------------------------------------------------------------------

LEMMA ChildInitCInv == ChildInit => CInv
<1> SUFFICES ASSUME ChildInit PROVE CInv
  OBVIOUS
<1> USE DEF ChildInit
<1>1. Off \in RunState /\ Off.at = "off" /\ Off.seen = {}
  BY OffIsRun DEF Off
<1>2. ChildTypeOK
  BY <1>1, NewKeyConsistent DEF ChildTypeOK
<1>3. ChainsMakeSense
  BY <1>1 DEF ChainsMakeSense, ChainMakesSense, Busy, Holding
<1>4. SeenExist
  BY <1>1 DEF SeenExist
<1>5. StoreShowsHistory /\ LinkNeedsRow
  BY DEF StoreShowsHistory, ShowsHistory, LinkNeedsRow, Exists, NewKey
<1> QED
  BY <1>2, <1>3, <1>4, <1>5 DEF CInv

LEMMA ChildNextStep ==
    ASSUME CInv, [ChildNext]_childVars
    PROVE  CInv' /\ Progress
<1>1. CASE UNCHANGED childVars
  <2>1. UNCHANGED <<saveVars, rowVars, lock, run>>
    BY <1>1 DEF childVars, chainVars
  <2>2. /\ ExistingListings' = ExistingListings /\ StoreShowsHistory'
        /\ LinkNeedsRow' /\ LinksFollow
    BY <2>1, RowsAlone
  <2>3. ChildTypeOK' /\ RawGrows /\ CursorsGrow
    BY <2>1 DEF CInv, ChildTypeOK, RawGrows, CursorsGrow
  <2>4. ChainsMakeSense' /\ SeenExist'
    BY <2>1, <2>2 DEF CInv, ChainsMakeSense, ChainMakesSense, SeenExist, Current,
                      Unread, ResourceAt
  <2> QED
    BY <2>2, <2>3, <2>4 DEF CInv, Progress
<1>2. CASE \E p \in Processes, page \in Pages : MintIds(p, page)
  BY <1>2, MintIdsStep, LinkAssumption
<1>5. CASE \E p \in Processes : SavePage(p)
  BY <1>5, SavePageStep
<1>6. CASE \E p \in Processes : DropPage(p) /\ UNCHANGED chainVars
  BY <1>6, DropPageStep
<1>3. CASE \E p \in Processes, chain \in Chains, final \in BOOLEAN :
              StartChain(p, chain, final)
  BY <1>3, StartChainStep
<1>4. CASE \E p \in Processes :
              RunChain(p) \/ FailChain(p) \/ Die(p) \/ EndChain(p)
  BY <1>4, RunChainStep
<1> QED
  BY <1>1, <1>2, <1>3, <1>4, <1>5, <1>6, Zenon DEF ChildNext

(***************************************************************************)
(* Whatever processes run which chains in which order, and whatever fails, *)
(* the rows, links, cursors, locks and chains keep their types.            *)
(***************************************************************************)
THEOREM ChildTypeCorrect == ChildSpec => []ChildTypeOK
<1>1. CInv => ChildTypeOK
  BY DEF CInv
<1>2. CInv /\ [ChildNext]_childVars => CInv'
  BY ChildNextStep
<1> QED
  BY <1>1, <1>2, ChildInitCInv, PTL DEF ChildSpec

----------------------------------------------------------------------------
(* Nothing is skipped while pages are saved one at a time *)

OneAtATime ==
    apart => \A p, q \in Processes : \A i \in minted[p], j \in minted[q] :
                 ResourceAt(i) = ResourceAt(j) => p = q

\* What is being saved comes after what is saved.
MintedAbove ==
    apart => \A p \in Processes : \A i \in minted[p], j \in committed :
                 ResourceAt(i) = ResourceAt(j) => j < i

CursorAtRow ==
    \A r \in Resources :
        cursor[r] = 0 \/ (cursor[r] \in committed /\ ResourceAt(cursor[r]) = r)

\* What a transaction does not write of the unread rows comes after what it writes.
ChunkAhead(p) ==
    \A i \in run[p].rows, j \in Unread(Current(p)) \ run[p].rows : i < j

ChunkFirst ==
    apart => \A p \in Processes : run[p].at = "writing" => ChunkAhead(p)

InOrder == OneAtATime /\ MintedAbove /\ CursorAtRow /\ ChunkFirst /\ NoneSkipped

LEMMA ResourceStays ==
    ASSUME RawGrows, NEW i \in DOMAIN raw
    PROVE  ResourceAt(i)' = ResourceAt(i)
  BY DEF RawGrows, ResourceAt

\* A step of p that moves no cursor and, unless it begins a transaction, is not in
\* one.
LEMMA StillInOrder ==
    ASSUME CInv, InOrder, NEW p \in Processes, SavesKept(p),
           UNCHANGED <<cursor, projected>>,
           \A q \in Processes \ {p} : run'[q] = run[q],
           run'[p].at = "writing" => ChunkAhead(p)'
    PROVE  InOrder'
<1>1. /\ UNCHANGED <<raw, committed, apart>>
      /\ \A q \in Processes : minted'[q] \subseteq minted[q]
  BY KeptSavesType DEF CInv, SavesKept
<1>2. \A i : ResourceAt(i)' = ResourceAt(i)
  BY <1>1 DEF ResourceAt
<1>3. OneAtATime' /\ MintedAbove'
  BY <1>1, <1>2 DEF InOrder, OneAtATime, MintedAbove
<1>4. CursorAtRow' /\ NoneSkipped'
  BY <1>1, <1>2 DEF InOrder, CursorAtRow, NoneSkipped
<1>5. \A r : Unread(r)' = Unread(r)
  BY <1>1, <1>2 DEF Unread
<1>6. ASSUME NEW q \in Processes, q # p, ChunkAhead(q)
      PROVE  ChunkAhead(q)'
  BY <1>5, <1>6 DEF ChunkAhead, Current
<1>7. ChunkFirst'
  BY <1>1, <1>6 DEF InOrder, ChunkFirst
<1> QED
  BY <1>3, <1>4, <1>7 DEF InOrder

LEMMA MintIdsInOrder ==
    ASSUME CInv, InOrder, NEW p \in Processes, NEW page \in Seq(Row), MintIds(p, page)
    PROVE  InOrder'
<1>1. ChildTypeOK
  BY DEF CInv
<1>2. /\ RawGrows
      /\ \A i \in DOMAIN raw, j \in minted'[p] : i < j
      /\ \A j \in minted'[p] : \E n \in DOMAIN page : raw'[j] = page[n]
      /\ minted' = [minted EXCEPT ![p] = minted'[p]]
  BY <1>1, MintedIds
<1>3. /\ UNCHANGED <<committed, cursor, projected, run>>
      /\ apart' = (apart /\ \A q \in Processes : \A i \in minted[q], n \in DOMAIN page :
                               ResourceAt(i) # ResourceOf[page[n].key])
  BY DEF MintIds, chainVars
<1>4. /\ committed \subseteq DOMAIN raw
      /\ \A q \in Processes : minted[q] \subseteq DOMAIN raw
      /\ \A q \in Processes \ {p} : minted'[q] = minted[q]
  BY <1>1, <1>2 DEF ChildTypeOK
<1>5. \A i \in DOMAIN raw : ResourceAt(i)' = ResourceAt(i)
  BY <1>2, ResourceStays
<1>6. ASSUME apart', NEW q \in Processes \ {p}, NEW i \in minted[q], NEW j \in minted'[p]
      PROVE  ResourceAt(i)' # ResourceAt(j)'
  <2>1. PICK n \in DOMAIN page : raw'[j] = page[n]
    BY <1>2, <1>6
  <2>2. ResourceAt(i)' = ResourceAt(i)
    BY <1>4, <1>5, <1>6
  <2> QED
    BY <1>3, <1>6, <2>1, <2>2 DEF ResourceAt
<1>7. OneAtATime'
  <2> SUFFICES ASSUME apart', NEW q \in Processes, NEW s \in Processes,
                      NEW i \in minted'[q], NEW j \in minted'[s],
                      ResourceAt(i)' = ResourceAt(j)'
               PROVE  q = s
    BY DEF OneAtATime
  <2>1. ASSUME q # p, s # p PROVE q = s
    <3>1. i \in minted[q] /\ j \in minted[s]
      BY <1>4, <2>1
    <3>2. ResourceAt(i) = ResourceAt(j)
      BY <1>4, <1>5, <3>1
    <3> QED
      BY <1>3, <3>1, <3>2 DEF InOrder, OneAtATime
  <2>2. ASSUME q = p, s # p PROVE FALSE
    <3>1. i \in minted'[p] /\ j \in minted[s]
      BY <1>4, <2>2
    <3> QED
      BY <1>6, <2>2, <3>1
  <2>3. ASSUME q # p, s = p PROVE FALSE
    <3>1. i \in minted[q] /\ j \in minted'[p]
      BY <1>4, <2>3
    <3> QED
      BY <1>6, <2>3, <3>1
  <2> QED
    BY <2>1, <2>2, <2>3
<1>8. MintedAbove'
  <2> SUFFICES ASSUME apart', NEW q \in Processes, NEW i \in minted'[q],
                      NEW j \in committed, ResourceAt(i)' = ResourceAt(j)'
               PROVE  j < i
    BY <1>3 DEF MintedAbove
  <2>1. CASE q = p
    BY <1>2, <1>4, <2>1
  <2>2. CASE q # p
    BY <1>3, <1>4, <1>5, <2>2 DEF InOrder, MintedAbove
  <2> QED
    BY <2>1, <2>2
<1>9. CursorAtRow' /\ NoneSkipped'
  BY <1>3, <1>4, <1>5 DEF InOrder, CursorAtRow, NoneSkipped
<1>10. \A r : Unread(r)' = Unread(r)
  BY <1>3, <1>4, <1>5 DEF Unread
<1>11. ChunkFirst'
  BY <1>3, <1>10 DEF InOrder, ChunkFirst, ChunkAhead, Current
<1> QED
  BY <1>7, <1>8, <1>9, <1>11 DEF InOrder

\* The rows of a page that commits come after every row of their resources that is
\* in the table, and so after the cursor.
LEMMA SavePageInOrder ==
    ASSUME CInv, InOrder, NEW p \in Processes, SavePage(p)
    PROVE  InOrder'
<1>1. ChildTypeOK
  BY DEF CInv
<1>2. /\ UNCHANGED <<raw, apart, cursor, projected, run>>
      /\ minted' = [minted EXCEPT ![p] = {}]
      /\ committed \subseteq committed' /\ committed' \subseteq committed \cup minted[p]
  BY DEF SavePage, chainVars
<1>3. \A i : ResourceAt(i)' = ResourceAt(i)
  BY <1>2 DEF ResourceAt
<1>4. \A q \in Processes : minted'[q] = IF q = p THEN {} ELSE minted[q]
  BY <1>1, <1>2 DEF ChildTypeOK
<1>5. OneAtATime'
  BY <1>2, <1>3, <1>4 DEF InOrder, OneAtATime
<1>6. MintedAbove'
  <2> SUFFICES ASSUME apart, NEW q \in Processes, NEW i \in minted'[q],
                      NEW j \in committed', ResourceAt(i) = ResourceAt(j)
               PROVE  j < i
    BY <1>2, <1>3 DEF MintedAbove
  <2>1. q # p /\ i \in minted[q]
    BY <1>4
  <2>2. j \notin minted[p]
    BY <2>1 DEF InOrder, OneAtATime
  <2> QED
    BY <1>2, <2>1, <2>2 DEF InOrder, MintedAbove
<1>7. CursorAtRow'
  BY <1>2, <1>3 DEF InOrder, CursorAtRow
<1>8. ASSUME apart, NEW i \in minted[p], i \notin committed
      PROVE  cursor[ResourceAt(i)] < i
  <2>1. i \in Nat /\ i # 0 /\ ResourceAt(i) \in Resources
    <3>1. i \in DOMAIN raw /\ raw \in Seq(Row)
      BY <1>1 DEF ChildTypeOK
    <3>2. ResourceOf[raw[i].key] \in Resources
      BY <1>1, <3>1, RawRows, ConstantFacts
    <3> QED
      BY <3>1, <3>2 DEF ResourceAt
  <2>2. CASE cursor[ResourceAt(i)] = 0
    BY <2>1, <2>2
  <2>3. CASE cursor[ResourceAt(i)] # 0
    <3>1. /\ cursor[ResourceAt(i)] \in committed
          /\ ResourceAt(cursor[ResourceAt(i)]) = ResourceAt(i)
      BY <2>1, <2>3 DEF InOrder, CursorAtRow
    <3> QED
      BY <1>8, <3>1 DEF InOrder, MintedAbove
  <2> QED
    BY <2>2, <2>3
<1>9. NoneSkipped'
  <2> SUFFICES ASSUME apart, NEW i \in committed', i <= cursor[ResourceAt(i)]
               PROVE  i \in projected
    BY <1>2, <1>3 DEF NoneSkipped
  <2>1. CASE i \in committed
    BY <2>1 DEF InOrder, NoneSkipped
  <2>2. CASE i \notin committed
    <3>1. i \in minted[p] /\ cursor[ResourceAt(i)] < i
      BY <1>2, <1>8, <2>2
    <3>2. i \in DOMAIN raw
      BY <1>1, <3>1 DEF ChildTypeOK
    <3>3. i \in Nat /\ cursor[ResourceAt(i)] \in Nat
      BY <1>1, <3>2, RawRows, ConstantFacts DEF ChildTypeOK, ResourceAt
    <3> QED
      BY <3>1, <3>3
  <2> QED
    BY <2>1, <2>2
<1>10. ASSUME apart, NEW q \in Processes, run[q].at = "writing"
       PROVE  ChunkAhead(q)'
  <2>1. ChunkAhead(q) /\ run[q].rows \subseteq Unread(Current(q))
    BY <1>10 DEF InOrder, ChunkFirst, CInv, ChainsMakeSense, ChainMakesSense
  <2> SUFFICES ASSUME NEW i \in run[q].rows, NEW j \in Unread(Current(q))',
                      j \notin run[q].rows
               PROVE  i < j
    BY <1>2 DEF ChunkAhead, Current
  <2>2. /\ j \in committed' /\ j > cursor[Current(q)] /\ ResourceAt(j) = Current(q)
    BY <1>2, <1>3 DEF Unread, Current
  <2>3. CASE j \in committed
    <3>1. j \in Unread(Current(q))
      BY <2>2, <2>3 DEF Unread
    <3> QED
      BY <2>1, <3>1 DEF ChunkAhead
  <2>4. CASE j \notin committed
    <3>1. j \in minted[p]
      BY <1>2, <2>2, <2>4
    <3>2. i \in committed /\ ResourceAt(i) = Current(q)
      BY <2>1 DEF Unread
    <3> QED
      BY <1>10, <2>2, <3>1, <3>2 DEF InOrder, MintedAbove
  <2> QED
    BY <2>3, <2>4
<1>11. ChunkFirst'
  BY <1>2, <1>10 DEF ChunkFirst
<1> QED
  BY <1>5, <1>6, <1>7, <1>9, <1>11 DEF InOrder

LEMMA BeginChunkInOrder ==
    ASSUME CInv, InOrder, NEW p \in Processes, BeginChunk(p)
    PROVE  InOrder'
<1>1. PICK rows \in SUBSET Unread(Current(p)) :
         /\ IsChunk(rows, Current(p))
         /\ SetRunAt(p, [run[p] EXCEPT
                !.at = "writing",
                !.rows = rows,
                !.seen = IF Current(p) = Property THEN {} ELSE ExistingListings,
                !.unlinked = /\ Cardinality(rows) = 1
                             /\ \E i \in rows : /\ raw[i].key \in Children
                                                /\ link[raw[i].key] = NoLink])
  BY Zenon DEF BeginChunk
<1>2. SavesKept(p) /\ UNCHANGED <<raw, committed, cursor, projected>>
  BY DEF BeginChunk, SavesKept
<1>3. run \in [Processes -> RunState]
  BY DEF CInv, ChildTypeOK
<1>4. /\ run'[p].rows = rows /\ run'[p].chain = run[p].chain
      /\ \A q \in Processes \ {p} : run'[q] = run[q]
  BY <1>1, <1>3 DEF SetRunAt, RunState
<1>5. Unread(Current(p))' = Unread(Current(p))
  BY <1>2, <1>4 DEF Unread, ResourceAt, Current
<1>6. ChunkAhead(p)'
  BY <1>1, <1>4, <1>5 DEF ChunkAhead, IsChunk
<1> QED
  BY <1>2, <1>4, <1>6, StillInOrder

\* The rows up to the new cursor are those below the old one and those written.
LEMMA CommitChunkInOrder ==
    ASSUME CInv, InOrder, NEW p \in Processes, CommitChunk(p)
    PROVE  InOrder'
<1> DEFINE rows == run[p].rows
           r == Current(p)
<1>1. ChildTypeOK
  BY DEF CInv
<1>2. /\ run[p].at = "writing" /\ run[p].chain # << >> /\ lock[r] = p
      /\ rows \subseteq Unread(r)
  BY DEF CInv, ChainsMakeSense, ChainMakesSense, CommitChunk, Busy, Holding
<1>3. PICK last \in rows :
         (\A i \in rows : i <= last) /\ cursor' = [cursor EXCEPT ![r] = last]
  BY DEF CommitChunk
<1>4. /\ UNCHANGED <<raw, minted, committed, apart>>
      /\ projected' = projected \cup rows
  BY DEF CommitChunk
<1>5. /\ run'[p].at = "draining"
      /\ \A q \in Processes \ {p} : run'[q] = run[q]
  BY <1>1 DEF CommitChunk, SetRunAt, ChildTypeOK, RunState
<1>6. r \in Resources
  BY <1>1, <1>2, CurrentResource
<1>7. /\ cursor'[r] = last
      /\ \A s \in Resources \ {r} : cursor'[s] = cursor[s]
  BY <1>1, <1>3, <1>6 DEF ChildTypeOK
<1>8. last \in committed /\ ResourceAt(last) = r
  BY <1>2 DEF Unread
<1>9. \A i : ResourceAt(i)' = ResourceAt(i)
  BY <1>4 DEF ResourceAt
<1> HIDE DEF rows, r
<1>10. OneAtATime' /\ MintedAbove'
  BY <1>4, <1>9 DEF InOrder, OneAtATime, MintedAbove
<1>11. CursorAtRow'
  BY <1>4, <1>7, <1>8, <1>9 DEF InOrder, CursorAtRow
<1>12. NoneSkipped'
  <2> SUFFICES ASSUME apart, NEW i \in committed, i <= cursor'[ResourceAt(i)]
               PROVE  i \in projected \cup rows
    BY <1>4, <1>9 DEF NoneSkipped
  <2>1. ResourceAt(i) \in Resources /\ i \in Nat
    BY <1>1, CommittedRows
  <2>2. CASE i <= cursor[ResourceAt(i)]
    BY <2>2 DEF InOrder, NoneSkipped
  <2>3. CASE ~(i <= cursor[ResourceAt(i)])
    <3>1. ResourceAt(i) = r /\ i <= last
      BY <1>7, <2>1, <2>3
    <3>2. cursor[r] \in Nat /\ last \in Nat
      BY <1>1, <1>6, <1>8, CommittedRows DEF ChildTypeOK
    <3>3. i \in Unread(r)
      BY <2>1, <2>3, <3>1, <3>2 DEF Unread
    <3>4. i \notin rows => last < i
      BY <1>2, <3>3 DEF InOrder, ChunkFirst, ChunkAhead, rows, r
    <3> QED
      BY <2>1, <3>1, <3>2, <3>4
  <2> QED
    BY <2>2, <2>3
<1>13. ASSUME apart, NEW q \in Processes \ {p}, run[q].at = "writing"
       PROVE  ChunkAhead(q)'
  <2>1. ChunkAhead(q) /\ lock[Current(q)] = q /\ run[q].chain # << >>
    BY <1>13 DEF InOrder, ChunkFirst, CInv, ChainsMakeSense, ChainMakesSense, Busy,
                 Holding
  <2>2. Current(q) \in Resources \ {r}
    BY <1>1, <1>2, <2>1, CurrentResource DEF r
  <2>3. Current(q)' = Current(q) /\ run'[q].rows = run[q].rows
    BY <1>5 DEF Current
  <2>4. Unread(Current(q))' = Unread(Current(q))
    BY <1>4, <1>7, <1>9, <2>2, <2>3 DEF Unread
  <2> QED
    BY <2>1, <2>3, <2>4 DEF ChunkAhead
<1>14. ChunkFirst'
  BY <1>4, <1>5, <1>13 DEF ChunkFirst
<1> QED
  BY <1>10, <1>11, <1>12, <1>14 DEF InOrder

\* The other steps of a chain neither move a cursor nor begin a transaction.
LEMMA OtherStepsInOrder ==
    ASSUME CInv, InOrder, NEW p \in Processes,
           \/ \E chain \in Chains, final \in BOOLEAN : StartChain(p, chain, final)
           \/ AcquireLock(p) \/ Drained(p) \/ RelinkTable(p) \/ HaltOnBadRow(p)
           \/ FailChain(p) \/ Die(p) \/ EndChain(p)
    PROVE  InOrder'
<1>1. run \in [Processes -> RunState]
  BY DEF CInv, ChildTypeOK
<1>2. ASSUME NEW s, s.at # "writing", SetRunAt(p, s)
      PROVE  /\ run'[p].at # "writing"
             /\ \A q \in Processes \ {p} : run'[q] = run[q]
  BY <1>1, <1>2 DEF SetRunAt
<1>3. /\ SavesKept(p) /\ UNCHANGED <<cursor, projected>>
      /\ run'[p].at # "writing"
      /\ \A q \in Processes \ {p} : run'[q] = run[q]
  <2>1. CASE \E chain \in Chains, final \in BOOLEAN : StartChain(p, chain, final)
    <3>1. PICK chain \in Chains, final \in BOOLEAN : StartChain(p, chain, final)
      BY <2>1
    <3>2. [Off EXCEPT !.at = "waiting", !.chain = chain, !.final = final].at # "writing"
      BY DEF Off
    <3> QED
      BY <1>2, <3>1, <3>2 DEF StartChain, SavesKept
  <2>2. CASE AcquireLock(p)
    <3>1. [run[p] EXCEPT !.at = "draining"].at # "writing"
      BY <1>1 DEF RunState
    <3> QED
      BY <1>2, <2>2, <3>1 DEF AcquireLock, SavesKept
  <2>3. CASE EndPass(p) /\ SavesKept(p) /\ UNCHANGED <<cursor, projected>>
    <3> DEFINE rest == Tail(run[p].chain)
               s == [run[p] EXCEPT !.at = IF rest = << >> THEN "done" ELSE "waiting",
                                   !.chain = rest, !.tables = << >>]
    <3>1. s.at # "writing"
      BY <1>1 DEF RunState
    <3>2. SetRunAt(p, s)
      BY <2>3 DEF EndPass
    <3> HIDE DEF s
    <3> QED
      BY <1>2, <2>3, <3>1, <3>2
  <2>4. CASE Drained(p)
    <3>1. SavesKept(p) /\ UNCHANGED <<cursor, projected>>
      BY <2>4 DEF Drained, SavesKept
    <3>2. CASE Finalizes(p)
      <4>1. [run[p] EXCEPT !.at = "relinking", !.tables = Relinked].at # "writing"
        BY <1>1 DEF RunState
      <4> QED
        BY <1>2, <2>4, <3>1, <3>2, <4>1 DEF Drained
    <3>3. CASE ~Finalizes(p)
      BY <2>3, <2>4, <3>1, <3>3 DEF Drained
    <3> QED
      BY <3>2, <3>3
  <2>5. CASE RelinkTable(p)
    <3>1. SavesKept(p) /\ UNCHANGED <<cursor, projected>> /\ run[p].at = "relinking"
      BY <2>5 DEF RelinkTable, SavesKept
    <3>2. CASE Tail(run[p].tables) # << >>
      <4>1. [run[p] EXCEPT !.tables = Tail(@)].at # "writing"
        BY <1>1, <3>1 DEF RunState
      <4> QED
        BY <1>2, <2>5, <3>1, <3>2, <4>1 DEF RelinkTable
    <3>3. CASE Tail(run[p].tables) = << >>
      BY <2>3, <2>5, <3>1, <3>3 DEF RelinkTable
    <3> QED
      BY <3>2, <3>3
  <2>6. CASE HaltOnBadRow(p) \/ FailChain(p)
    <3>1. DropChain(p, "failed") /\ SavesKept(p)
      BY <2>6 DEF FailChain, HaltOnBadRow, SavesKept
    <3>2. [Off EXCEPT !.at = "failed"].at # "writing"
      BY DEF Off
    <3> QED
      BY <1>2, <3>1, <3>2 DEF DropChain
  <2>7. CASE Die(p)
    <3>1. DropChain(p, "off") /\ SavesKept(p)
      BY <2>7 DEF Die, DropPage, SavesKept
    <3>2. [Off EXCEPT !.at = "off"].at # "writing"
      BY DEF Off
    <3> QED
      BY <1>2, <3>1, <3>2 DEF DropChain
  <2>8. CASE EndChain(p)
    <3>1. Off.at # "writing"
      BY DEF Off
    <3> QED
      BY <1>2, <2>8, <3>1 DEF EndChain, SavesKept
  <2> QED
    BY <2>1, <2>2, <2>4, <2>5, <2>6, <2>7, <2>8
<1> QED
  BY <1>3, StillInOrder

LEMMA DropPageInOrder ==
    ASSUME CInv, InOrder, NEW p \in Processes, DropPage(p), UNCHANGED chainVars
    PROVE  InOrder'
<1>1. SavesKept(p) /\ UNCHANGED <<cursor, projected, run>>
  BY DEF DropPage, SavesKept, chainVars
<1>2. /\ UNCHANGED <<raw, committed, apart>>
      /\ \A q \in Processes : minted'[q] \subseteq minted[q]
  BY <1>1, KeptSavesType DEF CInv, SavesKept
<1>3. \A i : ResourceAt(i)' = ResourceAt(i)
  BY <1>2 DEF ResourceAt
<1>4. OneAtATime' /\ MintedAbove' /\ CursorAtRow' /\ NoneSkipped'
  BY <1>1, <1>2, <1>3 DEF InOrder, OneAtATime, MintedAbove, CursorAtRow, NoneSkipped
<1>5. ChunkFirst'
  BY <1>1, <1>2, <1>3 DEF InOrder, ChunkFirst, ChunkAhead, Unread, Current
<1> QED
  BY <1>4, <1>5 DEF InOrder

LEMMA ChildInitInOrder == ChildInit => InOrder
  BY DEF ChildInit, InOrder, OneAtATime, MintedAbove, CursorAtRow, ChunkFirst,
         NoneSkipped, Off

LEMMA ChildNextInOrder ==
    ASSUME CInv, InOrder, [ChildNext]_childVars
    PROVE  InOrder'
<1>1. CASE UNCHANGED childVars
  BY <1>1 DEF childVars, chainVars, InOrder, OneAtATime, MintedAbove, CursorAtRow,
              ChunkFirst, ChunkAhead, NoneSkipped, ResourceAt, Unread, Current
<1>2. CASE \E p \in Processes, page \in Pages : MintIds(p, page)
  BY <1>2, MintIdsInOrder, LinkAssumption
<1>3. CASE \E p \in Processes : SavePage(p)
  BY <1>3, SavePageInOrder
<1>4. CASE \E p \in Processes : DropPage(p) /\ UNCHANGED chainVars
  BY <1>4, DropPageInOrder
<1>5. ASSUME NEW p \in Processes,
             \/ \E chain \in Chains, final \in BOOLEAN : StartChain(p, chain, final)
             \/ RunChain(p)
             \/ FailChain(p) \/ Die(p) \/ EndChain(p)
      PROVE  InOrder'
  <2>1. CASE BeginChunk(p)
    BY <2>1, BeginChunkInOrder
  <2>2. CASE CommitChunk(p)
    BY <2>2, CommitChunkInOrder
  <2>3. CASE ~BeginChunk(p) /\ ~CommitChunk(p)
    BY <1>5, <2>3, OtherStepsInOrder DEF RunChain
  <2> QED
    BY <2>1, <2>2, <2>3
<1> QED
  BY <1>1, <1>2, <1>3, <1>4, <1>5, Zenon DEF ChildNext

(***************************************************************************)
(* As long as the pages of a resource are saved one at a time, whatever    *)
(* processes run its passes and whatever fails, a cursor only passes rows  *)
(* whose projection was committed: no row lands behind it unread.          *)
(***************************************************************************)
THEOREM NothingSkipped == ChildSpec => []NoneSkipped
<1>1. ChildInit => CInv /\ InOrder
  BY ChildInitCInv, ChildInitInOrder
<1>2. CInv /\ InOrder /\ [ChildNext]_childVars => CInv' /\ InOrder'
  BY ChildNextStep, ChildNextInOrder
<1>3. InOrder => NoneSkipped
  BY DEF InOrder
<1> QED
  BY <1>1, <1>2, <1>3, PTL DEF ChildSpec
=============================================================================
