----------------------------- MODULE ChildLinks -----------------------------
(***************************************************************************)
(* Listings and the records that hang on them.  A room, a unit type or an  *)
(* open house carries the key of its listing in its contents and a foreign *)
(* key to it in parent_listing_key.  The foreign key is set only when the  *)
(* listing is there; a child that comes first is parked with NULL, and the *)
(* AfterPass of the Property pass links it later (sync/processor/property, *)
(* property_room, property_unit_type, open_house, child_bulk).             *)
(*                                                                         *)
(* Processes run chains of passes (runProcessorPasses): Property and then  *)
(* the resources that ride on its pages, or open houses alone.  A pass     *)
(* holds its resource's lock, not those of the others, and reads which     *)
(* listings exist in a transaction that another pass's commit and relink   *)
(* can overtake.  What a single pass does to its rows is Projection; here  *)
(* a pass is a series of transactions over the rows after its cursor.      *)
(***************************************************************************)
EXTENDS RecordLifecycle, FiniteSets

CONSTANTS
    Listings,       \* the keys that are listings; the other Keys are children
    ResourceOf,     \* per key, its resource
    ListingOf,      \* per content of a child, the listing it names
    NoLink,         \* parent_listing_key is NULL
    Processes,      \* what runs chains of passes: daemons and imports
    NoProcess,      \* a lock is free
    Pages,          \* the pages that may be fetched and saved
    CommitBatchSize \* Processor.commitBatchSize

Property == "property"
OpenHouse == "open_house"

\* One of the resources whose rows ride on Property pages stands for all.
ChildResources == << "property_rooms" >>

\* The tables AfterPass goes through.
Relinked == << "property_rooms", OpenHouse >>

Resources == {Property, "property_rooms", OpenHouse}

Children == Keys \ Listings

ASSUME LinkAssumption ==
    /\ Listings \subseteq Keys
    /\ ResourceOf \in [Keys -> Resources]
    /\ \A k \in Keys : k \in Listings <=> ResourceOf[k] = Property
    /\ ListingOf \in [Vals -> Listings]
    /\ NoLink \notin Listings
    /\ NoProcess \notin Processes
    /\ Pages \subseteq Seq(Row)
    /\ \A page \in Pages : \A m, n \in DOMAIN page :
          page[m].key = page[n].key => m = n
    /\ CommitBatchSize \in Nat \ {0}
    /\ Blank \notin Vals

VARIABLES
    raw,       \* what has been given an id of raw_output, in the order of the ids
    minted,    \* per process, the ids of the page it is saving
    committed, \* the ids that are in the table
    apart,     \* history: no two processes were saving rows of one resource at once
    store,     \* per key, its typed row and versions
    link,      \* per child, parent_listing_key
    cursor,    \* per resource, the last row projected
    projected, \* history: the ids whose projection was committed
    lock,      \* per resource, the process that holds its advisory lock
    run        \* per process, the chain it runs

saveVars == <<raw, minted, committed, apart>>
rowVars == <<store, link, cursor, projected>>
chainVars == <<rowVars, lock, run>>
childVars == <<saveVars, chainVars>>

Off == [at |-> "off", chain |-> << >>, final |-> FALSE, rows |-> {},
        seen |-> {}, unlinked |-> FALSE, tables |-> << >>]

ChildInit ==
    /\ raw = << >>
    /\ minted = [p \in Processes |-> {}]
    /\ committed = {}
    /\ apart = TRUE
    /\ store = [k \in Keys |-> NewKey]
    /\ link = [c \in Children |-> NoLink]
    /\ cursor = [r \in Resources |-> 0]
    /\ projected = {}
    /\ lock = [r \in Resources |-> NoProcess]
    /\ run = [p \in Processes |-> Off]

----------------------------------------------------------------------------
(* Saving pages *)

ResourceAt(i) == ResourceOf[raw[i].key]

\* bulkInsertChunk gives the page's rows, children and parents together, their ids
\* before its transaction commits.
MintIds(p, page) ==
    /\ minted[p] = {} /\ page # << >>
    /\ raw' = raw \o page
    /\ minted' = [minted EXCEPT ![p] = Len(raw) + 1 .. Len(raw) + Len(page)]
    /\ apart' = (apart /\ \A q \in Processes : \A i \in minted[q], n \in DOMAIN page :
                             ResourceAt(i) # ResourceOf[page[n].key])
    /\ UNCHANGED <<committed, chainVars>>

Saved(row) == \E i \in committed : raw[i].key = row.key /\ raw[i].sma = row.sma

\* saveToRawOutput commits; ON CONFLICT DO NOTHING left out what others had saved.
SavePage(p) ==
    /\ minted[p] # {}
    /\ committed' = committed \cup {i \in minted[p] : ~Saved(raw[i])}
    /\ minted' = [minted EXCEPT ![p] = {}]
    /\ UNCHANGED <<raw, apart, chainVars>>

\* What has been minted and does not commit is never in the table.
DropPage(p) ==
    /\ minted' = [minted EXCEPT ![p] = {}]
    /\ UNCHANGED <<raw, committed, apart>>

----------------------------------------------------------------------------
(* A chain of passes *)

SetRunAt(p, s) == run' = [run EXCEPT ![p] = s]

Current(p) == Head(run[p].chain)

ExistingListings == {l \in Listings : Exists(store[l])}

Unread(r) == {i \in committed : i > cursor[r] /\ ResourceAt(i) = r}

\* runProcessorPasses; final is its finalize.
StartChain(p, chain, final) ==
    /\ run[p] = Off
    /\ SetRunAt(p, [Off EXCEPT !.at = "waiting", !.chain = chain, !.final = final])
    /\ UNCHANGED <<saveVars, rowVars, lock>>

AcquireLock(p) ==
    /\ run[p].at = "waiting"
    /\ lock[Current(p)] = NoProcess
    /\ lock' = [lock EXCEPT ![Current(p)] = p]
    /\ SetRunAt(p, [run[p] EXCEPT !.at = "draining"])
    /\ UNCHANGED <<saveVars, rowVars>>

\* A variant of IsChunk: one of a key's rows is taken and the others are passed.
IsChunkOnePerKey(rows, r) ==
    /\ rows # {}
    /\ Cardinality(rows) <= CommitBatchSize
    /\ \A i \in rows, j \in Unread(r) \ rows : i < j \/ raw[i].key = raw[j].key
    /\ \A i, j \in rows : raw[i].key = raw[j].key => i = j
    /\ \A i \in rows : ~raw[i].bad

\* The rows one transaction takes: the next few, each key once, none bad.  One
\* row goes the per-record way, more of them the bulk way.
IsChunk(rows, r) ==
    /\ rows # {}
    /\ Cardinality(rows) <= CommitBatchSize
    /\ \A i \in rows, j \in Unread(r) \ rows : i < j
    /\ \A i, j \in rows : raw[i].key = raw[j].key => i = j
    /\ \A i \in rows : ~raw[i].bad

\* A transaction's reads: which listings exist, and for a lone child whether it
\* is linked.
BeginChunk(p) ==
    /\ run[p].at = "draining"
    /\ \E rows \in SUBSET Unread(Current(p)) :
          /\ IsChunk(rows, Current(p))
          /\ SetRunAt(p, [run[p] EXCEPT
                 !.at = "writing",
                 !.rows = rows,
                 !.seen = IF Current(p) = Property THEN {} ELSE ExistingListings,
                 !.unlinked = /\ Cardinality(rows) = 1
                              /\ \E i \in rows : /\ raw[i].key \in Children
                                                 /\ link[raw[i].key] = NoLink])
    /\ UNCHANGED <<saveVars, rowVars, lock>>

\* parentFKFor
ParentFK(row, seen) ==
    IF ListingOf[row.val] \in seen THEN ListingOf[row.val] ELSE NoLink

PlanFor(ks, row) ==
    Decide(ks, IF Exists(ks) THEN LookupCurrentVersion(ks) ELSE 0, row)

\* A variant of UpdatedLink: the foreign key follows what the row's transaction
\* found.
UpdatedLinkPlain(c, fk, t) == fk

\* What an update makes of the link.  The bulk way writes COALESCE(link, fk); the
\* per-record way writes fk if it read no link before.
UpdatedLink(c, fk, t) ==
    IF fk # NoLink /\ IF Cardinality(t.rows) = 1 THEN t.unlinked ELSE link[c] = NoLink
    THEN fk
    ELSE link[c]

WrittenLink(c, row, t) ==
    LET plan == PlanFor(store[c], row)
        fk == ParentFK(row, t.seen)
    IN  CASE plan \in {"Insert", "DeleteFirstSighting"} -> fk
          [] plan = "Update" -> UpdatedLink(c, fk, t)
          [] OTHER -> link[c]

RowFor(k, rows) == CHOOSE i \in rows : raw[i].key = k

Touched(rows) == {raw[i].key : i \in rows}

\* The transaction's writes and the cursor, which commit together.
CommitChunk(p) ==
    /\ run[p].at = "writing"
    /\ LET rows == run[p].rows
       IN  /\ store' = [k \in Keys |->
                  IF k \in Touched(rows)
                  THEN Process(store[k], raw[RowFor(k, rows)], RowFor(k, rows))
                  ELSE store[k]]
           /\ link' = [c \in Children |->
                  IF c \in Touched(rows)
                  THEN WrittenLink(c, raw[RowFor(c, rows)], run[p])
                  ELSE link[c]]
           /\ \E last \in rows :
                 /\ \A i \in rows : i <= last
                 /\ cursor' = [cursor EXCEPT ![Current(p)] = last]
    /\ SetRunAt(p, [run[p] EXCEPT !.at = "draining", !.rows = {}, !.seen = {},
                                  !.unlinked = FALSE])
    /\ projected' = projected \cup run[p].rows
    /\ UNCHANGED <<saveVars, lock>>

\* The pass is over: its lock is released and the chain goes on.
EndPass(p) ==
    LET rest == Tail(run[p].chain)
    IN  /\ lock' = [lock EXCEPT ![Current(p)] = NoProcess]
        /\ SetRunAt(p, [run[p] EXCEPT
               !.at = IF rest = << >> THEN "done" ELSE "waiting",
               !.chain = rest, !.tables = << >>])

\* A variant of Finalizes: the relink is left out.
NeverFinalizes(p) == FALSE

\* RunPass ends with the resource's AfterPass, RunPassNoFinalize does not; only
\* Property has one.
Finalizes(p) == run[p].final /\ Current(p) = Property

\* An empty batch.  AfterPass runs also when there was nothing to project.
Drained(p) ==
    /\ run[p].at = "draining"
    /\ Unread(Current(p)) = {}
    /\ IF Finalizes(p)
       THEN /\ SetRunAt(p, [run[p] EXCEPT !.at = "relinking", !.tables = Relinked])
            /\ UNCHANGED lock
       ELSE EndPass(p)
    /\ UNCHANGED <<saveVars, rowVars>>

\* What one UPDATE of AfterPass makes of a child's link.
Relink(c, table) ==
    IF /\ ResourceOf[c] = table
       /\ Exists(store[c])
       /\ link[c] = NoLink
       /\ ListingOf[store[c].ent.val] \in ExistingListings
    THEN ListingOf[store[c].ent.val]
    ELSE link[c]

\* AfterPass, one statement per table, each committed on its own.
RelinkTable(p) ==
    /\ run[p].at = "relinking"
    /\ link' = [c \in Children |-> Relink(c, Head(run[p].tables))]
    /\ IF Tail(run[p].tables) = << >>
       THEN EndPass(p)
       ELSE /\ SetRunAt(p, [run[p] EXCEPT !.tables = Tail(@)])
            /\ UNCHANGED lock
    /\ UNCHANGED <<saveVars, store, cursor, projected>>

Running(p) == run[p].at \notin {"off", "done", "failed"}

\* A variant of DropChain: an error leaves the lock to a session that lives on.
DropChainLocked(p, at) ==
    /\ lock' = [r \in Resources |-> IF lock[r] = p /\ at = "off" THEN NoProcess ELSE lock[r]]
    /\ SetRunAt(p, [Off EXCEPT !.at = at])
    /\ UNCHANGED rowVars

\* What the end of a chain leaves of it: nothing but what it committed.
DropChain(p, at) ==
    /\ lock' = [r \in Resources |-> IF lock[r] = p THEN NoProcess ELSE lock[r]]
    /\ SetRunAt(p, [Off EXCEPT !.at = at])
    /\ UNCHANGED rowVars

\* A pass returns an error and halts the chain.
FailChain(p) == Running(p) /\ DropChain(p, "failed") /\ UNCHANGED saveVars

\* The process is gone, and its sessions and what it was saving with it.
Die(p) == DropChain(p, "off") /\ DropPage(p)

\* A row that cannot be projected halts the chain, before any AfterPass.
HaltOnBadRow(p) ==
    /\ run[p].at = "draining"
    /\ \E i \in Unread(Current(p)) :
          raw[i].bad /\ \A j \in Unread(Current(p)) : i <= j
    /\ FailChain(p)

\* The caller has the chain's result.
EndChain(p) ==
    /\ run[p].at \in {"done", "failed"}
    /\ SetRunAt(p, Off)
    /\ UNCHANGED <<saveVars, rowVars, lock>>

RunChain(p) ==
    \/ AcquireLock(p)
    \/ BeginChunk(p)
    \/ CommitChunk(p)
    \/ Drained(p)
    \/ RelinkTable(p)
    \/ HaltOnBadRow(p)

Chains == {<< Property >> \o ChildResources, << OpenHouse >>}

ChildNext ==
    \/ \E p \in Processes :
          \/ \E page \in Pages : MintIds(p, page)
          \/ SavePage(p)
          \/ DropPage(p) /\ UNCHANGED chainVars
          \/ \E chain \in Chains, final \in BOOLEAN : StartChain(p, chain, final)
          \/ RunChain(p)
          \/ FailChain(p) \/ Die(p)
          \/ EndChain(p)

ChildSpec == ChildInit /\ [][ChildNext]_childVars

----------------------------------------------------------------------------
(* Properties *)

RunState == [at : {"off", "waiting", "draining", "writing", "relinking", "done",
                   "failed"},
             chain : Seq(Resources), final : BOOLEAN, rows : SUBSET Nat,
             seen : SUBSET Listings, unlinked : BOOLEAN,
             tables : Seq(Resources)]

ChildTypeOK ==
    /\ raw \in Seq(Row)
    /\ minted \in [Processes -> SUBSET DOMAIN raw]
    /\ committed \subseteq DOMAIN raw
    /\ apart \in BOOLEAN
    /\ projected \subseteq committed
    /\ store \in [Keys -> KeyState]
    /\ link \in [Children -> Listings \cup {NoLink}]
    /\ cursor \in [Resources -> Nat]
    /\ lock \in [Resources -> Processes \cup {NoProcess}]
    /\ run \in [Processes -> RunState]

(***************************************************************************)
(* A cursor passes no row that it has not projected, whichever process     *)
(* runs the passes, is halted or dies, as long as the pages of a resource  *)
(* are saved one at a time: a page has its ids before it commits, so one   *)
(* that is overtaken by another process's page lands behind the cursor.    *)
(***************************************************************************)
NoneSkipped ==
    apart => \A i \in committed : i <= cursor[ResourceAt(i)] => i \in projected

\* The listings a child's revisions have named.
Named(c) == {ListingOf[store[c].vers[i].val] : i \in DOMAIN store[c].vers}

\* A child that is there, names a listing that is there, and has no link to it.
Parked(c) ==
    /\ Exists(store[c])
    /\ link[c] = NoLink
    /\ ListingOf[store[c].ent.val] \in ExistingListings

============================================================================
