----------------------------- MODULE Projection -----------------------------
(***************************************************************************)
(* One resource's raw_output stream and the cursor-driven passes that      *)
(* project it into typed rows (sync/processor/processor.go).               *)
(*                                                                         *)
(* Ingesters are the processes that save fetched pages (sync daemon, init, *)
(* import); Passers are the processes that call Processor.RunPass, the     *)
(* Reprocessors among them after moving the cursor back (cmd/reprocess.go).*)
(* They share only the database: raw, store, cursor and the advisory lock. *)
(* Every database transaction is one step where it becomes visible; the    *)
(* reads and the in-memory state between transactions are steps of their   *)
(* own.  A raw_output_id is a number: ids are UUIDv7, minted in increasing *)
(* order, but a row becomes visible only when its page commits.            *)
(***************************************************************************)
EXTENDS RecordLifecycle, FiniteSets

CONSTANTS
    History,         \* per key, the revisions upstream goes through, in order
    Ingesters,       \* processes that fetch and save pages
    Passers,         \* processes that run passes
    Reprocessors,    \* the passers that reset the cursor first
    PageSize,        \* records per fetched page, at most
    BatchSize,       \* Processor.batchSize
    CommitBatchSize, \* Processor.commitBatchSize
    Bulk,            \* Processor.bulk
    MaxId,           \* bound: raw_output ids ever minted
    MaxAborts,       \* bound: crashes, cancels and database errors
    NoRow,           \* an id no committed row has
    NoPass           \* the lock is free

Ids == 1 .. MaxId

\* One state of a record upstream: a Row without its key and timestamp.
Revision == [view : BOOLEAN, val : Vals, bad : BOOLEAN]

ASSUME ConstantsAssumption ==
    /\ History \in [Keys -> Seq(Revision)]
    /\ Reprocessors \subseteq Passers
    /\ PageSize \in Nat \ {0}
    /\ BatchSize \in Nat \ {0}
    /\ CommitBatchSize \in Nat \ {0}
    /\ Bulk \in BOOLEAN
    /\ MaxId \in Nat
    /\ MaxAborts \in Nat
    /\ NoRow \notin Row
    /\ NoPass \notin Passers
    /\ Blank \notin Vals

VARIABLES
    source,   \* per key, how many of its revisions upstream has published
    page,     \* per ingester, the page it holds, << >> when it holds none
    base,     \* per ingester, the id before its page's first; NoId: none minted
    lastId,   \* the greatest id minted
    raw,      \* raw_output: per id, the committed row or NoRow
    store,    \* per key, the entity row and the version rows
    cursor,   \* processor_cursor.last_raw_output_id, 0 for NULL
    projected,\* history: the ids whose projection was ever committed
    lock,     \* holder of the resource's advisory lock
    pc,       \* per passer, where its pass is
    mem,      \* per passer, the cursor value in its memory
    batch,    \* per passer, the ids of the fetched batch not yet committed
    chunk,    \* per passer, the ids of the current chunk not yet committed
    todo,     \* per passer, the chunk's ids its open transaction still has to do
    work,     \* per passer, store as its open transaction sees it
    aborts    \* crashes, cancels and database errors so far

feedVars == <<source, page, base, lastId, raw>>
passVars == <<pc, mem, batch, chunk, todo, work>>
vars == <<feedVars, store, cursor, projected, lock, passVars, aborts>>

NoId == MaxId + 1

\* Shown when no transaction is open.
NoWork == [k \in Keys |-> NewKey]

Committed == {id \in Ids : raw[id] # NoRow}

\* c holds the n lowest ids of S, or all of S when it has fewer.
IsFirst(c, n, S) ==
    /\ c \subseteq S
    /\ Cardinality(c) = IF Cardinality(S) < n THEN Cardinality(S) ELSE n
    /\ \A x \in c, y \in S \ c : x < y

IsLeast(x, S) == x \in S /\ \A y \in S : x <= y
IsGreatest(x, S) == x \in S /\ \A y \in S : y <= x

\* The page's record for revision n of key k: ModificationTimestamp is the
\* revision number, so it grows with every change of the record.
RowOf(k, n) ==
    [key |-> k, sma |-> n, view |-> History[k][n].view,
     val |-> History[k][n].val, bad |-> History[k][n].bad]

Init ==
    /\ source = [k \in Keys |-> 0]
    /\ page = [i \in Ingesters |-> << >>]
    /\ base = [i \in Ingesters |-> NoId]
    /\ lastId = 0
    /\ raw = [id \in Ids |-> NoRow]
    /\ store = [k \in Keys |-> NewKey]
    /\ cursor = 0
    /\ projected = {}
    /\ lock = NoPass
    /\ pc = [p \in Passers |-> "idle"]
    /\ mem = [p \in Passers |-> 0]
    /\ batch = [p \in Passers |-> {}]
    /\ chunk = [p \in Passers |-> {}]
    /\ todo = [p \in Passers |-> {}]
    /\ work = [p \in Passers |-> NoWork]
    /\ aborts = 0

----------------------------------------------------------------------------
(* The feed *)

\* Upstream publishes the next revision of a record.
SourceChanges(k) ==
    /\ source[k] < Len(History[k])
    /\ source' = [source EXCEPT ![k] = @ + 1]
    /\ UNCHANGED <<page, base, lastId, raw, store, cursor, projected, lock,
                   passVars, aborts>>

\* mls.Client.FetchPage: the current revision of some records, each once.
FetchPage(i) ==
    /\ page[i] = << >>
    /\ \E n \in 1 .. PageSize, ks \in [1 .. PageSize -> Keys] :
          /\ \A a, b \in 1 .. n : a # b => ks[a] # ks[b]
          /\ \A a \in 1 .. n : source[ks[a]] > 0
          /\ page' = [page EXCEPT ![i] =
                         [a \in 1 .. n |-> RowOf(ks[a], source[ks[a]])]]
    /\ UNCHANGED <<source, base, lastId, raw, store, cursor, projected, lock,
                   passVars, aborts>>

\* bulkInsertChunk mints the page's ids, before its transaction commits.
MintIds(i) ==
    /\ page[i] # << >>
    /\ base[i] = NoId
    /\ lastId + Len(page[i]) <= MaxId
    /\ base' = [base EXCEPT ![i] = lastId]
    /\ lastId' = lastId + Len(page[i])
    /\ UNCHANGED <<source, page, raw, store, cursor, projected, lock, passVars,
                   aborts>>

AlreadySaved(row) ==
    \E id \in Committed : raw[id].key = row.key /\ raw[id].sma = row.sma

\* The page's row that would get this id; NoRow for an id the page did not mint.
Minted(i, id) ==
    IF base[i] # NoId /\ id - base[i] \in DOMAIN page[i]
    THEN page[i][id - base[i]]
    ELSE NoRow

\* A variant of SavedRaw: the projected rows of a key that comes anew are purged.
SavedRawPurging(i) ==
    [id \in Ids |->
        IF Minted(i, id) # NoRow /\ ~AlreadySaved(Minted(i, id))
        THEN Minted(i, id)
        ELSE IF id \in projected
                /\ \E new \in Ids : /\ Minted(i, new) # NoRow
                                    /\ Minted(i, new).key = raw[id].key
             THEN NoRow
             ELSE raw[id]]

\* INSERT ... ON CONFLICT (resource, source_key, source_modified_at) DO NOTHING.
SavedRaw(i) ==
    [id \in Ids |->
        IF Minted(i, id) # NoRow /\ ~AlreadySaved(Minted(i, id))
        THEN Minted(i, id)
        ELSE raw[id]]

\* saveToRawOutput commits the page in one transaction.
CommitPage(i) ==
    /\ page[i] # << >>
    /\ base[i] # NoId
    /\ raw' = SavedRaw(i)
    /\ page' = [page EXCEPT ![i] = << >>]
    /\ base' = [base EXCEPT ![i] = NoId]
    /\ UNCHANGED <<source, lastId, store, cursor, projected, lock, passVars,
                   aborts>>

\* The fetch or the save fails, or the process dies: the whole page is gone and
\* the ids it minted are never used.
LosePage(i) ==
    /\ page[i] # << >>
    /\ page' = [page EXCEPT ![i] = << >>]
    /\ base' = [base EXCEPT ![i] = NoId]
    /\ UNCHANGED <<source, lastId, raw, store, cursor, projected, lock,
                   passVars, aborts>>

----------------------------------------------------------------------------
(* A pass *)

GoTo(p, to) == pc' = [pc EXCEPT ![p] = to]

\* RunPass is called; it blocks until it holds the advisory lock.
CallRunPass(p) ==
    /\ pc[p] = "idle"
    /\ p \notin Reprocessors
    /\ GoTo(p, "waiting")
    /\ UNCHANGED <<feedVars, store, cursor, projected, lock, mem, batch, chunk,
                   todo, work, aborts>>

\* resetCursorAndAudit commits the cursor move, then RunPass is called.  It
\* takes no lock.  --all sends the cursor to NULL, --from to the given id, which
\* is taken to be one the cursor has reached.
ResetCursor(p) ==
    /\ pc[p] = "idle"
    /\ p \in Reprocessors
    /\ \E from \in 0 .. cursor : cursor' = from
    /\ GoTo(p, "waiting")
    /\ UNCHANGED <<feedVars, store, projected, lock, mem, batch, chunk, todo,
                   work, aborts>>

AcquireLock(p) ==
    /\ pc[p] = "waiting"
    /\ lock = NoPass
    /\ lock' = p
    /\ GoTo(p, "locked")
    /\ UNCHANGED <<feedVars, store, cursor, projected, mem, batch, chunk, todo,
                   work, aborts>>

\* loadOrCreateCursor, once per pass and under the lock.
LoadCursor(p) ==
    /\ pc[p] = "locked"
    /\ mem' = [mem EXCEPT ![p] = cursor]
    /\ GoTo(p, "draining")
    /\ UNCHANGED <<feedVars, store, cursor, projected, lock, batch, chunk, todo,
                   work, aborts>>

Unread(p) == {id \in Committed : id > mem[p]}

\* The first batchSize committed rows after the cursor in memory.
FetchBatch(p) ==
    /\ pc[p] = "draining"
    /\ batch[p] = {}
    /\ \E b \in SUBSET Unread(p) :
          /\ b # {}
          /\ IsFirst(b, BatchSize, Unread(p))
          /\ batch' = [batch EXCEPT ![p] = b]
    /\ UNCHANGED <<feedVars, store, cursor, projected, lock, pc, mem, chunk,
                   todo, work, aborts>>

\* processChunk takes the next commitBatchSize rows of the batch.  A lone row
\* goes to processOne, more of them share one transaction.
BeginChunk(p) ==
    /\ pc[p] = "draining"
    /\ \E c \in SUBSET batch[p] :
          /\ c # {}
          /\ IsFirst(c, CommitBatchSize, batch[p])
          /\ chunk' = [chunk EXCEPT ![p] = c]
          /\ IF Cardinality(c) = 1
             THEN GoTo(p, "single") /\ UNCHANGED <<todo, work>>
             ELSE /\ GoTo(p, "projecting")
                  /\ todo' = [todo EXCEPT ![p] = c]
                  /\ work' = [work EXCEPT ![p] = store]
    /\ UNCHANGED <<feedVars, store, cursor, projected, lock, mem, batch, aborts>>

\* A variant of Duplicated: the bulk path takes every row of the chunk.
NoneDuplicated(p) == {}

\* The rows of the chunk whose key occurs in it more than once.
Duplicated(p) ==
    {x \in chunk[p] : \E y \in chunk[p] : y # x /\ raw[y].key = raw[x].key}

\* What the transaction applies one record at a time: with bulk projection only
\* the rows of duplicated keys, else all of them.
RowByRow(p) == IF Bulk THEN todo[p] \cap Duplicated(p) ELSE todo[p]

\* The row that makes the chunk's transaction fail, if any: the bulk path parses
\* every payload before it writes, the per-record path each in its turn.
HitsBadRow(p) ==
    IF Bulk
    THEN todo[p] = chunk[p] /\ \E x \in chunk[p] : raw[x].bad
    ELSE \E x \in todo[p] : IsLeast(x, todo[p]) /\ raw[x].bad

\* One record inside the chunk's transaction.
ProjectRow(p) ==
    /\ pc[p] = "projecting"
    /\ ~HitsBadRow(p)
    /\ \E x \in RowByRow(p) :
          /\ IsLeast(x, RowByRow(p))
          /\ work' = [work EXCEPT ![p][raw[x].key] = Process(@, raw[x], x)]
          /\ todo' = [todo EXCEPT ![p] = @ \ {x}]
    /\ UNCHANGED <<feedVars, store, cursor, projected, lock, pc, mem, batch,
                   chunk, aborts>>

\* The rest of ProcessChunk: all the keys that occur once, decided from one
\* read of the current rows and written together.
ProjectUnique(p) ==
    /\ pc[p] = "projecting"
    /\ Bulk
    /\ ~HitsBadRow(p)
    /\ RowByRow(p) = {}
    /\ todo[p] # {}
    /\ work' = [work EXCEPT ![p] =
                   [k \in Keys |->
                       IF \E x \in todo[p] : raw[x].key = k
                       THEN LET x == CHOOSE x \in todo[p] : raw[x].key = k
                            IN  ProcessBulk(work[p][k], raw[x], x)
                       ELSE work[p][k]]]
    /\ todo' = [todo EXCEPT ![p] = {}]
    /\ UNCHANGED <<feedVars, store, cursor, projected, lock, pc, mem, batch,
                   chunk, aborts>>

\* A variant of LastOfChunk: the cursor goes to the end of the fetched batch.
LastOfBatch(p, last) == IsGreatest(last, batch[p])

\* Where a committed chunk leaves the cursor.
LastOfChunk(p, last) == IsGreatest(last, chunk[p])

\* tryCommitChunk: the typed rows and the cursor, set to the chunk's last id,
\* commit together; only then does the cursor in memory follow.
CommitChunk(p) ==
    /\ pc[p] = "projecting"
    /\ todo[p] = {}
    /\ \E last \in batch[p] :
          /\ LastOfChunk(p, last)
          /\ cursor' = last
          /\ mem' = [mem EXCEPT ![p] = last]
    /\ store' = work[p]
    /\ projected' = projected \cup chunk[p]
    /\ batch' = [batch EXCEPT ![p] = @ \ chunk[p]]
    /\ chunk' = [chunk EXCEPT ![p] = {}]
    /\ work' = [work EXCEPT ![p] = NoWork]
    /\ GoTo(p, "draining")
    /\ UNCHANGED <<feedVars, lock, todo, aborts>>

\* A record failed inside the chunk's transaction, because it is bad or because
\* a statement failed that need not fail again: the transaction rolls back and
\* the chunk is replayed one record per transaction.
RollbackChunk(p) ==
    /\ pc[p] = "projecting"
    /\ \/ HitsBadRow(p) /\ UNCHANGED aborts
       \/ todo[p] # {} /\ aborts < MaxAborts /\ aborts' = aborts + 1
    /\ todo' = [todo EXCEPT ![p] = {}]
    /\ work' = [work EXCEPT ![p] = NoWork]
    /\ GoTo(p, "single")
    /\ UNCHANGED <<feedVars, store, cursor, projected, lock, mem, batch, chunk>>

\* processOne: a record and the cursor in one transaction.
ProcessOne(p) ==
    /\ pc[p] = "single"
    /\ \E x \in chunk[p] :
          /\ IsLeast(x, chunk[p])
          /\ ~raw[x].bad
          /\ store' = [store EXCEPT ![raw[x].key] = Process(@, raw[x], x)]
          /\ cursor' = x
          /\ projected' = projected \cup {x}
          /\ mem' = [mem EXCEPT ![p] = x]
          /\ batch' = [batch EXCEPT ![p] = @ \ {x}]
          /\ chunk' = [chunk EXCEPT ![p] = @ \ {x}]
          /\ IF chunk[p] = {x} THEN GoTo(p, "draining") ELSE UNCHANGED pc
    /\ UNCHANGED <<feedVars, lock, todo, work, aborts>>

\* A variant of DropPass: the lock outlives the session that held it.
DropPassKeepingLock(p) ==
    /\ GoTo(p, "idle")
    /\ mem' = [mem EXCEPT ![p] = 0]
    /\ batch' = [batch EXCEPT ![p] = {}]
    /\ chunk' = [chunk EXCEPT ![p] = {}]
    /\ todo' = [todo EXCEPT ![p] = {}]
    /\ work' = [work EXCEPT ![p] = NoWork]
    /\ UNCHANGED lock

\* What the end of a pass leaves of it: nothing but what it committed.
DropPass(p) ==
    /\ GoTo(p, "idle")
    /\ lock' = IF lock = p THEN NoPass ELSE lock
    /\ mem' = [mem EXCEPT ![p] = 0]
    /\ batch' = [batch EXCEPT ![p] = {}]
    /\ chunk' = [chunk EXCEPT ![p] = {}]
    /\ todo' = [todo EXCEPT ![p] = {}]
    /\ work' = [work EXCEPT ![p] = NoWork]

\* An empty batch ends the pass, which releases the lock.
FinishPass(p) ==
    /\ pc[p] = "draining"
    /\ batch[p] = {}
    /\ Unread(p) = {}
    /\ DropPass(p)
    /\ UNCHANGED <<feedVars, store, cursor, projected, aborts>>

\* The pass halts before the poison record.
HaltOnPoison(p) ==
    /\ pc[p] = "single"
    /\ \E x \in chunk[p] : IsLeast(x, chunk[p]) /\ raw[x].bad
    /\ DropPass(p)
    /\ UNCHANGED <<feedVars, store, cursor, projected, aborts>>

\* A database error, a cancelled context or the death of the process ends the
\* pass anywhere: the open transaction rolls back and the session's lock goes.
AbortPass(p) ==
    /\ pc[p] # "idle"
    /\ aborts < MaxAborts
    /\ aborts' = aborts + 1
    /\ DropPass(p)
    /\ UNCHANGED <<feedVars, store, cursor, projected>>

----------------------------------------------------------------------------

RunPass(p) ==
    \/ AcquireLock(p)
    \/ LoadCursor(p)
    \/ FetchBatch(p)
    \/ FinishPass(p)
    \/ BeginChunk(p)
    \/ ProjectRow(p)
    \/ ProjectUnique(p)
    \/ CommitChunk(p)
    \/ RollbackChunk(p)
    \/ ProcessOne(p)
    \/ HaltOnPoison(p)

Save(i) == MintIds(i) \/ CommitPage(i)

Next ==
    \/ \E k \in Keys : SourceChanges(k)
    \/ \E i \in Ingesters : FetchPage(i) \/ Save(i) \/ LosePage(i)
    \/ \E p \in Passers : CallRunPass(p) \/ ResetCursor(p) \/ RunPass(p)
                            \/ AbortPass(p)

(***************************************************************************)
(* The daemon's ticker keeps calling RunPass, a pass runs to its end       *)
(* unless it is cut short, and a page that has its ids is saved or lost.   *)
(* Nothing obliges upstream to change, an ingester to fetch or an operator *)
(* to reprocess.  A pass waiting for the lock gets it in the end: Postgres *)
(* queues the waiters of an advisory lock, hence strong fairness.          *)
(***************************************************************************)
Fairness ==
    /\ \A p \in Passers :
          /\ WF_vars(RunPass(p))
          /\ WF_vars(CallRunPass(p))
          /\ SF_vars(AcquireLock(p))
    /\ \A i \in Ingesters : WF_vars(CommitPage(i))

Spec == Init /\ [][Next]_vars

FairSpec == Spec /\ Fairness

----------------------------------------------------------------------------
(* Properties *)

Phases == {"idle", "waiting", "locked", "draining", "projecting", "single"}

TypeOK ==
    /\ source \in [Keys -> Nat]
    /\ page \in [Ingesters -> Seq(Row)]
    /\ base \in [Ingesters -> 0 .. NoId]
    /\ lastId \in 0 .. MaxId
    /\ raw \in [Ids -> Row \cup {NoRow}]
    /\ store \in [Keys -> KeyState]
    /\ cursor \in 0 .. MaxId
    /\ projected \subseteq Committed
    /\ lock \in Passers \cup {NoPass}
    /\ pc \in [Passers -> Phases]
    /\ mem \in [Passers -> 0 .. MaxId]
    /\ batch \in [Passers -> SUBSET Ids]
    /\ chunk \in [Passers -> SUBSET Ids]
    /\ todo \in [Passers -> SUBSET Ids]
    /\ work \in [Passers -> [Keys -> KeyState]]
    /\ aborts \in 0 .. MaxAborts

(***************************************************************************)
(* The cursor is a watermark: every saved row at or below it has had its   *)
(* projection committed.  A row the cursor passed unprojected would never  *)
(* be read again, since fetchBatch only asks for greater ids.              *)
(***************************************************************************)
NoRowSkipped == \A id \in Committed : id <= cursor => id \in projected

(***************************************************************************)
(* Whatever was crashed, rolled back, replayed or reprocessed, each key    *)
(* has one open version, the entity's current one, which a visible entity  *)
(* mirrors; and its versions were written oldest first.                    *)
(***************************************************************************)
StoreConsistent == \A k \in Keys : KeyConsistent(store[k])

\* The projected row of key k with the greatest source_modified_at.
IsNewestProjected(id, k) ==
    /\ id \in projected
    /\ raw[id].key = k
    /\ \A other \in projected :
          raw[other].key = k => raw[other].sma <= raw[id].sma

(***************************************************************************)
(* The entity shows the newest of its key's projected rows: its content,   *)
(* or that the record is gone.  Skipped writes (stale, no difference,      *)
(* already tombstoned) and replays after a reset never leave it showing an *)
(* older one.                                                              *)
(***************************************************************************)
NewestWins ==
    \A k \in Keys, id \in projected :
        IsNewestProjected(id, k) =>
            /\ Exists(store[k])
            /\ store[k].ent.view = raw[id].view
            /\ raw[id].view => store[k].ent.val = raw[id].val

(***************************************************************************)
(* The version tables are an audit trail: no step, of a replay or of a     *)
(* reprocess included, rewrites what they record.                          *)
(***************************************************************************)
AuditTrailKept ==
    [][\A k \in Keys : OnlyAppended(store[k], store'[k])]_store

(***************************************************************************)
(* Replaying is idle: after a reset, or when a failed chunk is taken up    *)
(* row by row, a key none of whose rows is projected for the first time    *)
(* keeps its entity and its versions as they are.                          *)
(***************************************************************************)
ReplaysAreIdle ==
    [][\A k \in Keys :
          (\A id \in projected' \ projected : raw[id].key # k)
              => store'[k] = store[k]]_<<store, projected>>

(***************************************************************************)
(* Chunked, bulk, rolled back, replayed, reset and crashed passes do to    *)
(* the typed rows what applying each row once, in id order, does: the      *)
(* refinement of SequentialProjection.  Its mark is the greatest id that   *)
(* was ever projected, where the cursor stands unless it was moved back.   *)
(***************************************************************************)
Reached == IF projected = {} THEN 0 ELSE CHOOSE id \in projected : IsGreatest(id, projected)

Sequential == INSTANCE SequentialProjection WITH
    Keys <- Keys, Vals <- Vals, Blank <- Blank, MaxId <- MaxId, NoRow <- NoRow,
    raw <- raw, store <- store, mark <- Reached

ImplementsSequentialProjection == Sequential!SeqSpec

(***************************************************************************)
(* Only poison stops the stream: a saved row with no bad row at or below   *)
(* it is projected in the end, whatever passes were cut short before.      *)
(***************************************************************************)
SavedRowsGetProjected ==
    \A id \in Ids :
        (id \in Committed /\ \A b \in Committed : raw[b].bad => b > id)
            ~> (id \in projected)

============================================================================
