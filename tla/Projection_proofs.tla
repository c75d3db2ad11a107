------------------------- MODULE Projection_proofs -------------------------
(***************************************************************************)
(* Invariance proofs for Projection, for every set of keys, ingesters and  *)
(* passers, every history and every batch and chunk size.                  *)
(***************************************************************************)
EXTENDS Projection, RecordLifecycle_proofs

(***************************************************************************)
(* The invariant that is inductive.  Beside the types it says what a pass  *)
(* holds in memory: committed rows only, the chunk part of the batch and   *)
(* what is left of it part of the chunk; a transaction's view that is as   *)
(* consistent as the store it was read from and only adds to it; and that  *)
(* only the holder of the advisory lock is past waiting for it.            *)
(***************************************************************************)
PublishedExists == \A k \in Keys : source[k] <= Len(History[k])

ReadsCommitted ==
    \A p \in Passers : /\ batch[p] \subseteq Committed
                       /\ chunk[p] \subseteq batch[p]
                       /\ todo[p] \subseteq chunk[p]
                       /\ pc[p] # "projecting" => todo[p] = {}

WorkConsistent == \A p \in Passers, k \in Keys : KeyConsistent(work[p][k])

LockHeld == \A p \in Passers : pc[p] \notin {"idle", "waiting"} => lock = p

WorkAddsToStore ==
    \A p \in Passers, k \in Keys :
        pc[p] = "projecting" => OnlyAppended(store[k], work[p][k])

IInv ==
    /\ TypeOK
    /\ PublishedExists
    /\ ReadsCommitted
    /\ StoreConsistent
    /\ WorkConsistent
    /\ LockHeld
    /\ WorkAddsToStore

----------------------------------------------------------------------------

LEMMA HistoryLength == \A k \in Keys : Len(History[k]) \in Nat
<1>1. ASSUME NEW S, NEW s \in Seq(S) PROVE Len(s) \in Nat
  OBVIOUS
<1>2. \A k \in Keys : History[k] \in Seq(Revision)
  BY ConstantsAssumption
<1> QED
  BY <1>1, <1>2

LEMMA RowOfIsRow ==
    ASSUME NEW k \in Keys, NEW n \in 1 .. Len(History[k])
    PROVE  RowOf(k, n) \in Row
<1>1. History[k] \in Seq(Revision)
  BY ConstantsAssumption
<1>2. History[k][n] \in Revision
  BY <1>1
<1> QED
  BY <1>2 DEF RowOf, Row, Revision

\* A history only grows in a step that changes nothing.
LEMMA OnlyAppendedReflexive ==
    ASSUME NEW ks \in KeyState
    PROVE  OnlyAppended(ks, ks)
  BY DEF OnlyAppended, OnlyClosed, KeyState

\* A row once committed stays committed, and every saved row is a row.
LEMMA SavedRawType ==
    ASSUME TypeOK, NEW i \in Ingesters
    PROVE  /\ SavedRaw(i) \in [Ids -> Row \cup {NoRow}]
           /\ \A id \in Committed : SavedRaw(i)[id] # NoRow
<1>1. ASSUME NEW id \in Ids
      PROVE  Minted(i, id) \in Row \cup {NoRow}
  <2>1. page[i] \in Seq(Row)
    BY DEF TypeOK
  <2>2. \A a \in DOMAIN page[i] : page[i][a] \in Row
    BY <2>1
  <2> QED
    BY <2>2 DEF Minted
<1>2. \A id \in Ids : raw[id] \in Row \cup {NoRow}
  BY DEF TypeOK
<1> QED
  BY <1>1, <1>2 DEF SavedRaw, Committed

LEMMA InitIInv == Init => IInv
<1> SUFFICES ASSUME Init PROVE IInv
  OBVIOUS
<1> USE DEF Init
<1>1. 0 \in 0 .. MaxId /\ 0 \in 0 .. MaxAborts /\ NoId \in 0 .. NoId
  BY ConstantsAssumption DEF NoId
<1>2. NoWork \in [Keys -> KeyState] /\ \A k \in Keys : NoWork[k] = NewKey
  BY NewKeyConsistent DEF NoWork
<1>3. TypeOK
  BY <1>1, <1>2, NewKeyConsistent DEF TypeOK, Phases, Committed
<1>4. PublishedExists
  <2>1. ASSUME NEW k \in Keys PROVE source[k] <= Len(History[k])
    <3>1. source[k] = 0
      OBVIOUS
    <3>2. Len(History[k]) \in Nat
      BY HistoryLength
    <3> HIDE DEF Init
    <3> QED
      BY <3>1, <3>2
  <2> QED
    BY <2>1 DEF PublishedExists
<1>5. ReadsCommitted
  BY DEF ReadsCommitted
<1>6. StoreConsistent /\ WorkConsistent
  BY <1>2, NewKeyConsistent DEF StoreConsistent, WorkConsistent
<1>7. LockHeld /\ WorkAddsToStore
  BY DEF LockHeld, WorkAddsToStore
<1> QED
  BY <1>3, <1>4, <1>5, <1>6, <1>7 DEF IInv

----------------------------------------------------------------------------

(***************************************************************************)
(* The feed's steps leave the passes alone, so that only the types and the *)
(* growth of the committed rows are at stake.                              *)
(***************************************************************************)
passesAlone == UNCHANGED <<store, cursor, projected, lock, passVars, aborts>>

LEMMA FeedIInv ==
    ASSUME IInv, passesAlone,
           source' \in [Keys -> Nat], PublishedExists',
           page' \in [Ingesters -> Seq(Row)],
           base' \in [Ingesters -> 0 .. NoId],
           lastId' \in 0 .. MaxId,
           raw' \in [Ids -> Row \cup {NoRow}],
           \A id \in Committed : raw'[id] # NoRow
    PROVE  IInv'
<1> USE DEF passesAlone, passVars, IInv
<1>1. Committed \subseteq Committed'
  BY DEF Committed
<1>2. TypeOK'
  BY <1>1 DEF TypeOK
<1>3. ReadsCommitted'
  BY <1>1 DEF ReadsCommitted
<1>4. StoreConsistent' /\ WorkConsistent'
  BY DEF StoreConsistent, WorkConsistent
<1>5. LockHeld' /\ WorkAddsToStore'
  BY DEF LockHeld, WorkAddsToStore
<1> QED
  BY <1>2, <1>3, <1>4, <1>5

LEMMA FeedSteps ==
    ASSUME IInv
    PROVE  /\ \A k \in Keys : SourceChanges(k) => IInv'
           /\ \A i \in Ingesters :
                 FetchPage(i) \/ MintIds(i) \/ CommitPage(i) \/ LosePage(i) => IInv'
<1>0. /\ source \in [Keys -> Nat] /\ PublishedExists
      /\ page \in [Ingesters -> Seq(Row)]
      /\ base \in [Ingesters -> 0 .. NoId]
      /\ lastId \in 0 .. MaxId
      /\ raw \in [Ids -> Row \cup {NoRow}]
      /\ \A id \in Committed : raw[id] # NoRow
      /\ MaxId \in Nat
      /\ \A k \in Keys : Len(History[k]) \in Nat
  BY ConstantsAssumption, HistoryLength DEF IInv, TypeOK, Committed
<1>1. ASSUME NEW k \in Keys, SourceChanges(k) PROVE IInv'
  <2>1. passesAlone /\ UNCHANGED <<page, base, lastId, raw>>
    BY <1>1 DEF SourceChanges, passesAlone
  <2>2. source' \in [Keys -> Nat] /\ PublishedExists'
    BY <1>0, <1>1 DEF SourceChanges, PublishedExists
  <2> QED
    BY <1>0, <2>1, <2>2, FeedIInv
<1>2. ASSUME NEW i \in Ingesters, FetchPage(i) PROVE IInv'
  <2>1. passesAlone /\ UNCHANGED <<source, base, lastId, raw>>
    BY <1>2 DEF FetchPage, passesAlone
  <2>2. page' \in [Ingesters -> Seq(Row)]
    <3>1. PICK n \in 1 .. PageSize, ks \in [1 .. PageSize -> Keys] :
             /\ \A a \in 1 .. n : source[ks[a]] > 0
             /\ page' = [page EXCEPT ![i] =
                            [a \in 1 .. n |-> RowOf(ks[a], source[ks[a]])]]
      BY <1>2 DEF FetchPage
    <3>2. \A a \in 1 .. n : RowOf(ks[a], source[ks[a]]) \in Row
      <4> SUFFICES ASSUME NEW a \in 1 .. n
                   PROVE  RowOf(ks[a], source[ks[a]]) \in Row
        OBVIOUS
      <4>1. ks[a] \in Keys
        BY ConstantsAssumption, <3>1
      <4>2. source[ks[a]] \in 1 .. Len(History[ks[a]])
        BY <1>0, <3>1, <4>1 DEF PublishedExists
      <4> QED
        BY <4>1, <4>2, RowOfIsRow
    <3>3. [a \in 1 .. n |-> RowOf(ks[a], source[ks[a]])] \in Seq(Row)
      BY <3>1, <3>2, ConstantsAssumption
    <3> QED
      BY <1>0, <3>1, <3>3
  <2>3. PublishedExists'
    BY <1>0, <2>1 DEF PublishedExists
  <2> QED
    BY <1>0, <2>1, <2>2, <2>3, FeedIInv
<1>3. ASSUME NEW i \in Ingesters, MintIds(i) PROVE IInv'
  <2>1. passesAlone /\ UNCHANGED <<source, page, raw>>
    BY <1>3 DEF MintIds, passesAlone
  <2>2. Len(page[i]) \in Nat
    BY <1>0
  <2>3. lastId' \in 0 .. MaxId /\ base' \in [Ingesters -> 0 .. NoId]
    BY <1>0, <1>3, <2>2 DEF MintIds, NoId
  <2>4. PublishedExists'
    BY <1>0, <2>1 DEF PublishedExists
  <2> QED
    BY <1>0, <2>1, <2>3, <2>4, FeedIInv
<1>4. ASSUME NEW i \in Ingesters, CommitPage(i) PROVE IInv'
  <2>1. passesAlone /\ UNCHANGED <<source, lastId>> /\ raw' = SavedRaw(i)
    BY <1>4 DEF CommitPage, passesAlone
  <2>2. page' \in [Ingesters -> Seq(Row)] /\ base' \in [Ingesters -> 0 .. NoId]
    BY <1>0, <1>4 DEF CommitPage, NoId
  <2>3. PublishedExists'
    BY <1>0, <2>1 DEF PublishedExists
  <2>4. raw' \in [Ids -> Row \cup {NoRow}] /\ \A id \in Committed : raw'[id] # NoRow
    BY <2>1, SavedRawType DEF IInv
  <2> QED
    BY <1>0, <2>1, <2>2, <2>3, <2>4, FeedIInv
<1>5. ASSUME NEW i \in Ingesters, LosePage(i) PROVE IInv'
  <2>1. passesAlone /\ UNCHANGED <<source, lastId, raw>>
    BY <1>5 DEF LosePage, passesAlone
  <2>2. page' \in [Ingesters -> Seq(Row)] /\ base' \in [Ingesters -> 0 .. NoId]
    BY <1>0, <1>5 DEF LosePage, NoId
  <2>3. PublishedExists'
    BY <1>0, <2>1 DEF PublishedExists
  <2> QED
    BY <1>0, <2>1, <2>2, <2>3, FeedIInv
<1> QED
  BY <1>1, <1>2, <1>3, <1>4, <1>5

----------------------------------------------------------------------------
(* The passes' steps *)

\* The feed is as it was, and so are the committed rows.
feedAlone == UNCHANGED <<feedVars>>

LEMMA FeedAlone ==
    ASSUME IInv, feedAlone
    PROVE  /\ PublishedExists'
           /\ Committed' = Committed
           /\ source' \in [Keys -> Nat]
           /\ page' \in [Ingesters -> Seq(Row)]
           /\ base' \in [Ingesters -> 0 .. NoId]
           /\ lastId' \in 0 .. MaxId
           /\ raw' \in [Ids -> Row \cup {NoRow}]
  BY DEF IInv, feedAlone, feedVars, TypeOK, PublishedExists, Committed

\* What the in-memory ids of a pass are.
LEMMA HeldIds ==
    ASSUME IInv, NEW p \in Passers
    PROVE  /\ batch[p] \subseteq Ids /\ chunk[p] \subseteq Ids /\ todo[p] \subseteq Ids
           /\ \A x \in batch[p] : raw[x] \in Row /\ x \in Nat /\ x \in 0 .. MaxId
           /\ \A x \in chunk[p] : raw[x] \in Row /\ x \in Nat /\ x \in batch[p]
           /\ \A x \in todo[p] : raw[x] \in Row /\ x \in Nat /\ x \in chunk[p]
  BY ConstantsAssumption DEF IInv, TypeOK, ReadsCommitted, Committed, Ids

\* A dropped pass holds nothing.
LEMMA DropPassIInv ==
    ASSUME IInv, NEW p \in Passers, DropPass(p), feedAlone,
           UNCHANGED <<store, cursor, projected>>,
           aborts' \in 0 .. MaxAborts
    PROVE  IInv'
<1> USE DEF DropPass, GoTo
<1>1. NoWork \in [Keys -> KeyState] /\ \A k \in Keys : NoWork[k] = NewKey
  BY NewKeyConsistent DEF NoWork
<1>2. TypeOK'
  BY <1>1, FeedAlone, ConstantsAssumption DEF IInv, TypeOK, Phases
<1>3. ReadsCommitted'
  BY FeedAlone DEF IInv, TypeOK, ReadsCommitted
<1>4. StoreConsistent'
  BY DEF IInv, StoreConsistent
<1>5. WorkConsistent'
  BY <1>1, NewKeyConsistent DEF IInv, TypeOK, WorkConsistent
<1>6. LockHeld'
  BY DEF IInv, TypeOK, LockHeld
<1>7. WorkAddsToStore'
  BY DEF IInv, TypeOK, WorkAddsToStore
<1> QED
  BY <1>2, <1>3, <1>4, <1>5, <1>6, <1>7, FeedAlone DEF IInv

\* Steps that touch neither the store nor a transaction's view of it.
LEMMA QuietSteps ==
    ASSUME IInv, NEW p \in Passers,
           \/ CallRunPass(p) \/ ResetCursor(p) \/ AcquireLock(p)
           \/ LoadCursor(p) \/ FetchBatch(p)
    PROVE  IInv'
<1>1. feedAlone /\ UNCHANGED <<store, projected, chunk, todo, work, aborts>>
  BY DEF CallRunPass, ResetCursor, AcquireLock, LoadCursor, FetchBatch, feedAlone
<1>2. cursor' \in 0 .. MaxId /\ mem' \in [Passers -> 0 .. MaxId]
  <2>1. cursor \in 0 .. MaxId /\ mem \in [Passers -> 0 .. MaxId] /\ MaxId \in Nat
    BY ConstantsAssumption DEF IInv, TypeOK
  <2>2. CASE ResetCursor(p)
    BY <2>1, <2>2 DEF ResetCursor
  <2>3. CASE LoadCursor(p)
    BY <2>1, <2>3 DEF LoadCursor
  <2>4. CASE CallRunPass(p) \/ AcquireLock(p) \/ FetchBatch(p)
    BY <2>1, <2>4 DEF CallRunPass, AcquireLock, FetchBatch
  <2> QED
    BY <2>2, <2>3, <2>4
<1>3. /\ pc' \in [Passers -> Phases]
      /\ \A q \in Passers : pc'[q] = "projecting" <=> pc[q] = "projecting"
  BY DEF IInv, TypeOK, Phases, GoTo, CallRunPass, ResetCursor, AcquireLock,
         LoadCursor, FetchBatch
<1>4. lock' \in Passers \cup {NoPass} /\ LockHeld'
  <2>1. CASE AcquireLock(p)
    BY <2>1, ConstantsAssumption DEF AcquireLock, GoTo, IInv, TypeOK, LockHeld
  <2>2. CASE CallRunPass(p) \/ ResetCursor(p) \/ LoadCursor(p) \/ FetchBatch(p)
    BY <2>2 DEF CallRunPass, ResetCursor, LoadCursor, FetchBatch, GoTo,
                IInv, TypeOK, LockHeld
  <2> QED
    BY <2>1, <2>2
<1>5. batch' \in [Passers -> SUBSET Ids] /\ ReadsCommitted'
  <2>1. CASE UNCHANGED batch
    BY <1>1, <1>3, <2>1, FeedAlone DEF IInv, TypeOK, ReadsCommitted
  <2>2. CASE FetchBatch(p)
    <3>1. PICK b \in SUBSET Unread(p) : batch' = [batch EXCEPT ![p] = b]
      BY <2>2 DEF FetchBatch
    <3>2. b \subseteq Committed /\ Committed \subseteq Ids
      BY <3>1 DEF Unread, Committed
    <3>3. batch[p] = {}
      BY <2>2 DEF FetchBatch
    <3> QED
      BY <1>1, <1>3, <3>1, <3>2, <3>3, FeedAlone DEF IInv, TypeOK, ReadsCommitted
  <2> QED
    BY <2>1, <2>2 DEF CallRunPass, ResetCursor, AcquireLock, LoadCursor
<1>6. TypeOK'
  BY <1>1, <1>2, <1>3, <1>4, <1>5, FeedAlone DEF IInv, TypeOK
<1>7. StoreConsistent' /\ WorkConsistent' /\ WorkAddsToStore'
  BY <1>1, <1>3 DEF IInv, StoreConsistent, WorkConsistent, WorkAddsToStore
<1> QED
  BY <1>1, <1>4, <1>5, <1>6, <1>7, FeedAlone DEF IInv

\* A transaction opens on the store as it is.
LEMMA BeginChunkIInv ==
    ASSUME IInv, NEW p \in Passers, BeginChunk(p)
    PROVE  IInv'
<1>1. feedAlone /\ UNCHANGED <<store, cursor, projected, lock, mem, batch, aborts>>
  BY DEF BeginChunk, feedAlone
<1>2. PICK c \in SUBSET batch[p] :
         /\ chunk' = [chunk EXCEPT ![p] = c]
         /\ \/ pc' = [pc EXCEPT ![p] = "single"] /\ UNCHANGED <<todo, work>>
            \/ /\ pc' = [pc EXCEPT ![p] = "projecting"]
               /\ todo' = [todo EXCEPT ![p] = c]
               /\ work' = [work EXCEPT ![p] = store]
  BY DEF BeginChunk, GoTo
<1>3. pc[p] = "draining"
  BY DEF BeginChunk
<1>4. todo' \in [Passers -> SUBSET Ids] /\ chunk' \in [Passers -> SUBSET Ids]
  BY <1>2, HeldIds DEF IInv, TypeOK
<1>5. work' \in [Passers -> [Keys -> KeyState]] /\ pc' \in [Passers -> Phases]
  <2>1. /\ work \in [Passers -> [Keys -> KeyState]] /\ store \in [Keys -> KeyState]
        /\ pc \in [Passers -> Phases]
    BY DEF IInv, TypeOK
  <2>2. work' \in [Passers -> [Keys -> KeyState]]
    BY <1>2, <2>1
  <2>3. "single" \in Phases /\ "projecting" \in Phases
    BY DEF Phases
  <2>4. pc' \in [Passers -> Phases]
    BY <1>2, <2>1, <2>3
  <2> QED
    BY <2>2, <2>4
<1>6. TypeOK'
  BY <1>1, <1>4, <1>5, FeedAlone DEF IInv, TypeOK
<1>7. ReadsCommitted'
  BY <1>1, <1>2, <1>3, FeedAlone DEF IInv, TypeOK, ReadsCommitted
<1>8. StoreConsistent' /\ WorkConsistent'
  BY <1>1, <1>2 DEF IInv, TypeOK, StoreConsistent, WorkConsistent
<1>9. LockHeld'
  BY <1>1, <1>2, <1>3 DEF IInv, TypeOK, LockHeld
<1>10. WorkAddsToStore'
  BY <1>1, <1>2, OnlyAppendedReflexive DEF IInv, TypeOK, WorkAddsToStore
<1> QED
  BY <1>1, <1>6, <1>7, <1>8, <1>9, <1>10, FeedAlone DEF IInv

\* One record of a transaction.
LEMMA ProjectRowIInv ==
    ASSUME IInv, NEW p \in Passers, ProjectRow(p)
    PROVE  IInv'
<1>1. /\ feedAlone
      /\ UNCHANGED <<store, cursor, projected, lock, pc, mem, batch, chunk, aborts>>
      /\ pc[p] = "projecting"
  BY DEF ProjectRow, feedAlone
<1>2. PICK x \in RowByRow(p) :
         /\ work' = [work EXCEPT ![p][raw[x].key] =
                        Process(work[p][raw[x].key], raw[x], x)]
         /\ todo' = [todo EXCEPT ![p] = @ \ {x}]
  BY DEF ProjectRow
<1>3. x \in todo[p]
  BY <1>2 DEF RowByRow
<1>4. raw[x] \in Row /\ x \in Nat
  BY <1>3, HeldIds
<1> DEFINE k == raw[x].key
           new == Process(work[p][k], raw[x], x)
<1>5. k \in Keys
  BY <1>4 DEF Row
<1>6. work[p][k] \in KeyState /\ KeyConsistent(work[p][k]) /\ store[k] \in KeyState
  BY <1>5 DEF IInv, TypeOK, WorkConsistent
<1>7. new \in KeyState /\ KeyConsistent(new) /\ OnlyAppended(work[p][k], new)
  BY <1>4, <1>6, ProcessType, ProcessConsistent, ProcessOnlyAppends
<1>8. OnlyAppended(store[k], new)
  <2>1. OnlyAppended(store[k], work[p][k])
    BY <1>1, <1>5 DEF IInv, WorkAddsToStore
  <2> QED
    BY <1>6, <1>7, <2>1, OnlyAppendedTransitive
<1>9. work' = [work EXCEPT ![p] = [work[p] EXCEPT ![k] = new]]
  BY <1>2
<1> HIDE DEF new, k
<1>10. /\ work' \in [Passers -> [Keys -> KeyState]]
       /\ \A q \in Passers, l \in Keys :
             work'[q][l] = IF q = p /\ l = k THEN new ELSE work[q][l]
  BY <1>5, <1>7, <1>9 DEF IInv, TypeOK
<1>11. /\ todo' \in [Passers -> SUBSET Ids]
       /\ \A q \in Passers : todo'[q] \subseteq todo[q]
  BY <1>2 DEF IInv, TypeOK
<1>12. TypeOK'
  BY <1>1, <1>10, <1>11, FeedAlone DEF IInv, TypeOK
<1>13. ReadsCommitted'
  BY <1>1, <1>11, FeedAlone DEF IInv, ReadsCommitted
<1>14. StoreConsistent' /\ WorkConsistent' /\ LockHeld' /\ WorkAddsToStore'
  BY <1>1, <1>7, <1>8, <1>10
     DEF IInv, StoreConsistent, WorkConsistent, LockHeld, WorkAddsToStore
<1> QED
  BY <1>1, <1>12, <1>13, <1>14, FeedAlone DEF IInv

\* The bulk write of a transaction.
LEMMA ProjectUniqueIInv ==
    ASSUME IInv, NEW p \in Passers, ProjectUnique(p)
    PROVE  IInv'
<1>1. /\ feedAlone
      /\ UNCHANGED <<store, cursor, projected, lock, pc, mem, batch, chunk, aborts>>
      /\ pc[p] = "projecting"
  BY DEF ProjectUnique, feedAlone
<1> DEFINE row(k) == CHOOSE x \in todo[p] : raw[x].key = k
           new == [k \in Keys |->
                      IF \E x \in todo[p] : raw[x].key = k
                      THEN ProcessBulk(work[p][k], raw[row(k)], row(k))
                      ELSE work[p][k]]
<1>2. work' = [work EXCEPT ![p] = new]
  BY DEF ProjectUnique
<1>3. todo' = [todo EXCEPT ![p] = {}]
  BY DEF ProjectUnique
<1>4. ASSUME NEW k \in Keys
      PROVE  new[k] \in KeyState /\ KeyConsistent(new[k]) /\ OnlyAppended(store[k], new[k])
  <2>1. /\ work[p][k] \in KeyState /\ KeyConsistent(work[p][k])
        /\ store[k] \in KeyState /\ OnlyAppended(store[k], work[p][k])
    BY <1>1 DEF IInv, TypeOK, WorkConsistent, WorkAddsToStore
  <2>2. CASE \E x \in todo[p] : raw[x].key = k
    <3>1. row(k) \in todo[p]
      BY <2>2
    <3>2. raw[row(k)] \in Row /\ row(k) \in Nat
      BY <3>1, HeldIds
    <3>3. new[k] = ProcessBulk(work[p][k], raw[row(k)], row(k))
      BY <2>2
    <3> HIDE DEF new, row
    <3>4. /\ new[k] \in KeyState /\ KeyConsistent(new[k])
          /\ OnlyAppended(work[p][k], new[k])
      BY <2>1, <3>2, <3>3, ProcessType, ProcessConsistent, ProcessOnlyAppends
    <3> QED
      BY <2>1, <3>4, OnlyAppendedTransitive
  <2>3. CASE ~ \E x \in todo[p] : raw[x].key = k
    BY <2>1, <2>3
  <2> QED
    BY <2>2, <2>3
<1>5. DOMAIN new = Keys
  OBVIOUS
<1>6. new = [k \in Keys |-> new[k]]
  OBVIOUS
<1> HIDE DEF new
<1>7. /\ work' \in [Passers -> [Keys -> KeyState]]
      /\ \A q \in Passers : work'[q] = IF q = p THEN new ELSE work[q]
  BY <1>2, <1>4, <1>6 DEF IInv, TypeOK
<1>8. /\ todo' \in [Passers -> SUBSET Ids]
      /\ \A q \in Passers : todo'[q] \subseteq todo[q]
  BY <1>3 DEF IInv, TypeOK
<1>9. TypeOK'
  BY <1>1, <1>7, <1>8, FeedAlone DEF IInv, TypeOK
<1>10. ReadsCommitted'
  BY <1>1, <1>8, FeedAlone DEF IInv, ReadsCommitted
<1>11. StoreConsistent' /\ WorkConsistent' /\ LockHeld' /\ WorkAddsToStore'
  BY <1>1, <1>4, <1>7
     DEF IInv, StoreConsistent, WorkConsistent, LockHeld, WorkAddsToStore
<1> QED
  BY <1>1, <1>9, <1>10, <1>11, FeedAlone DEF IInv

\* The transaction's view becomes the store; no other pass has one open.
LEMMA CommitChunkIInv ==
    ASSUME IInv, NEW p \in Passers, CommitChunk(p)
    PROVE  IInv' /\ \A k \in Keys : OnlyAppended(store[k], store'[k])
<1>1. feedAlone /\ UNCHANGED <<lock, todo, aborts>> /\ pc[p] = "projecting"
      /\ todo[p] = {}
  BY DEF CommitChunk, feedAlone
<1>2. PICK last \in batch[p] : cursor' = last /\ mem' = [mem EXCEPT ![p] = last]
  BY DEF CommitChunk
<1>3. /\ store' = work[p]
      /\ projected' = projected \cup chunk[p]
      /\ batch' = [batch EXCEPT ![p] = @ \ chunk[p]]
      /\ chunk' = [chunk EXCEPT ![p] = {}]
      /\ work' = [work EXCEPT ![p] = NoWork]
      /\ pc' = [pc EXCEPT ![p] = "draining"]
  BY DEF CommitChunk, GoTo
<1>4. NoWork \in [Keys -> KeyState] /\ \A k \in Keys : NoWork[k] = NewKey
  BY NewKeyConsistent DEF NoWork
<1>5. last \in 0 .. MaxId
  BY HeldIds
<1>6. chunk[p] \subseteq Committed
  BY DEF IInv, ReadsCommitted
<1>7. \A q \in Passers : pc'[q] # "projecting"
  BY <1>1, <1>3 DEF IInv, TypeOK, LockHeld
<1>8. TypeOK'
  <2>1. projected' \subseteq Committed'
    BY <1>1, <1>3, <1>6, FeedAlone DEF IInv, TypeOK
  <2>2. cursor' \in 0 .. MaxId /\ mem' \in [Passers -> 0 .. MaxId]
    BY <1>2, <1>5 DEF IInv, TypeOK
  <2>3. store' \in [Keys -> KeyState] /\ work' \in [Passers -> [Keys -> KeyState]]
    BY <1>3, <1>4 DEF IInv, TypeOK
  <2>4. /\ batch' \in [Passers -> SUBSET Ids]
        /\ chunk' \in [Passers -> SUBSET Ids]
        /\ pc' \in [Passers -> Phases]
    BY <1>3 DEF IInv, TypeOK, Phases
  <2> QED
    BY <1>1, <2>1, <2>2, <2>3, <2>4, FeedAlone DEF IInv, TypeOK
<1>9. ReadsCommitted'
  BY <1>1, <1>3, FeedAlone DEF IInv, TypeOK, ReadsCommitted
<1>10. StoreConsistent' /\ WorkConsistent'
  BY <1>3, <1>4, NewKeyConsistent DEF IInv, TypeOK, StoreConsistent, WorkConsistent
<1>11. LockHeld' /\ WorkAddsToStore'
  BY <1>1, <1>3, <1>7 DEF IInv, TypeOK, LockHeld, WorkAddsToStore
<1>12. \A k \in Keys : OnlyAppended(store[k], store'[k])
  BY <1>1, <1>3 DEF IInv, WorkAddsToStore
<1> QED
  BY <1>1, <1>8, <1>9, <1>10, <1>11, <1>12, FeedAlone DEF IInv

\* The transaction's view is thrown away.
LEMMA RollbackChunkIInv ==
    ASSUME IInv, NEW p \in Passers, RollbackChunk(p)
    PROVE  IInv'
<1>1. /\ feedAlone
      /\ UNCHANGED <<store, cursor, projected, lock, mem, batch, chunk>>
      /\ pc[p] = "projecting"
      /\ todo' = [todo EXCEPT ![p] = {}]
      /\ work' = [work EXCEPT ![p] = NoWork]
      /\ pc' = [pc EXCEPT ![p] = "single"]
  BY DEF RollbackChunk, feedAlone, GoTo
<1>2. aborts' \in 0 .. MaxAborts
  BY ConstantsAssumption DEF RollbackChunk, IInv, TypeOK
<1>3. NoWork \in [Keys -> KeyState] /\ \A k \in Keys : NoWork[k] = NewKey
  BY NewKeyConsistent DEF NoWork
<1>4. TypeOK'
  BY <1>1, <1>2, <1>3, FeedAlone DEF IInv, TypeOK, Phases
<1>5. ReadsCommitted'
  BY <1>1, FeedAlone DEF IInv, TypeOK, ReadsCommitted
<1>6. StoreConsistent' /\ WorkConsistent'
  BY <1>1, <1>3, NewKeyConsistent DEF IInv, TypeOK, StoreConsistent, WorkConsistent
<1>7. LockHeld' /\ WorkAddsToStore'
  BY <1>1 DEF IInv, TypeOK, LockHeld, WorkAddsToStore
<1> QED
  BY <1>1, <1>4, <1>5, <1>6, <1>7, FeedAlone DEF IInv

\* A record in a transaction of its own; no other pass has one open.
LEMMA ProcessOneIInv ==
    ASSUME IInv, NEW p \in Passers, ProcessOne(p)
    PROVE  IInv' /\ \A k \in Keys : OnlyAppended(store[k], store'[k])
<1>1. feedAlone /\ UNCHANGED <<lock, todo, work, aborts>> /\ pc[p] = "single"
  BY DEF ProcessOne, feedAlone
<1>2. PICK x \in chunk[p] :
         /\ store' = [store EXCEPT ![raw[x].key] = Process(@, raw[x], x)]
         /\ cursor' = x
         /\ projected' = projected \cup {x}
         /\ mem' = [mem EXCEPT ![p] = x]
         /\ batch' = [batch EXCEPT ![p] = @ \ {x}]
         /\ chunk' = [chunk EXCEPT ![p] = @ \ {x}]
         /\ pc' = [pc EXCEPT ![p] = "draining"] \/ UNCHANGED pc
  BY DEF ProcessOne, GoTo
<1>3. raw[x] \in Row /\ x \in Nat /\ x \in batch[p] /\ x \in 0 .. MaxId
  BY <1>2, HeldIds
<1> DEFINE key == raw[x].key
           new == Process(store[key], raw[x], x)
<1>4. key \in Keys
  BY <1>3 DEF Row
<1>5. store[key] \in KeyState /\ KeyConsistent(store[key])
  BY <1>4 DEF IInv, TypeOK, StoreConsistent
<1>6. new \in KeyState /\ KeyConsistent(new) /\ OnlyAppended(store[key], new)
  BY <1>3, <1>5, ProcessType, ProcessConsistent, ProcessOnlyAppends
<1>7. store' = [store EXCEPT ![key] = new]
  BY <1>2
<1> HIDE DEF new, key
<1>8. x \in Committed
  BY <1>3 DEF IInv, ReadsCommitted
<1>9. \A q \in Passers : pc'[q] # "projecting" /\ (q # p => pc'[q] = pc[q])
  BY <1>1, <1>2 DEF IInv, TypeOK, LockHeld
<1>10. TypeOK'
  <2>1. projected' \subseteq Committed'
    BY <1>1, <1>2, <1>8, FeedAlone DEF IInv, TypeOK
  <2>2. cursor' \in 0 .. MaxId /\ mem' \in [Passers -> 0 .. MaxId]
    BY <1>2, <1>3 DEF IInv, TypeOK
  <2>3. store' \in [Keys -> KeyState]
    BY <1>4, <1>6, <1>7 DEF IInv, TypeOK
  <2>4. /\ batch' \in [Passers -> SUBSET Ids]
        /\ chunk' \in [Passers -> SUBSET Ids]
        /\ pc' \in [Passers -> Phases]
    BY <1>2 DEF IInv, TypeOK, Phases
  <2> QED
    BY <1>1, <2>1, <2>2, <2>3, <2>4, FeedAlone DEF IInv, TypeOK
<1>11. ReadsCommitted'
  <2>1. \A q \in Passers : todo[q] = {}
    BY <1>1 DEF IInv, ReadsCommitted, LockHeld
  <2> QED
    BY <1>1, <1>2, <2>1, FeedAlone DEF IInv, TypeOK, ReadsCommitted
<1>12. StoreConsistent' /\ \A k \in Keys : OnlyAppended(store[k], store'[k])
  BY <1>4, <1>6, <1>7, OnlyAppendedReflexive DEF IInv, TypeOK, StoreConsistent
<1>13. WorkConsistent' /\ LockHeld' /\ WorkAddsToStore'
  BY <1>1, <1>9 DEF IInv, WorkConsistent, LockHeld, WorkAddsToStore
<1> QED
  BY <1>1, <1>10, <1>11, <1>12, <1>13, FeedAlone DEF IInv

----------------------------------------------------------------------------

\* Every step keeps the invariant and the audit trail.
LEMMA StepIInv ==
    ASSUME IInv, [Next]_vars
    PROVE  IInv' /\ \A k \in Keys : OnlyAppended(store[k], store'[k])
<1>1. ASSUME UNCHANGED store
      PROVE  \A k \in Keys : OnlyAppended(store[k], store'[k])
  BY <1>1, OnlyAppendedReflexive DEF IInv, TypeOK
<1>2. CASE UNCHANGED vars
  <2>1. passesAlone /\ feedAlone
    BY <1>2 DEF vars, passesAlone, feedAlone
  <2>2. \A id \in Committed : raw'[id] # NoRow
    BY <2>1 DEF feedAlone, feedVars, Committed
  <2>3. IInv'
    BY <2>1, <2>2, FeedAlone, FeedIInv
  <2> QED
    BY <1>1, <2>1, <2>3 DEF passesAlone
<1>3. ASSUME NEW k \in Keys, SourceChanges(k)
      PROVE  IInv' /\ UNCHANGED store
  BY <1>3, FeedSteps DEF SourceChanges
<1>4. ASSUME NEW i \in Ingesters,
             FetchPage(i) \/ MintIds(i) \/ CommitPage(i) \/ LosePage(i)
      PROVE  IInv' /\ UNCHANGED store
  BY <1>4, FeedSteps DEF FetchPage, MintIds, CommitPage, LosePage
<1>5. ASSUME NEW p \in Passers,
             \/ CallRunPass(p) \/ ResetCursor(p) \/ AcquireLock(p)
             \/ LoadCursor(p) \/ FetchBatch(p)
      PROVE  IInv' /\ UNCHANGED store
  BY <1>5, QuietSteps
     DEF CallRunPass, ResetCursor, AcquireLock, LoadCursor, FetchBatch
<1>6. ASSUME NEW p \in Passers, FinishPass(p) \/ HaltOnPoison(p) \/ AbortPass(p)
      PROVE  IInv' /\ UNCHANGED store
  <2>1. DropPass(p) /\ feedAlone /\ UNCHANGED <<store, cursor, projected>>
    BY <1>6 DEF FinishPass, HaltOnPoison, AbortPass, feedAlone
  <2>2. aborts' \in 0 .. MaxAborts
    BY <1>6, ConstantsAssumption
       DEF FinishPass, HaltOnPoison, AbortPass, IInv, TypeOK
  <2> QED
    BY <2>1, <2>2, DropPassIInv
<1>7. ASSUME NEW p \in Passers,
             \/ BeginChunk(p) \/ ProjectRow(p) \/ ProjectUnique(p)
             \/ RollbackChunk(p)
      PROVE  IInv' /\ UNCHANGED store
  BY <1>7, BeginChunkIInv, ProjectRowIInv, ProjectUniqueIInv, RollbackChunkIInv
     DEF BeginChunk, ProjectRow, ProjectUnique, RollbackChunk
<1>8. ASSUME NEW p \in Passers, CommitChunk(p) \/ ProcessOne(p)
      PROVE  IInv' /\ \A k \in Keys : OnlyAppended(store[k], store'[k])
  BY <1>8, CommitChunkIInv, ProcessOneIInv
<1> QED
  BY <1>1, <1>2, <1>3, <1>4, <1>5, <1>6, <1>7, <1>8 DEF Next, RunPass, Save

(***************************************************************************)
(* IInv holds in every reachable state: the types, a consistent store, and *)
(* that a pass past the lock holds it and works on what is committed.      *)
(***************************************************************************)
THEOREM Invariance == Spec => []IInv
<1>1. IInv /\ [Next]_vars => IInv'
  BY StepIInv
<1> QED
  BY InitIInv, <1>1, PTL DEF Spec

(***************************************************************************)
(* Every variable stays within its type: the cursor and the ids within the *)
(* minted ones, the projected ids committed, every row written well formed.*)
(***************************************************************************)
THEOREM TypeCorrect == Spec => []TypeOK
<1>1. IInv => TypeOK
  BY DEF IInv
<1> QED
  BY Invariance, <1>1, PTL

(***************************************************************************)
(* Crashes, rollbacks, replays and concurrent passes and resets keep every *)
(* key's entity and versions consistent.                                   *)
(***************************************************************************)
THEOREM StoreStaysConsistent == Spec => []StoreConsistent
<1>1. IInv => StoreConsistent
  BY DEF IInv
<1> QED
  BY Invariance, <1>1, PTL

(***************************************************************************)
(* No step rewrites or drops a version row: the advisory lock keeps a      *)
(* commit from overwriting what another pass wrote meanwhile.              *)
(***************************************************************************)
THEOREM AuditTrailIsKept == Spec => AuditTrailKept
<1>1. IInv /\ [Next]_vars => \A k \in Keys : OnlyAppended(store[k], store'[k])
  BY StepIInv
<1>2. IInv /\ [Next]_vars => [\A k \in Keys : OnlyAppended(store[k], store'[k])]_store
  BY <1>1
<1> QED
  BY Invariance, <1>2, PTL DEF Spec, AuditTrailKept

----------------------------------------------------------------------------

(***************************************************************************)
(* With one ingester the cursor never passes a row that is still to be     *)
(* projected, however many passes and resets run beside it: pages commit   *)
(* in the order their ids were minted, so a row appears only above every   *)
(* id a pass has read.  And as the revisions of a record are saved in      *)
(* their order, the newest projected one is what the entity shows.         *)
(***************************************************************************)

OneIngester == \A i, j \in Ingesters : i = j

\* Everything committed or read so far is below what is still to be committed.
Frontier ==
    /\ cursor <= lastId
    /\ \A p \in Passers : mem[p] <= lastId
    /\ \A id \in Committed : id <= lastId
    /\ \A i \in Ingesters : base[i] # NoId =>
          /\ base[i] + Len(page[i]) <= lastId
          /\ cursor <= base[i]
          /\ \A p \in Passers : mem[p] <= base[i]
          /\ \A id \in Committed : id <= base[i]
    /\ \A i \in Ingesters : page[i] = << >> => base[i] = NoId

\* What a pass has in memory: it is past no unprojected row, its batch is all
\* that is committed up to the batch's end, and its chunk a prefix of the batch.
ReadInOrder ==
    \A p \in Passers :
        /\ \A id \in Committed : id <= mem[p] => id \in projected
        /\ \A b \in batch[p] : b > mem[p]
        /\ \A b \in batch[p], id \in Committed :
              mem[p] < id /\ id <= b => id \in batch[p]
        /\ \A c \in chunk[p], b \in batch[p] : b <= c => b \in chunk[p]
        /\ pc[p] \in {"idle", "waiting", "locked"} => batch[p] = {}

WInv == IInv /\ NoRowSkipped /\ Frontier /\ ReadInOrder

Watermarks == NoRowSkipped /\ Frontier /\ ReadInOrder

----------------------------------------------------------------------------

\* The ranges of the numbers the watermark arguments compare.
LEMMA Numbers ==
    ASSUME TypeOK
    PROVE  /\ MaxId \in Nat /\ NoId = MaxId + 1
           /\ cursor \in Nat /\ lastId \in Nat /\ cursor <= MaxId /\ lastId <= MaxId
           /\ \A p \in Passers : mem[p] \in Nat
           /\ \A p \in Passers : batch[p] \subseteq Ids /\ chunk[p] \subseteq Ids
           /\ \A i \in Ingesters : base[i] \in Nat /\ Len(page[i]) \in Nat
           /\ Committed \subseteq Ids
           /\ \A id \in Ids : id \in Nat /\ id > 0 /\ id <= MaxId
<1>1. \A i \in Ingesters : page[i] \in Seq(Row)
  BY DEF TypeOK
<1>2. ASSUME NEW i \in Ingesters PROVE Len(page[i]) \in Nat
  BY <1>1
<1> QED
  BY <1>2, ConstantsAssumption DEF TypeOK, NoId, Ids, Committed

LEMMA InitWatermarks == Init => Watermarks
  BY ConstantsAssumption
     DEF Init, Watermarks, NoRowSkipped, Frontier, ReadInOrder, Committed, Ids, NoId

\* Steps after which no pass or cursor is further than before, and none less.
LEMMA StillWatermarks ==
    ASSUME WInv,
           UNCHANGED <<cursor, projected, mem, batch, chunk>>, Committed' = Committed,
           \A p \in Passers : pc'[p] \in {"idle", "waiting", "locked"} =>
                                 batch[p] = {},
           lastId' >= lastId, lastId' \in Nat,
           \A i \in Ingesters : base'[i] # NoId =>
               /\ base'[i] + Len(page'[i]) <= lastId'
               /\ base'[i] = base[i] \/ base'[i] = lastId,
           \A i \in Ingesters : page'[i] = << >> => base'[i] = NoId
    PROVE  Watermarks'
<1> USE DEF WInv, IInv
<1>1. NoRowSkipped'
  BY DEF NoRowSkipped
<1>2. ReadInOrder'
  BY DEF ReadInOrder
<1>3. Frontier'
  <2>1. ASSUME NEW i \in Ingesters, base'[i] # NoId
        PROVE  /\ cursor <= base'[i]
               /\ \A p \in Passers : mem[p] <= base'[i]
               /\ \A id \in Committed : id <= base'[i]
    BY <2>1 DEF Frontier
  <2>2. cursor <= lastId' /\ (\A p \in Passers : mem[p] <= lastId')
        /\ \A id \in Committed : id <= lastId'
    BY Numbers DEF Frontier
  <2> QED
    BY <2>1, <2>2 DEF Frontier
<1> QED
  BY <1>1, <1>2, <1>3 DEF Watermarks

LEMMA FeedWatermarks ==
    ASSUME WInv, NEW i \in Ingesters,
           FetchPage(i) \/ MintIds(i) \/ LosePage(i)
    PROVE  Watermarks'
<1> USE DEF WInv, IInv
<1>1. UNCHANGED <<cursor, projected, mem, batch, chunk, pc, raw>> /\ Committed' = Committed
  BY DEF FetchPage, MintIds, LosePage, passVars, Committed
<1>2. \A p \in Passers : pc'[p] \in {"idle", "waiting", "locked"} => batch[p] = {}
  BY <1>1 DEF ReadInOrder
<1>3. /\ lastId' >= lastId /\ lastId' \in Nat
      /\ \A j \in Ingesters : base'[j] # NoId =>
            /\ base'[j] + Len(page'[j]) <= lastId'
            /\ base'[j] = base[j] \/ base'[j] = lastId
      /\ \A j \in Ingesters : page'[j] = << >> => base'[j] = NoId
  <2>1. page \in [Ingesters -> Seq(Row)] /\ base \in [Ingesters -> 0 .. NoId]
    BY DEF TypeOK
  <2>2. CASE FetchPage(i)
    <3>1. page[i] = << >> /\ UNCHANGED <<base, lastId>>
          /\ \A j \in Ingesters : j # i => page'[j] = page[j]
      BY <2>1, <2>2 DEF FetchPage
    <3>2. base[i] = NoId
      BY <3>1 DEF Frontier
    <3> QED
      BY <3>1, <3>2, Numbers DEF Frontier
  <2>3. CASE MintIds(i)
    <3>1. /\ base' = [base EXCEPT ![i] = lastId] /\ page[i] # << >>
          /\ lastId' = lastId + Len(page[i]) /\ page' = page
      BY <2>3 DEF MintIds
    <3> QED
      BY <3>1, <2>1, Numbers DEF Frontier
  <2>4. CASE LosePage(i)
    <3>1. /\ base' = [base EXCEPT ![i] = NoId]
          /\ page' = [page EXCEPT ![i] = << >>] /\ lastId' = lastId
      BY <2>4 DEF LosePage
    <3> QED
      BY <3>1, <2>1, Numbers DEF Frontier
  <2> QED
    BY <2>2, <2>3, <2>4
<1> QED
  BY <1>1, <1>2, <1>3, StillWatermarks

\* The page's new rows are above everything read: nobody else minted meanwhile.
LEMMA CommitPageWatermarks ==
    ASSUME OneIngester, WInv, NEW i \in Ingesters, CommitPage(i)
    PROVE  Watermarks'
<1> USE DEF WInv, IInv
<1>1. /\ UNCHANGED <<cursor, projected, mem, batch, chunk, pc, lastId>>
      /\ raw' = SavedRaw(i) /\ base[i] # NoId
      /\ page' = [page EXCEPT ![i] = << >>]
      /\ base' = [base EXCEPT ![i] = NoId]
  BY DEF CommitPage, passVars
<1>2. /\ \A j \in Ingesters : base'[j] = NoId
      /\ page \in [Ingesters -> Seq(Row)]
  BY <1>1 DEF OneIngester, TypeOK
<1>3. ASSUME NEW id \in Committed'
      PROVE  id \in Committed \/ (id > base[i] /\ id <= lastId)
  <2>1. id \in Ids /\ SavedRaw(i)[id] # NoRow
    BY <1>1 DEF Committed
  <2>2. CASE Minted(i, id) = NoRow
    BY <2>1, <2>2 DEF SavedRaw, Committed
  <2>3. CASE Minted(i, id) # NoRow
    <3>1. id - base[i] \in DOMAIN page[i]
      BY <2>3 DEF Minted
    <3>2. id - base[i] \in 1 .. Len(page[i])
      BY <1>2, <3>1
    <3> QED
      BY <1>1, <2>1, <3>2, Numbers DEF Frontier
  <2> QED
    BY <2>2, <2>3
<1>4. /\ cursor <= base[i] /\ (\A p \in Passers : mem[p] <= base[i])
      /\ \A id \in Committed : id <= base[i] /\ id <= lastId
      /\ cursor <= lastId /\ \A p \in Passers : mem[p] <= lastId
  BY <1>1 DEF Frontier
<1>5. Committed' \subseteq Ids /\ \A id \in Committed' : id \in Nat
  BY ConstantsAssumption DEF Committed, Ids
<1>6. NoRowSkipped'
  BY <1>1, <1>3, <1>4, <1>5, Numbers DEF NoRowSkipped
<1>7. ReadInOrder'
  <2>1. \A p \in Passers : batch[p] \subseteq Committed /\ chunk[p] \subseteq batch[p]
    BY DEF ReadsCommitted
  <2>2. ASSUME NEW p \in Passers, NEW id \in Committed', id <= mem[p]
        PROVE  id \in projected
    <3>1. id \in Committed
      BY <1>3, <1>4, <1>5, <2>2, Numbers
    <3> QED
      BY <2>2, <3>1 DEF ReadInOrder
  <2>3. ASSUME NEW p \in Passers, NEW b \in batch[p], NEW id \in Committed',
               mem[p] < id, id <= b
        PROVE  id \in batch[p]
    <3>1. b <= base[i] /\ b \in Nat
      BY <1>4, <2>1, <1>5, Numbers
    <3>2. id \in Committed
      BY <1>3, <1>5, <2>3, <3>1, Numbers
    <3> QED
      BY <2>3, <3>2 DEF ReadInOrder
  <2> QED
    BY <1>1, <2>2, <2>3 DEF ReadInOrder
<1>8. Frontier'
  BY <1>1, <1>2, <1>3, <1>4 DEF Frontier
<1> QED
  BY <1>6, <1>7, <1>8 DEF Watermarks

----------------------------------------------------------------------------

\* Steps of a pass that move neither its position nor what it read.
LEMMA InPlaceWatermarks ==
    ASSUME WInv, NEW p \in Passers,
           \/ CallRunPass(p) \/ AcquireLock(p) \/ ProjectRow(p)
           \/ ProjectUnique(p) \/ RollbackChunk(p)
    PROVE  Watermarks'
<1> USE DEF WInv, IInv
<1>1. UNCHANGED <<cursor, projected, mem, batch, chunk, page, base, lastId, raw>>
  BY DEF CallRunPass, AcquireLock, ProjectRow, ProjectUnique, RollbackChunk, feedVars
<1>2. Committed' = Committed
  BY <1>1 DEF Committed
<1>3. \A q \in Passers : pc'[q] \in {"idle", "waiting", "locked"} => batch[q] = {}
  BY DEF CallRunPass, AcquireLock, ProjectRow, ProjectUnique, RollbackChunk, GoTo,
         ReadInOrder, TypeOK
<1> QED
  BY <1>1, <1>2, <1>3, StillWatermarks, Numbers DEF Frontier

LEMMA ResetCursorWatermarks ==
    ASSUME WInv, NEW p \in Passers, ResetCursor(p)
    PROVE  Watermarks'
<1> USE DEF WInv, IInv
<1>1. /\ UNCHANGED <<projected, mem, batch, chunk, page, base, lastId, raw>>
      /\ cursor' \in Nat /\ cursor' <= cursor
      /\ Committed' = Committed
  BY Numbers DEF ResetCursor, feedVars, Committed
<1>2. NoRowSkipped'
  BY <1>1, Numbers DEF NoRowSkipped
<1>3. Frontier'
  BY <1>1, Numbers DEF Frontier
<1>4. ReadInOrder'
  BY <1>1 DEF ResetCursor, GoTo, ReadInOrder, TypeOK
<1> QED
  BY <1>2, <1>3, <1>4 DEF Watermarks

LEMMA LoadCursorWatermarks ==
    ASSUME WInv, NEW p \in Passers, LoadCursor(p)
    PROVE  Watermarks'
<1> USE DEF WInv, IInv
<1>1. /\ UNCHANGED <<cursor, projected, batch, chunk, page, base, lastId, raw>>
      /\ mem' = [mem EXCEPT ![p] = cursor]
      /\ pc' = [pc EXCEPT ![p] = "draining"] /\ pc[p] = "locked"
      /\ Committed' = Committed
  BY DEF LoadCursor, feedVars, Committed, GoTo
<1>2. \A q \in Passers : mem'[q] = IF q = p THEN cursor ELSE mem[q]
  BY <1>1 DEF TypeOK
<1>3. batch[p] = {} /\ chunk[p] = {}
  BY <1>1 DEF ReadInOrder, ReadsCommitted
<1>4. NoRowSkipped'
  BY <1>1 DEF NoRowSkipped
<1>5. Frontier'
  BY <1>1, <1>2 DEF Frontier
<1>6. ReadInOrder'
  BY <1>1, <1>2, <1>3 DEF ReadInOrder, NoRowSkipped, TypeOK
<1> QED
  BY <1>4, <1>5, <1>6 DEF Watermarks

LEMMA FetchBatchWatermarks ==
    ASSUME WInv, NEW p \in Passers, FetchBatch(p)
    PROVE  Watermarks'
<1> USE DEF WInv, IInv
<1>1. /\ UNCHANGED <<cursor, projected, mem, chunk, pc, page, base, lastId, raw>>
      /\ batch[p] = {} /\ pc[p] = "draining"
      /\ Committed' = Committed
  BY DEF FetchBatch, feedVars, Committed
<1>2. PICK b \in SUBSET Unread(p) :
         /\ \A x \in b, y \in Unread(p) \ b : x < y
         /\ batch' = [batch EXCEPT ![p] = b]
  BY DEF FetchBatch, IsFirst
<1>3. \A q \in Passers : batch'[q] = IF q = p THEN b ELSE batch[q]
  BY <1>2 DEF TypeOK
<1>4. chunk[p] = {}
  BY <1>1 DEF ReadsCommitted
<1>5. ASSUME NEW x \in b, NEW id \in Committed, mem[p] < id, id <= x
      PROVE  id \in b
  <2>1. id \in Unread(p) /\ x \in Unread(p) /\ x \in Nat /\ id \in Nat
    BY <1>5, Numbers DEF Unread
  <2> QED
    BY <1>2, <1>5, <2>1
<1>6. \A x \in b : x > mem[p]
  BY Numbers DEF Unread
<1>7. NoRowSkipped' /\ Frontier'
  BY <1>1 DEF NoRowSkipped, Frontier
<1>8. ReadInOrder'
  BY <1>1, <1>3, <1>4, <1>5, <1>6 DEF ReadInOrder
<1> QED
  BY <1>7, <1>8 DEF Watermarks

LEMMA BeginChunkWatermarks ==
    ASSUME WInv, NEW p \in Passers, BeginChunk(p)
    PROVE  Watermarks'
<1> USE DEF WInv, IInv
<1>1. /\ UNCHANGED <<cursor, projected, mem, batch, page, base, lastId, raw>>
      /\ pc[p] = "draining" /\ Committed' = Committed
  BY DEF BeginChunk, feedVars, Committed
<1>2. PICK c \in SUBSET batch[p] :
         /\ \A x \in c, y \in batch[p] \ c : x < y
         /\ chunk' = [chunk EXCEPT ![p] = c]
         /\ \/ pc' = [pc EXCEPT ![p] = "single"]
            \/ pc' = [pc EXCEPT ![p] = "projecting"]
  BY DEF BeginChunk, IsFirst, GoTo
<1>3. \A q \in Passers : chunk'[q] = IF q = p THEN c ELSE chunk[q]
  BY <1>2 DEF TypeOK
<1>4. \A x \in c, y \in batch[p] : y <= x => y \in c
  <2>1. \A y \in batch[p] : y \in Nat
    BY Numbers
  <2> QED
    BY <1>2, <2>1
<1>5. NoRowSkipped' /\ Frontier'
  BY <1>1 DEF NoRowSkipped, Frontier
<1>6. \A q \in Passers : pc'[q] \in {"idle", "waiting", "locked"} => batch[q] = {}
  BY <1>1, <1>2 DEF ReadInOrder, TypeOK
<1>7. \A q \in Passers : \A x \in chunk'[q], b \in batch[q] : b <= x => b \in chunk'[q]
  BY <1>3, <1>4 DEF ReadInOrder
<1>8. ReadInOrder'
  BY <1>1, <1>6, <1>7 DEF ReadInOrder
<1> QED
  BY <1>5, <1>8 DEF Watermarks

LEMMA DropPassWatermarks ==
    ASSUME WInv, NEW p \in Passers, DropPass(p), feedAlone,
           UNCHANGED <<cursor, projected>>
    PROVE  Watermarks'
<1>1. /\ mem' = [mem EXCEPT ![p] = 0]
      /\ batch' = [batch EXCEPT ![p] = {}]
      /\ chunk' = [chunk EXCEPT ![p] = {}]
      /\ pc' = [pc EXCEPT ![p] = "idle"]
  BY DEF DropPass, GoTo
<1>2. /\ mem \in [Passers -> 0 .. MaxId] /\ pc \in [Passers -> Phases]
      /\ batch \in [Passers -> SUBSET Ids] /\ chunk \in [Passers -> SUBSET Ids]
  BY DEF WInv, IInv, TypeOK
<1>3. /\ mem'[p] = 0 /\ batch'[p] = {} /\ chunk'[p] = {}
      /\ \A q \in Passers : q # p => /\ mem'[q] = mem[q] /\ batch'[q] = batch[q]
                                     /\ chunk'[q] = chunk[q] /\ pc'[q] = pc[q]
  BY <1>1, <1>2
<1>4. UNCHANGED <<page, base, lastId, raw>> /\ Committed' = Committed
  BY DEF feedAlone, feedVars, Committed
<1>5. cursor' = cursor /\ projected' = projected
  OBVIOUS
<1>6. NoRowSkipped /\ Frontier /\ ReadInOrder /\ TypeOK
  BY DEF WInv, IInv
<1>7. NoRowSkipped'
  BY <1>4, <1>5, <1>6 DEF NoRowSkipped
<1>8. Frontier'
  <2>1. lastId \in Nat /\ \A i \in Ingesters : base[i] \in Nat
    BY <1>6, Numbers
  <2>2. lastId >= 0 /\ \A i \in Ingesters : base[i] >= 0
    BY <2>1
  <2>3. \A q \in Passers : mem'[q] <= lastId
    BY <1>3, <1>6, <2>2 DEF Frontier
  <2>4. \A i \in Ingesters : base[i] # NoId => \A q \in Passers : mem'[q] <= base[i]
    BY <1>3, <1>6, <2>2 DEF Frontier
  <2> QED
    BY <1>4, <1>5, <1>6, <2>3, <2>4 DEF Frontier
<1>9. ReadInOrder'
  <2>1. \A id \in Committed : ~(id <= 0)
    BY <1>6, Numbers
  <2> QED
    BY <1>3, <1>4, <1>5, <1>6, <2>1 DEF ReadInOrder
<1> QED
  BY <1>7, <1>8, <1>9 DEF Watermarks

----------------------------------------------------------------------------

(***************************************************************************)
(* A pass's progress to id last, when what it projects of its batch is     *)
(* everything there up to last.                                            *)
(***************************************************************************)
LEMMA ProgressWatermarks ==
    ASSUME WInv, NEW p \in Passers, feedAlone,
           NEW last \in chunk[p], NEW done \in SUBSET chunk[p],
           last \in done,
           \A y \in done : y <= last,
           \A y \in chunk[p] : y <= last => y \in done,
           cursor' = last,
           mem' = [mem EXCEPT ![p] = last],
           projected' = projected \cup done,
           batch' = [batch EXCEPT ![p] = @ \ done],
           chunk' = [chunk EXCEPT ![p] = @ \ done],
           pc[p] \notin {"idle", "waiting", "locked"},
           pc' = pc \/ pc' = [pc EXCEPT ![p] = "draining"]
    PROVE  Watermarks'
<1> USE DEF WInv, IInv
<1>1. UNCHANGED <<page, base, lastId, raw>> /\ Committed' = Committed
  BY DEF feedAlone, feedVars, Committed
<1>2. \A q \in Passers :
         /\ mem'[q] = IF q = p THEN last ELSE mem[q]
         /\ batch'[q] = IF q = p THEN batch[p] \ done ELSE batch[q]
         /\ chunk'[q] = IF q = p THEN chunk[p] \ done ELSE chunk[q]
         /\ pc'[q] \in {"idle", "waiting", "locked"} => pc'[q] = pc[q] /\ q # p
  BY DEF TypeOK
<1>3. last \in batch[p] /\ last \in Committed /\ last \in Nat
  BY Numbers DEF ReadsCommitted
<1>4. mem[p] < last /\ mem[p] \in Nat
  BY <1>3, Numbers DEF ReadInOrder
<1>5. /\ batch[p] \subseteq Committed /\ chunk[p] \subseteq batch[p]
      /\ \A id \in Committed : id \in Nat
  BY Numbers DEF ReadsCommitted
<1>6. ASSUME NEW id \in Committed, id <= last
      PROVE  id \in projected'
  <2>1. CASE id <= mem[p]
    BY <2>1 DEF ReadInOrder
  <2>2. CASE id > mem[p]
    <3>1. id \in batch[p]
      BY <1>3, <1>4, <1>5, <1>6, <2>2 DEF ReadInOrder
    <3>2. id \in chunk[p]
      BY <1>6, <3>1 DEF ReadInOrder
    <3> QED
      BY <1>6, <3>2
  <2> QED
    BY <1>4, <1>5, <2>1, <2>2
<1>7. ASSUME NEW b \in batch[p] \ done PROVE b > last
  <2>1. ~(b <= last)
    BY DEF ReadInOrder
  <2>2. b \in Nat
    BY <1>5
  <2> QED
    BY <1>3, <2>1, <2>2
<1>8. ASSUME NEW b \in batch[p] \ done, NEW id \in Committed, last < id, id <= b
      PROVE  id \in batch[p] \ done
  <2>1. id \in batch[p]
    BY <1>3, <1>4, <1>5, <1>8 DEF ReadInOrder
  <2>2. id \notin done
    BY <1>3, <1>5, <1>8
  <2> QED
    BY <2>1, <2>2
<1>9. NoRowSkipped'
  BY <1>1, <1>6 DEF NoRowSkipped
<1>10. Frontier'
  <2>1. last <= lastId /\ \A q \in Passers : mem'[q] <= lastId
    BY <1>2, <1>3 DEF Frontier
  <2>2. \A i \in Ingesters : base[i] # NoId =>
           last <= base[i] /\ \A q \in Passers : mem'[q] <= base[i]
    BY <1>2, <1>3 DEF Frontier
  <2> QED
    BY <1>1, <2>1, <2>2 DEF Frontier
<1>11. ReadInOrder'
  <2>1. \A q \in Passers : \A id \in Committed' : id <= mem'[q] => id \in projected'
    BY <1>1, <1>2, <1>6 DEF ReadInOrder
  <2>2. \A q \in Passers : \A b \in batch'[q] : b > mem'[q]
    BY <1>2, <1>7 DEF ReadInOrder
  <2>3. \A q \in Passers : \A b \in batch'[q], id \in Committed' :
           mem'[q] < id /\ id <= b => id \in batch'[q]
    BY <1>1, <1>2, <1>8 DEF ReadInOrder
  <2>4. \A q \in Passers : \A c \in chunk'[q], b \in batch'[q] :
           b <= c => b \in chunk'[q]
    BY <1>2 DEF ReadInOrder
  <2>5. \A q \in Passers : pc'[q] \in {"idle", "waiting", "locked"} => batch'[q] = {}
    BY <1>2 DEF ReadInOrder
  <2> QED
    BY <2>1, <2>2, <2>3, <2>4, <2>5 DEF ReadInOrder
<1> QED
  BY <1>9, <1>10, <1>11 DEF Watermarks

LEMMA CommitChunkWatermarks ==
    ASSUME WInv, NEW p \in Passers, CommitChunk(p)
    PROVE  Watermarks'
<1>1. PICK last \in batch[p] :
         /\ IsGreatest(last, chunk[p])
         /\ cursor' = last
         /\ mem' = [mem EXCEPT ![p] = last]
  BY DEF CommitChunk, LastOfChunk
<1>2. last \in chunk[p] /\ \A y \in chunk[p] : y <= last
  BY <1>1 DEF IsGreatest
<1>3. /\ feedAlone /\ pc[p] = "projecting"
      /\ projected' = projected \cup chunk[p]
      /\ batch' = [batch EXCEPT ![p] = @ \ chunk[p]]
      /\ chunk' = [chunk EXCEPT ![p] = @ \ chunk[p]]
      /\ pc' = [pc EXCEPT ![p] = "draining"]
  BY DEF CommitChunk, GoTo, feedAlone
<1> QED
  BY <1>1, <1>2, <1>3, ProgressWatermarks

LEMMA ProcessOneWatermarks ==
    ASSUME WInv, NEW p \in Passers, ProcessOne(p)
    PROVE  Watermarks'
<1>1. PICK x \in chunk[p] :
         /\ IsLeast(x, chunk[p])
         /\ cursor' = x
         /\ projected' = projected \cup {x}
         /\ mem' = [mem EXCEPT ![p] = x]
         /\ batch' = [batch EXCEPT ![p] = @ \ {x}]
         /\ chunk' = [chunk EXCEPT ![p] = @ \ {x}]
         /\ pc' = [pc EXCEPT ![p] = "draining"] \/ pc' = pc
  BY DEF ProcessOne, GoTo
<1>2. feedAlone /\ pc[p] = "single"
  BY DEF ProcessOne, feedAlone
<1>3. chunk[p] \subseteq Nat
  BY Numbers DEF WInv, IInv
<1>4. {x} \in SUBSET chunk[p] /\ x \in {x} /\ \A y \in {x} : y <= x
  BY <1>3
<1>5. \A y \in chunk[p] : y <= x => y \in {x}
  BY <1>1, <1>3 DEF IsLeast
<1>6. pc[p] \notin {"idle", "waiting", "locked"}
  BY <1>2
<1>7. pc' = pc \/ pc' = [pc EXCEPT ![p] = "draining"]
  BY <1>1
<1> DEFINE done == {x}
<1>8. /\ projected' = projected \cup done
      /\ batch' = [batch EXCEPT ![p] = @ \ done]
      /\ chunk' = [chunk EXCEPT ![p] = @ \ done]
      /\ done \in SUBSET chunk[p] /\ x \in done /\ \A y \in done : y <= x
      /\ \A y \in chunk[p] : y <= x => y \in done
  BY <1>1, <1>4, <1>5
<1> HIDE DEF done
<1> QED
  BY <1>1, <1>2, <1>6, <1>7, <1>8, ProgressWatermarks

----------------------------------------------------------------------------

LEMMA InitWInv == Init => WInv
  BY InitIInv, InitWatermarks DEF WInv, Watermarks

LEMMA StepWInv ==
    ASSUME OneIngester, WInv, [Next]_vars
    PROVE  WInv'
<1>1. IInv'
  BY StepIInv DEF WInv
<1>2. CASE UNCHANGED vars
  <2>1. UNCHANGED <<cursor, projected, mem, batch, chunk, pc, page, base, lastId, raw>>
    BY <1>2 DEF vars, feedVars, passVars
  <2>2. NoRowSkipped' /\ Frontier' /\ ReadInOrder'
    BY <2>1 DEF WInv, NoRowSkipped, Frontier, ReadInOrder, Committed
  <2> QED
    BY <1>1, <2>2 DEF WInv
<1>3. ASSUME NEW k \in Keys, SourceChanges(k) PROVE Watermarks'
  <2>1. UNCHANGED <<cursor, projected, mem, batch, chunk, pc, page, base, lastId, raw>>
    BY <1>3 DEF SourceChanges, passVars
  <2> QED
    BY <2>1 DEF WInv, Watermarks, NoRowSkipped, Frontier, ReadInOrder, Committed
<1>4. ASSUME NEW i \in Ingesters,
             FetchPage(i) \/ MintIds(i) \/ CommitPage(i) \/ LosePage(i)
      PROVE  Watermarks'
  BY <1>4, FeedWatermarks, CommitPageWatermarks
<1>5. ASSUME NEW p \in Passers,
             \/ CallRunPass(p) \/ AcquireLock(p) \/ ProjectRow(p)
             \/ ProjectUnique(p) \/ RollbackChunk(p) \/ ResetCursor(p)
             \/ LoadCursor(p) \/ FetchBatch(p) \/ BeginChunk(p)
      PROVE  Watermarks'
  BY <1>5, InPlaceWatermarks, ResetCursorWatermarks, LoadCursorWatermarks,
     FetchBatchWatermarks, BeginChunkWatermarks
<1>6. ASSUME NEW p \in Passers, FinishPass(p) \/ HaltOnPoison(p) \/ AbortPass(p)
      PROVE  Watermarks'
  <2>1. DropPass(p) /\ feedAlone /\ UNCHANGED <<cursor, projected>>
    BY <1>6 DEF FinishPass, HaltOnPoison, AbortPass, feedAlone
  <2> QED
    BY <2>1, DropPassWatermarks
<1>7. ASSUME NEW p \in Passers, CommitChunk(p) \/ ProcessOne(p)
      PROVE  Watermarks'
  BY <1>7, CommitChunkWatermarks, ProcessOneWatermarks
<1> QED
  BY <1>1, <1>2, <1>3, <1>4, <1>5, <1>6, <1>7
     DEF Next, RunPass, Save, WInv, Watermarks

(***************************************************************************)
(* With one ingester no saved row is ever left behind the cursor.          *)
(***************************************************************************)
THEOREM CursorIsWatermark ==
    ASSUME OneIngester
    PROVE  Spec => []NoRowSkipped
<1>1. WInv /\ [Next]_vars => WInv'
  BY StepWInv
<1>2. WInv => NoRowSkipped
  BY DEF WInv
<1> QED
  BY InitWInv, <1>1, <1>2, PTL DEF Spec

----------------------------------------------------------------------------

\* What is left of a key when the rows in S have been applied.
Reflects(ks, S, k) ==
    /\ \A x \in S : raw[x].key = k => Accounted(ks, raw[x])
    /\ Exists(ks) => \E x \in S : raw[x].key = k /\ WrittenFrom(ks, raw[x])

\* A record's revisions are saved in their order.
RevisionsInOrder ==
    \A a, b \in Committed :
        a < b /\ raw[a].key = raw[b].key => raw[a].sma < raw[b].sma

PagesAreCurrent ==
    /\ \A id \in Committed : raw[id].sma <= source[raw[id].key]
    /\ \A i \in Ingesters : \A a \in DOMAIN page[i] :
          /\ page[i][a].sma <= source[page[i][a].key]
          /\ \A id \in Committed :
                raw[id].key = page[i][a].key => raw[id].sma <= page[i][a].sma
          /\ \A b \in DOMAIN page[i] : page[i][a].key = page[i][b].key => a = b

ProjectedInOrder ==
    \A y \in projected, x \in Committed : x <= y => x \in projected

StoreReflects == \A k \in Keys : Reflects(store[k], projected, k)

\* The rows the open transaction has applied.
Applied(p) == chunk[p] \ todo[p]

WorkReflects ==
    \A p \in Passers, k \in Keys :
        pc[p] = "projecting" => Reflects(work[p][k], projected \cup Applied(p), k)

TodoInOrder ==
    \A p \in Passers : \A x \in todo[p], y \in Applied(p) :
        raw[x].key = raw[y].key => y < x

WorkIsIdle ==
    \A p \in Passers, k \in Keys :
        /\ pc[p] = "projecting"
        /\ \A x \in Applied(p) : raw[x].key = k => x \in projected
        => work[p][k] = store[k]

FeedOrder == RevisionsInOrder /\ PagesAreCurrent

PassOrder == /\ ProjectedInOrder
             /\ StoreReflects
             /\ WorkReflects
             /\ TodoInOrder
             /\ WorkIsIdle

NInv == WInv /\ FeedOrder /\ PassOrder

LEMMA NumbersOfRows ==
    ASSUME TypeOK
    PROVE  /\ Committed \subseteq Ids
           /\ \A x \in Ids : x \in Nat
           /\ \A x \in Committed : /\ raw[x] \in Row /\ x \in Nat
                                   /\ raw[x].sma \in Nat /\ raw[x].key \in Keys
           /\ projected \subseteq Committed
  BY ConstantsAssumption DEF TypeOK, Committed, Ids, Row

\* One row more, unless a later one of its key came before it.
LEMMA ReflectsOneMore ==
    ASSUME TypeOK, RevisionsInOrder,
           NEW ks \in KeyState, KeyConsistent(ks),
           NEW S \in SUBSET Committed, NEW x \in Committed,
           Reflects(ks, S, raw[x].key),
           \A y \in S : raw[y].key = raw[x].key /\ y > x => x \in S
    PROVE  /\ Reflects(Process(ks, raw[x], x), S \cup {x}, raw[x].key)
           /\ x \in S => Process(ks, raw[x], x) = ks
<1> DEFINE new == Process(ks, raw[x], x)
<1>1. raw[x] \in Row /\ x \in Nat
  BY NumbersOfRows
<1>2. /\ Accounted(new, raw[x])
      /\ Accounted(ks, raw[x]) => new = ks
      /\ new = ks \/ WrittenFrom(new, raw[x])
  BY <1>1, ProcessOutcome
<1> HIDE DEF new
<1>3. x \in S => new = ks
  BY <1>2 DEF Reflects
<1>4. CASE new = ks
  BY <1>2, <1>3, <1>4 DEF Reflects, new
<1>5. CASE new # ks
  <2>1. x \notin S /\ WrittenFrom(new, raw[x])
    BY <1>2, <1>3, <1>5
  <2>2. ASSUME NEW y \in S, raw[y].key = raw[x].key
        PROVE  Accounted(new, raw[y])
    <3>1. y \in Committed /\ y \in Nat /\ y # x /\ ~(y > x)
      BY <2>1, <2>2, NumbersOfRows
    <3>2. raw[y].sma < raw[x].sma
      BY <1>1, <2>2, <3>1 DEF RevisionsInOrder
    <3>3. raw[y].sma <= raw[x].sma
      BY <3>1, <3>2, NumbersOfRows
    <3> QED
      BY <2>1, <3>3 DEF Accounted, WrittenFrom
  <2> QED
    BY <1>2, <2>1, <2>2 DEF Reflects, new
<1> QED
  BY <1>3, <1>4, <1>5 DEF new

\* What the invariant is for.
LEMMA ReflectedIsNewest ==
    ASSUME TypeOK, StoreConsistent, RevisionsInOrder, StoreReflects
    PROVE  NewestWins
<1> SUFFICES ASSUME NEW k \in Keys, NEW x \in projected, IsNewestProjected(x, k)
             PROVE  /\ Exists(store[k])
                    /\ store[k].ent.view = raw[x].view
                    /\ raw[x].view => store[k].ent.val = raw[x].val
  BY DEF NewestWins
<1>1. /\ raw[x].key = k
      /\ \A y \in projected : raw[y].key = k => raw[y].sma <= raw[x].sma
  BY DEF IsNewestProjected
<1>2. Accounted(store[k], raw[x]) /\ Exists(store[k])
  BY <1>1 DEF StoreReflects, Reflects, Accounted
<1>3. CASE Agrees(store[k], raw[x])
  BY <1>2, <1>3 DEF Agrees
<1>4. CASE raw[x].sma <= store[k].vers[store[k].ent.cur].sma
  <2>1. PICK y \in projected : raw[y].key = k /\ WrittenFrom(store[k], raw[y])
    BY <1>2 DEF StoreReflects, Reflects
  <2>2. x \in Committed /\ y \in Committed /\ x \in Nat /\ y \in Nat
        /\ raw[x].sma \in Nat /\ raw[y].sma \in Nat
    BY NumbersOfRows
  <2>3. raw[x].sma = raw[y].sma
    BY <1>1, <1>4, <2>1, <2>2 DEF WrittenFrom
  <2>4. x = y
    BY <1>1, <2>1, <2>2, <2>3 DEF RevisionsInOrder
  <2>5. store[k] \in KeyState /\ KeyConsistent(store[k])
    BY DEF TypeOK, StoreConsistent
  <2>6. /\ store[k].vers[store[k].ent.cur].view = store[k].ent.view
        /\ store[k].ent.view => store[k].vers[store[k].ent.cur].val = store[k].ent.val
    BY <1>2, <2>5, CurrentVersion
  <2> QED
    BY <1>2, <2>1, <2>4, <2>6 DEF WrittenFrom
<1> QED
  BY <1>2, <1>3, <1>4 DEF Accounted

----------------------------------------------------------------------------
(* The feed *)

LEMMA PageRows ==
    ASSUME TypeOK, NEW i \in Ingesters, NEW a \in DOMAIN page[i]
    PROVE  /\ page[i][a] \in Row /\ page[i][a].sma \in Nat /\ page[i][a].key \in Keys
           /\ a \in Nat /\ a > 0
<1>1. page[i] \in Seq(Row)
  BY DEF TypeOK
<1>2. page[i][a] \in Row /\ a \in Nat /\ a > 0
  BY <1>1
<1> QED
  BY <1>2 DEF Row

\* New rows have new ids, and those come after all that is projected.
LEMMA StillPassOrder ==
    ASSUME TypeOK, ReadsCommitted, PassOrder,
           UNCHANGED <<store, projected, pc, chunk, todo, work>>,
           \A id \in Committed : id \in Committed' /\ raw'[id] = raw[id],
           \A id \in Committed' : id \in Committed \/ \A y \in projected : ~(id <= y)
    PROVE  PassOrder'
<1>1. projected \subseteq Committed
  BY NumbersOfRows
<1>2. \A p \in Passers : chunk[p] \subseteq Committed /\ todo[p] \subseteq Committed
  BY DEF ReadsCommitted
<1>3. \A p \in Passers : Applied(p)' = Applied(p)
  BY DEF Applied
<1>4. \A p \in Passers : Applied(p) \subseteq Committed
  BY <1>2 DEF Applied
<1>5. ProjectedInOrder'
  BY <1>1 DEF PassOrder, ProjectedInOrder
<1>6. StoreReflects'
  BY <1>1 DEF PassOrder, StoreReflects, Reflects
<1>7. WorkReflects'
  <2> SUFFICES ASSUME NEW p \in Passers, NEW k \in Keys, pc'[p] = "projecting"
               PROVE  Reflects(work[p][k], projected \cup Applied(p), k)'
    BY DEF WorkReflects
  <2>1. Reflects(work[p][k], projected \cup Applied(p), k)
    BY DEF PassOrder, WorkReflects
  <2> QED
    BY <1>1, <1>3, <1>4, <2>1 DEF Reflects
<1>8. TodoInOrder'
  <2>1. \A p \in Passers : \A x \in todo[p], y \in Applied(p) :
           raw'[x] = raw[x] /\ raw'[y] = raw[y]
    BY <1>2, <1>4
  <2> QED
    BY <1>3, <2>1 DEF PassOrder, TodoInOrder
<1>9. WorkIsIdle'
  <2>1. \A p \in Passers : \A y \in Applied(p) : raw'[y] = raw[y]
    BY <1>4
  <2> QED
    BY <1>3, <2>1 DEF PassOrder, WorkIsIdle
<1> QED
  BY <1>5, <1>6, <1>7, <1>8, <1>9 DEF PassOrder

LEMMA FeedKeepsOrder ==
    ASSUME OneIngester, NInv,
           \/ \E k \in Keys : SourceChanges(k)
           \/ \E i \in Ingesters : FetchPage(i) \/ MintIds(i) \/ LosePage(i)
    PROVE  FeedOrder' /\ PassOrder'
<1> USE DEF NInv, WInv, IInv
<1>1. UNCHANGED <<raw, store, projected, pc, chunk, todo, work>>
  BY DEF SourceChanges, FetchPage, MintIds, LosePage, passVars
<1>2. Committed' = Committed
  BY <1>1 DEF Committed
<1>3. PassOrder'
  BY <1>1, <1>2, StillPassOrder
<1>4. RevisionsInOrder'
  BY <1>1, <1>2 DEF FeedOrder, RevisionsInOrder
<1>5. PagesAreCurrent'
  <2>1. /\ source \in [Keys -> Nat] /\ page \in [Ingesters -> Seq(Row)]
        /\ \A id \in Committed : raw[id].sma \in Nat /\ raw[id].key \in Keys
    BY NumbersOfRows DEF TypeOK
  <2>2. CASE \E k \in Keys : SourceChanges(k)
    <3>1. PICK k \in Keys : source' = [source EXCEPT ![k] = @ + 1]
      BY <2>2 DEF SourceChanges
    <3>2. \A l \in Keys : source'[l] \in Nat /\ source[l] \in Nat /\ source'[l] >= source[l]
      BY <2>1, <3>1
    <3>3. \A id \in Committed : raw[id].sma <= source'[raw[id].key]
      BY <2>1, <3>2 DEF FeedOrder, PagesAreCurrent
    <3>4. page' = page
      BY <2>2 DEF SourceChanges
    <3>5. ASSUME NEW i \in Ingesters, NEW a \in DOMAIN page[i]
          PROVE  page[i][a].sma <= source'[page[i][a].key]
      BY <3>2, PageRows DEF FeedOrder, PagesAreCurrent
    <3> QED
      BY <1>1, <1>2, <3>3, <3>4, <3>5 DEF FeedOrder, PagesAreCurrent
  <2>3. ASSUME NEW i \in Ingesters, FetchPage(i)
        PROVE  PagesAreCurrent'
    <3>1. PICK n \in 1 .. PageSize, ks \in [1 .. PageSize -> Keys] :
             /\ \A a, b \in 1 .. n : a # b => ks[a] # ks[b]
             /\ page' = [page EXCEPT ![i] =
                            [a \in 1 .. n |-> RowOf(ks[a], source[ks[a]])]]
      BY <2>3 DEF FetchPage
    <3>2. 1 .. n \subseteq 1 .. PageSize
      BY ConstantsAssumption
    <3>3. page'[i] = [a \in 1 .. n |-> RowOf(ks[a], source[ks[a]])]
      BY <2>1, <3>1
    <3>4. source' = source
      BY <2>3 DEF FetchPage
    <3>5. DOMAIN page'[i] = 1 .. n
      BY <3>3
    <3>6. \A a \in 1 .. n : /\ page'[i][a].sma = source[ks[a]]
                            /\ page'[i][a].key = ks[a] /\ source[ks[a]] \in Nat
      <4> TAKE a \in 1 .. n
      <4>1. ks[a] \in Keys
        BY <3>2
      <4>2. page'[i][a] = RowOf(ks[a], source[ks[a]])
        BY <3>3
      <4>3. page'[i][a].sma = source[ks[a]] /\ page'[i][a].key = ks[a]
        BY <4>2 DEF RowOf
      <4> QED
        BY <2>1, <4>1, <4>3
    <3>7. \A j \in Ingesters : j = i
      BY DEF OneIngester
    <3> QED
      BY <1>1, <1>2, <3>1, <3>4, <3>5, <3>6, <3>7 DEF FeedOrder, PagesAreCurrent
  <2>4. ASSUME NEW i \in Ingesters, MintIds(i)
        PROVE  PagesAreCurrent'
    BY <1>1, <1>2, <2>4 DEF MintIds, FeedOrder, PagesAreCurrent
  <2>5. ASSUME NEW i \in Ingesters, LosePage(i)
        PROVE  PagesAreCurrent'
    <3>1. source' = source /\ page' = [page EXCEPT ![i] = << >>]
      BY <2>5 DEF LosePage
    <3>2. \A j \in Ingesters : page'[j] = page[j] \/ DOMAIN page'[j] = {}
      BY <2>1, <3>1
    <3> QED
      BY <1>1, <1>2, <3>1, <3>2 DEF FeedOrder, PagesAreCurrent
  <2> QED
    BY <2>2, <2>3, <2>4, <2>5
<1> QED
  BY <1>3, <1>4, <1>5 DEF FeedOrder

LEMMA CommitPageKeepsOrder ==
    ASSUME OneIngester, NInv, NEW i \in Ingesters, CommitPage(i)
    PROVE  FeedOrder' /\ PassOrder'
<1> USE DEF NInv, WInv, IInv
<1>1. /\ UNCHANGED <<source, store, projected, pc, chunk, todo, work>>
      /\ raw' = SavedRaw(i) /\ base[i] # NoId
      /\ page' = [page EXCEPT ![i] = << >>]
  BY DEF CommitPage, passVars
<1>2. base[i] \in Nat /\ page[i] \in Seq(Row)
  BY Numbers DEF TypeOK
<1>3. \A id \in Committed : id \in Ids /\ id \in Nat /\ id <= base[i]
  BY <1>1, NumbersOfRows DEF Frontier
<1>4. ASSUME NEW id \in Committed
      PROVE  id \in Committed' /\ raw'[id] = raw[id]
  <2>1. id - base[i] \notin DOMAIN page[i]
    BY <1>2, <1>3
  <2>2. Minted(i, id) = NoRow
    BY <2>1 DEF Minted
  <2> QED
    BY <1>1, <1>3, <2>2 DEF SavedRaw, Committed
<1>5. ASSUME NEW id \in Committed', id \notin Committed
      PROVE  /\ id \in Nat /\ id > base[i] /\ id - base[i] \in DOMAIN page[i]
             /\ raw'[id] = page[i][id - base[i]]
             /\ ~AlreadySaved(raw'[id])
  <2>1. id \in Ids /\ raw'[id] # NoRow /\ raw[id] = NoRow
    BY <1>5 DEF Committed
  <2>2. raw'[id] = Minted(i, id) /\ Minted(i, id) # NoRow /\ ~AlreadySaved(Minted(i, id))
    BY <1>1, <2>1 DEF SavedRaw
  <2>3. id - base[i] \in DOMAIN page[i] /\ Minted(i, id) = page[i][id - base[i]]
    BY <2>2 DEF Minted
  <2>4. id \in Nat
    BY <2>1, ConstantsAssumption DEF Ids
  <2>5. id - base[i] > 0
    BY <1>2, <2>3
  <2>6. id > base[i]
    BY <1>2, <2>4, <2>5
  <2> QED
    BY <2>2, <2>3, <2>4, <2>6
<1>6. projected \subseteq Committed
  BY NumbersOfRows
<1>7. PassOrder'
  <2>1. \A id \in Committed' : id \in Committed \/ \A y \in projected : ~(id <= y)
    BY <1>2, <1>3, <1>5, <1>6
  <2> QED
    BY <1>1, <1>4, <2>1, StillPassOrder
<1>8. RevisionsInOrder'
  <2> SUFFICES ASSUME NEW a \in Committed', NEW b \in Committed', a < b,
                      raw'[a].key = raw'[b].key
               PROVE  raw'[a].sma < raw'[b].sma
    BY DEF RevisionsInOrder
  <2>1. CASE a \in Committed /\ b \in Committed
    BY <1>4, <2>1 DEF FeedOrder, RevisionsInOrder
  <2>2. CASE a \in Committed /\ b \notin Committed
    <3> DEFINE n == b - base[i]
    <3>1. n \in DOMAIN page[i] /\ raw'[b] = page[i][n] /\ ~AlreadySaved(page[i][n])
      BY <1>5, <2>2
    <3>2. raw'[a] = raw[a] /\ raw[a].sma \in Nat
      BY <1>4, <2>2, NumbersOfRows
    <3>3. page[i][n].sma \in Nat
      BY <3>1, PageRows
    <3> HIDE DEF n
    <3>4. raw[a].sma <= page[i][n].sma
      BY <2>2, <3>1, <3>2 DEF FeedOrder, PagesAreCurrent
    <3>5. raw[a].sma # page[i][n].sma
      BY <2>2, <3>1, <3>2 DEF AlreadySaved
    <3> QED
      BY <3>1, <3>2, <3>3, <3>4, <3>5
  <2>3. CASE a \notin Committed /\ b \in Committed
    BY <1>2, <1>3, <1>5, <2>3
  <2>4. CASE a \notin Committed /\ b \notin Committed
    <3>1. a - base[i] = b - base[i]
      BY <1>5, <2>4 DEF FeedOrder, PagesAreCurrent
    <3> QED
      BY <1>2, <1>5, <2>4, <3>1
  <2> QED
    BY <2>1, <2>2, <2>3, <2>4
<1>9. PagesAreCurrent'
  <2>1. \A j \in Ingesters : DOMAIN page'[j] = {}
    BY <1>1 DEF OneIngester, TypeOK
  <2>2. ASSUME NEW id \in Committed'
        PROVE  raw'[id].sma <= source[raw'[id].key]
    BY <1>4, <1>5 DEF FeedOrder, PagesAreCurrent
  <2> QED
    BY <1>1, <2>1, <2>2 DEF PagesAreCurrent
<1> QED
  BY <1>7, <1>8, <1>9 DEF FeedOrder

----------------------------------------------------------------------------
(* A pass *)

\* Steps that leave the feed alone leave its order alone.
LEMMA FeedOrderStands ==
    ASSUME feedAlone, FeedOrder
    PROVE  FeedOrder' /\ Committed' = Committed /\ raw' = raw
  BY DEF feedAlone, feedVars, FeedOrder, RevisionsInOrder, PagesAreCurrent, Committed

\* A pass that projects nothing yet, or no more.
LEMMA NotProjecting ==
    ASSUME TypeOK, ReadsCommitted, PassOrder, feedAlone, NEW p \in Passers,
           UNCHANGED <<store, projected>>,
           \A q \in Passers : q # p =>
              /\ pc'[q] = pc[q] /\ chunk'[q] = chunk[q]
              /\ todo'[q] = todo[q] /\ work'[q] = work[q],
           pc'[p] # "projecting",
           todo'[p] = {}
    PROVE  PassOrder'
<1>1. raw' = raw /\ Committed' = Committed
  BY DEF feedAlone, feedVars, Committed
<1>2. \A q \in Passers : q # p => Applied(q)' = Applied(q)
  BY DEF Applied
<1>3. ProjectedInOrder' /\ StoreReflects'
  BY <1>1 DEF PassOrder, ProjectedInOrder, StoreReflects, Reflects
<1>4. WorkReflects'
  <2> SUFFICES ASSUME NEW q \in Passers, NEW k \in Keys, pc'[q] = "projecting"
               PROVE  Reflects(work[q][k], projected \cup Applied(q), k)'
    BY DEF WorkReflects
  <2>1. q # p /\ Reflects(work[q][k], projected \cup Applied(q), k)
    BY DEF PassOrder, WorkReflects
  <2> QED
    BY <1>1, <1>2, <2>1 DEF Reflects
<1>5. TodoInOrder'
  <2> SUFFICES ASSUME NEW q \in Passers, NEW x \in todo'[q], NEW y \in Applied(q)',
                      raw'[x].key = raw'[y].key
               PROVE  y < x
    BY DEF TodoInOrder
  <2>1. q # p
    OBVIOUS
  <2> QED
    BY <1>1, <1>2, <2>1 DEF PassOrder, TodoInOrder
<1>6. WorkIsIdle'
  <2> SUFFICES ASSUME NEW q \in Passers, NEW k \in Keys, pc'[q] = "projecting",
                      \A x \in Applied(q)' : raw'[x].key = k => x \in projected'
               PROVE  work'[q][k] = store'[k]
    BY DEF WorkIsIdle
  <2>1. q # p
    OBVIOUS
  <2> QED
    BY <1>1, <1>2, <2>1 DEF PassOrder, WorkIsIdle
<1> QED
  BY <1>3, <1>4, <1>5, <1>6 DEF PassOrder

LEMMA QuietPassOrder ==
    ASSUME NInv, NEW p \in Passers,
           \/ CallRunPass(p) \/ ResetCursor(p) \/ AcquireLock(p)
           \/ LoadCursor(p) \/ FetchBatch(p) \/ RollbackChunk(p)
    PROVE  FeedOrder' /\ PassOrder'
<1> USE DEF NInv, WInv, IInv
<1>1. feedAlone /\ UNCHANGED <<store, projected, chunk>>
  BY DEF CallRunPass, ResetCursor, AcquireLock, LoadCursor, FetchBatch,
         RollbackChunk, feedAlone
<1>2. CASE RollbackChunk(p)
  <2>1. /\ todo' = [todo EXCEPT ![p] = {}]
        /\ work' = [work EXCEPT ![p] = NoWork]
        /\ pc' = [pc EXCEPT ![p] = "single"]
    BY <1>2 DEF RollbackChunk, GoTo
  <2>2. /\ \A q \in Passers : q # p => /\ pc'[q] = pc[q] /\ todo'[q] = todo[q]
                                       /\ work'[q] = work[q]
        /\ pc'[p] = "single" /\ todo'[p] = {}
    BY <2>1 DEF TypeOK
  <2> QED
    BY <1>1, <2>2, NotProjecting, FeedOrderStands
<1>3. CASE ~RollbackChunk(p)
  <2>1. /\ UNCHANGED <<todo, work>>
        /\ pc[p] # "projecting"
        /\ \/ pc' = pc
           \/ \E to \in {"waiting", "locked", "draining"} : pc' = [pc EXCEPT ![p] = to]
    BY <1>3 DEF CallRunPass, ResetCursor, AcquireLock, LoadCursor, FetchBatch, GoTo
  <2>2. /\ \A q \in Passers : q # p => pc'[q] = pc[q]
        /\ pc'[p] # "projecting" /\ todo'[p] = {}
    BY <2>1 DEF TypeOK, ReadsCommitted
  <2> QED
    BY <1>1, <2>1, <2>2, NotProjecting, FeedOrderStands
<1> QED
  BY <1>2, <1>3

LEMMA DropPassOrder ==
    ASSUME NInv, NEW p \in Passers, DropPass(p), feedAlone,
           UNCHANGED <<store, projected>>
    PROVE  FeedOrder' /\ PassOrder'
<1> USE DEF NInv, WInv, IInv
<1>1. /\ pc' = [pc EXCEPT ![p] = "idle"]
      /\ chunk' = [chunk EXCEPT ![p] = {}]
      /\ todo' = [todo EXCEPT ![p] = {}]
      /\ work' = [work EXCEPT ![p] = NoWork]
  BY DEF DropPass, GoTo
<1>2. /\ \A q \in Passers : q # p =>
            /\ pc'[q] = pc[q] /\ chunk'[q] = chunk[q]
            /\ todo'[q] = todo[q] /\ work'[q] = work[q]
      /\ pc'[p] = "idle" /\ todo'[p] = {}
  BY <1>1 DEF TypeOK
<1> QED
  BY <1>2, NotProjecting, FeedOrderStands

\* Only the pass that holds the lock has a transaction open.
LEMMA OthersOutside ==
    ASSUME NInv, NEW p \in Passers, pc[p] \notin {"idle", "waiting"}
    PROVE  \A q \in Passers : q # p => pc[q] # "projecting"
  BY DEF NInv, WInv, IInv, LockHeld

\* What has to be shown when the open transaction is the only one.
LEMMA ThisOneProjects ==
    ASSUME NInv, feedAlone, NEW p \in Passers,
           pc[p] \notin {"idle", "waiting"},
           UNCHANGED <<store, projected>>,
           \A q \in Passers : q # p =>
              /\ pc'[q] = pc[q] /\ chunk'[q] = chunk[q] /\ todo'[q] = todo[q],
           \A k \in Keys : Reflects(work'[p][k], projected \cup Applied(p)', k),
           \A x \in todo'[p], y \in Applied(p)' : raw[x].key = raw[y].key => y < x,
           \A k \in Keys : (\A x \in Applied(p)' : raw[x].key = k => x \in projected)
                              => work'[p][k] = store[k]
    PROVE  FeedOrder' /\ PassOrder'
<1>1. FeedOrder' /\ Committed' = Committed /\ raw' = raw
  BY FeedOrderStands DEF NInv
<1>2. \A q \in Passers : q # p => pc'[q] # "projecting"
  BY OthersOutside
<1>3. \A q \in Passers : q # p => todo'[q] = {}
  BY <1>2 DEF NInv, WInv, IInv, ReadsCommitted
<1>4. ProjectedInOrder' /\ StoreReflects'
  BY <1>1 DEF NInv, PassOrder, ProjectedInOrder, StoreReflects, Reflects
<1>5. WorkReflects'
  BY <1>1, <1>2 DEF WorkReflects, Reflects
<1>6. TodoInOrder'
  BY <1>1, <1>3 DEF TodoInOrder
<1>7. WorkIsIdle'
  <2> SUFFICES ASSUME NEW q \in Passers, NEW k \in Keys, pc'[q] = "projecting",
                      \A x \in Applied(q)' : raw'[x].key = k => x \in projected'
               PROVE  work'[q][k] = store'[k]
    BY DEF WorkIsIdle
  <2>1. q = p
    BY <1>2
  <2> QED
    BY <1>1, <2>1
<1> QED
  BY <1>1, <1>4, <1>5, <1>6, <1>7 DEF PassOrder

LEMMA BeginChunkOrder ==
    ASSUME NInv, NEW p \in Passers, BeginChunk(p)
    PROVE  FeedOrder' /\ PassOrder'
<1> USE DEF NInv, WInv, IInv
<1>1. feedAlone /\ UNCHANGED <<store, projected>> /\ pc[p] = "draining"
  BY DEF BeginChunk, feedAlone
<1>2. PICK c \in SUBSET batch[p] :
         /\ chunk' = [chunk EXCEPT ![p] = c]
         /\ \/ pc' = [pc EXCEPT ![p] = "single"] /\ UNCHANGED <<todo, work>>
            \/ /\ pc' = [pc EXCEPT ![p] = "projecting"]
               /\ todo' = [todo EXCEPT ![p] = c]
               /\ work' = [work EXCEPT ![p] = store]
  BY DEF BeginChunk, GoTo
<1>3. \A q \in Passers : q # p =>
         /\ pc'[q] = pc[q] /\ chunk'[q] = chunk[q] /\ todo'[q] = todo[q]
         /\ work'[q] = work[q]
  BY <1>2 DEF TypeOK
<1>4. CASE pc' = [pc EXCEPT ![p] = "single"] /\ UNCHANGED <<todo, work>>
  <2>1. pc'[p] = "single" /\ todo'[p] = {}
    BY <1>1, <1>4 DEF TypeOK, ReadsCommitted
  <2> QED
    BY <1>1, <1>3, <2>1, NotProjecting, FeedOrderStands
<1>5. CASE /\ pc' = [pc EXCEPT ![p] = "projecting"]
           /\ todo' = [todo EXCEPT ![p] = c]
           /\ work' = [work EXCEPT ![p] = store]
  <2>1. chunk'[p] = c /\ todo'[p] = c /\ work'[p] = store
    BY <1>2, <1>5 DEF TypeOK
  <2>2. Applied(p)' = {}
    BY <2>1 DEF Applied
  <2>3. \A k \in Keys : Reflects(work'[p][k], projected \cup Applied(p)', k)
    BY <2>1, <2>2 DEF PassOrder, StoreReflects
  <2> QED
    BY <1>1, <1>3, <2>1, <2>2, <2>3, ThisOneProjects
<1> QED
  BY <1>2, <1>4, <1>5

\* The transaction's rows are ids, and in order for every key.
LEMMA AppliedRows ==
    ASSUME NInv, NEW p \in Passers
    PROVE  /\ todo[p] \subseteq Committed /\ Applied(p) \subseteq Committed
           /\ projected \cup Applied(p) \in SUBSET Committed
           /\ \A x \in todo[p], y \in projected \cup Applied(p) :
                 raw[y].key = raw[x].key /\ y > x => x \in projected \cup Applied(p)
<1> USE DEF NInv, WInv, IInv
<1>1. todo[p] \subseteq Committed /\ Applied(p) \subseteq Committed
  BY DEF ReadsCommitted, Applied
<1>2. projected \subseteq Committed /\ \A x \in Committed : x \in Nat
  BY NumbersOfRows
<1>3. ASSUME NEW x \in todo[p], NEW y \in projected \cup Applied(p),
             raw[y].key = raw[x].key, y > x
      PROVE  x \in projected
  <2>1. x \in Committed /\ y \in Committed /\ x \in Nat /\ y \in Nat
    BY <1>1, <1>2
  <2>2. ~(y < x) /\ x <= y
    BY <1>3, <2>1
  <2>3. y \notin Applied(p)
    BY <1>3, <2>2 DEF PassOrder, TodoInOrder
  <2> QED
    BY <2>1, <2>2, <2>3 DEF PassOrder, ProjectedInOrder
<1> QED
  BY <1>1, <1>2, <1>3

LEMMA ProjectRowOrder ==
    ASSUME NInv, NEW p \in Passers, ProjectRow(p)
    PROVE  FeedOrder' /\ PassOrder'
<1> USE DEF NInv, WInv, IInv
<1>1. /\ feedAlone /\ UNCHANGED <<store, projected, pc, chunk>>
      /\ pc[p] = "projecting"
  BY DEF ProjectRow, feedAlone
<1>2. PICK x \in RowByRow(p) :
         /\ IsLeast(x, RowByRow(p))
         /\ work' = [work EXCEPT ![p][raw[x].key] = Process(@, raw[x], x)]
         /\ todo' = [todo EXCEPT ![p] = @ \ {x}]
  BY DEF ProjectRow
<1>3. x \in todo[p] /\ x \in chunk[p] /\ x \in Committed
  BY AppliedRows DEF RowByRow, ReadsCommitted
<1>4. raw[x] \in Row /\ raw[x].key \in Keys
  BY <1>3, NumbersOfRows
<1> DEFINE l == raw[x].key
           S == projected \cup Applied(p)
<1>5. /\ work'[p] = [work[p] EXCEPT ![l] = Process(@, raw[x], x)]
      /\ todo'[p] = todo[p] \ {x}
      /\ \A q \in Passers : q # p => todo'[q] = todo[q]
  BY <1>2 DEF TypeOK
<1>6. Applied(p)' = Applied(p) \cup {x}
  BY <1>1, <1>3, <1>5 DEF Applied
<1>7. work[p][l] \in KeyState /\ KeyConsistent(work[p][l])
  BY <1>4 DEF TypeOK, WorkConsistent
<1>8. /\ S \in SUBSET Committed
      /\ \A y \in S : raw[y].key = l /\ y > x => x \in S
  BY <1>3, AppliedRows
<1>9. \A k \in Keys : Reflects(work[p][k], S, k)
  BY <1>1 DEF PassOrder, WorkReflects
<1>10. /\ Reflects(Process(work[p][l], raw[x], x), S \cup {x}, l)
       /\ x \in S => Process(work[p][l], raw[x], x) = work[p][l]
  BY <1>3, <1>4, <1>7, <1>8, <1>9, ReflectsOneMore DEF FeedOrder
<1>11. /\ work'[p][l] = Process(work[p][l], raw[x], x)
       /\ \A k \in Keys : k # l => work'[p][k] = work[p][k]
  BY <1>4, <1>5 DEF TypeOK
<1>12. projected \cup Applied(p)' = S \cup {x}
  BY <1>6
<1> HIDE DEF S, l
<1>13. ASSUME NEW k \in Keys
       PROVE  Reflects(work'[p][k], projected \cup Applied(p)', k)
  <2>1. CASE k = l
    BY <1>10, <1>11, <1>12, <2>1
  <2>2. CASE k # l
    BY <1>9, <1>11, <1>12, <2>2 DEF Reflects, l
  <2> QED
    BY <2>1, <2>2
<1>14. ASSUME NEW z \in todo'[p], NEW y \in Applied(p)', raw[z].key = raw[y].key
       PROVE  y < z
  <2>1. z \in todo[p] /\ z # x
    BY <1>5
  <2>2. CASE y \in Applied(p)
    BY <1>14, <2>1, <2>2 DEF PassOrder, TodoInOrder
  <2>3. CASE y = x
    <3>1. z \in RowByRow(p)
      <4>1. z \in chunk[p] /\ raw[z].key = raw[x].key
        BY <1>14, <2>1, <2>3 DEF ReadsCommitted
      <4> QED
        BY <1>3, <2>1, <4>1 DEF RowByRow, Duplicated
    <3>2. x <= z
      BY <1>2, <3>1 DEF IsLeast
    <3>3. x \in Nat /\ z \in Nat
      BY <1>3, <2>1, AppliedRows, NumbersOfRows
    <3> QED
      BY <2>1, <2>3, <3>2, <3>3
  <2> QED
    BY <1>6, <2>2, <2>3
<1>15. ASSUME NEW k \in Keys, \A y \in Applied(p)' : raw[y].key = k => y \in projected
       PROVE  work'[p][k] = store[k]
  <2>1. work[p][k] = store[k]
    BY <1>1, <1>6, <1>15 DEF PassOrder, WorkIsIdle
  <2>2. k = l => x \in S
    BY <1>6, <1>15 DEF l, S
  <2> QED
    BY <1>10, <1>11, <2>1, <2>2
<1> QED
  BY <1>1, <1>5, <1>13, <1>14, <1>15, ThisOneProjects

LEMMA ProjectUniqueOrder ==
    ASSUME NInv, NEW p \in Passers, ProjectUnique(p)
    PROVE  FeedOrder' /\ PassOrder'
<1> USE DEF NInv, WInv, IInv
<1>1. /\ feedAlone /\ UNCHANGED <<store, projected, pc, chunk>>
      /\ pc[p] = "projecting" /\ Bulk /\ RowByRow(p) = {}
      /\ todo' = [todo EXCEPT ![p] = {}]
  BY DEF ProjectUnique, feedAlone
<1>2. /\ todo'[p] = {}
      /\ \A q \in Passers : q # p => todo'[q] = todo[q]
  BY <1>1 DEF TypeOK
<1>3. \A x, y \in todo[p] : raw[x].key = raw[y].key => x = y
  BY <1>1 DEF RowByRow, Duplicated, ReadsCommitted
<1> DEFINE S == projected \cup Applied(p)
<1>4. projected \cup Applied(p)' = S \cup todo[p]
  BY <1>1, <1>2 DEF Applied, ReadsCommitted
<1>5. S \in SUBSET Committed /\ todo[p] \subseteq Committed
  BY AppliedRows
<1>6. ASSUME NEW k \in Keys
      PROVE  /\ work[p][k] \in KeyState /\ KeyConsistent(work[p][k])
             /\ Reflects(work[p][k], S, k)
  BY <1>1 DEF TypeOK, WorkConsistent, PassOrder, WorkReflects
<1>7. ASSUME NEW k \in Keys, NEW x \in todo[p], raw[x].key = k
      PROVE  /\ work'[p][k] = Process(work[p][k], raw[x], x)
             /\ Reflects(work'[p][k], S \cup todo[p], k)
             /\ x \in S => work'[p][k] = work[p][k]
  <2>1. (CHOOSE y \in todo[p] : raw[y].key = k) = x
    BY <1>3, <1>7
  <2>2. work'[p][k] = ProcessBulk(work[p][k], raw[x], x)
    BY <1>7, <2>1 DEF ProjectUnique, TypeOK
  <2>3. x \in Committed /\ raw[x] \in Row /\ x \in Nat
    BY <1>5, NumbersOfRows
  <2>4. work'[p][k] = Process(work[p][k], raw[x], x)
    BY <1>6, <2>2, <2>3, BulkIsProcess
  <2>5. \A y \in S : raw[y].key = k /\ y > x => x \in S
    BY <1>7, AppliedRows
  <2>6. Reflects(work'[p][k], S \cup {x}, k) /\ (x \in S => work'[p][k] = work[p][k])
    BY <1>5, <1>6, <1>7, <2>3, <2>4, <2>5, ReflectsOneMore DEF FeedOrder
  <2>7. \A y \in todo[p] : raw[y].key = k => y = x
    BY <1>3, <1>7
  <2> QED
    BY <2>4, <2>6, <2>7 DEF Reflects
<1>8. ASSUME NEW k \in Keys, \A x \in todo[p] : raw[x].key # k
      PROVE  work'[p][k] = work[p][k]
  BY <1>8 DEF ProjectUnique, TypeOK
<1> HIDE DEF S
<1>9. ASSUME NEW k \in Keys
      PROVE  Reflects(work'[p][k], projected \cup Applied(p)', k)
  <2>1. CASE \E x \in todo[p] : raw[x].key = k
    BY <1>4, <1>7, <2>1
  <2>2. CASE \A x \in todo[p] : raw[x].key # k
    BY <1>4, <1>6, <1>8, <2>2 DEF Reflects
  <2> QED
    BY <2>1, <2>2
<1>10. ASSUME NEW k \in Keys, \A y \in Applied(p)' : raw[y].key = k => y \in projected
       PROVE  work'[p][k] = store[k]
  <2>1. todo[p] \cup Applied(p) \subseteq Applied(p)'
    BY <1>1, <1>2 DEF Applied, ReadsCommitted
  <2>2. work[p][k] = store[k]
    BY <1>1, <1>10, <2>1 DEF PassOrder, WorkIsIdle
  <2>3. \A x \in todo[p] : raw[x].key = k => x \in S
    BY <1>10, <2>1 DEF S
  <2> QED
    BY <1>7, <1>8, <2>2, <2>3
<1> QED
  BY <1>1, <1>2, <1>9, <1>10, ThisOneProjects

\* What has to be shown when a transaction commits: none is open afterwards.
LEMMA NoneProjects ==
    ASSUME NInv, feedAlone, NEW p \in Passers, WInv',
           pc[p] \notin {"idle", "waiting"}, pc'[p] # "projecting",
           \A q \in Passers : q # p => pc'[q] = pc[q],
           \A y \in projected' : y \in projected \/ y <= cursor',
           projected \subseteq projected',
           StoreReflects'
    PROVE  FeedOrder' /\ PassOrder'
<1>1. FeedOrder' /\ Committed' = Committed
  BY FeedOrderStands DEF NInv
<1>2. \A q \in Passers : pc'[q] # "projecting"
  BY OthersOutside
<1>3. \A q \in Passers : todo'[q] = {}
  BY <1>2 DEF WInv, IInv, ReadsCommitted
<1>4. ProjectedInOrder'
  <2> SUFFICES ASSUME NEW y \in projected', NEW x \in Committed', x <= y
               PROVE  x \in projected'
    BY DEF ProjectedInOrder
  <2>1. CASE y \in projected
    BY <1>1, <2>1 DEF NInv, PassOrder, ProjectedInOrder
  <2>2. CASE y <= cursor'
    <3>1. x \in Nat /\ y \in Nat /\ cursor' \in Nat
      <4>1. TypeOK'
        BY DEF WInv, IInv
      <4>2. projected' \subseteq Ids /\ Committed' \subseteq Ids /\ cursor' \in 0 .. MaxId
        BY <4>1 DEF TypeOK, Committed
      <4> QED
        BY <4>2, ConstantsAssumption DEF Ids
    <3>2. x <= cursor'
      BY <2>2, <3>1
    <3> QED
      BY <3>2 DEF WInv, NoRowSkipped
  <2> QED
    BY <2>1, <2>2
<1>5. WorkReflects' /\ TodoInOrder' /\ WorkIsIdle'
  BY <1>2, <1>3 DEF WorkReflects, TodoInOrder, WorkIsIdle
<1> QED
  BY <1>1, <1>4, <1>5 DEF PassOrder

\* A committed chunk, and what it leaves alone.
LEMMA CommitChunkOrder ==
    ASSUME NInv, NEW p \in Passers, CommitChunk(p), WInv'
    PROVE  /\ FeedOrder' /\ PassOrder'
           /\ \A k \in Keys : (\A x \in projected' \ projected : raw[x].key # k)
                                 => store'[k] = store[k]
<1> USE DEF NInv, WInv, IInv
<1>1. /\ feedAlone /\ pc[p] = "projecting" /\ todo[p] = {}
      /\ pc' = [pc EXCEPT ![p] = "draining"]
      /\ store' = work[p] /\ projected' = projected \cup chunk[p]
  BY DEF CommitChunk, feedAlone, GoTo
<1>2. PICK last \in batch[p] : IsGreatest(last, chunk[p]) /\ cursor' = last
  BY DEF CommitChunk, LastOfChunk
<1>3. \A y \in projected' : y \in projected \/ y <= cursor'
  BY <1>1, <1>2 DEF IsGreatest
<1>4. Applied(p) = chunk[p]
  BY <1>1 DEF Applied
<1>5. raw' = raw
  BY <1>1 DEF feedAlone, feedVars
<1>6. StoreReflects'
  <2>1. \A k \in Keys : Reflects(work[p][k], projected \cup chunk[p], k)
    BY <1>1, <1>4 DEF PassOrder, WorkReflects
  <2> QED
    BY <1>1, <1>5, <2>1 DEF StoreReflects, Reflects
<1>7. ASSUME NEW k \in Keys, \A x \in projected' \ projected : raw[x].key # k
      PROVE  store'[k] = store[k]
  <2>1. \A x \in Applied(p) : raw[x].key = k => x \in projected
    BY <1>1, <1>4, <1>7
  <2> QED
    BY <1>1, <2>1 DEF PassOrder, WorkIsIdle
<1>8. pc'[p] # "projecting" /\ \A q \in Passers : q # p => pc'[q] = pc[q]
  BY <1>1 DEF TypeOK
<1>9. projected \subseteq projected'
  BY <1>1
<1>10. pc[p] \notin {"idle", "waiting"}
  BY <1>1
<1> QED
  BY <1>1, <1>3, <1>6, <1>7, <1>8, <1>9, <1>10, NoneProjects

LEMMA ProcessOneOrder ==
    ASSUME NInv, NEW p \in Passers, ProcessOne(p), WInv'
    PROVE  /\ FeedOrder' /\ PassOrder'
           /\ \A k \in Keys : (\A x \in projected' \ projected : raw[x].key # k)
                                 => store'[k] = store[k]
<1> USE DEF NInv, WInv, IInv
<1>1. feedAlone /\ pc[p] = "single"
  BY DEF ProcessOne, feedAlone
<1>2. PICK x \in chunk[p] :
         /\ store' = [store EXCEPT ![raw[x].key] = Process(@, raw[x], x)]
         /\ cursor' = x
         /\ projected' = projected \cup {x}
         /\ pc' = [pc EXCEPT ![p] = "draining"] \/ pc' = pc
  BY DEF ProcessOne, GoTo
<1> DEFINE l == raw[x].key
<1>3. x \in Committed /\ x \in Nat /\ raw[x] \in Row /\ l \in Keys
  BY NumbersOfRows DEF ReadsCommitted
<1>4. store[l] \in KeyState /\ KeyConsistent(store[l]) /\ Reflects(store[l], projected, l)
  BY <1>3 DEF TypeOK, StoreConsistent, PassOrder, StoreReflects
<1>5. projected \in SUBSET Committed /\ \A y \in projected : y \in Nat
  BY NumbersOfRows
<1>6. \A y \in projected : raw[y].key = l /\ y > x => x \in projected
  <2>1. \A y \in projected : y > x => x <= y
    BY <1>3, <1>5
  <2> QED
    BY <1>3, <2>1 DEF PassOrder, ProjectedInOrder
<1>7. /\ Reflects(Process(store[l], raw[x], x), projected \cup {x}, l)
      /\ x \in projected => Process(store[l], raw[x], x) = store[l]
  BY <1>3, <1>4, <1>5, <1>6, ReflectsOneMore DEF FeedOrder
<1>8. /\ store'[l] = Process(store[l], raw[x], x)
      /\ \A k \in Keys : k # l => store'[k] = store[k]
  BY <1>2, <1>3 DEF TypeOK
<1>9. raw' = raw
  BY <1>1 DEF feedAlone, feedVars
<1> HIDE DEF l
<1>10. ASSUME NEW k \in Keys
       PROVE  Reflects(store'[k], projected \cup {x}, k)
  <2>1. CASE k = l
    BY <1>7, <1>8, <2>1
  <2>2. CASE k # l
    BY <1>8, <2>2 DEF PassOrder, StoreReflects, Reflects, l
  <2> QED
    BY <2>1, <2>2
<1>11. StoreReflects'
  BY <1>2, <1>9, <1>10 DEF StoreReflects, Reflects
<1>12. ASSUME NEW k \in Keys, \A y \in projected' \ projected : raw[y].key # k
       PROVE  store'[k] = store[k]
  <2>1. k = l => x \in projected
    BY <1>2, <1>12 DEF l
  <2> QED
    BY <1>7, <1>8, <2>1
<1>13. \A y \in projected' : y \in projected \/ y <= cursor'
  BY <1>2, <1>3
<1>14. pc'[p] # "projecting" /\ \A q \in Passers : q # p => pc'[q] = pc[q]
  BY <1>1, <1>2 DEF TypeOK
<1>15. projected \subseteq projected'
  BY <1>2
<1>16. pc[p] \notin {"idle", "waiting"}
  BY <1>1
<1> QED
  BY <1>1, <1>11, <1>12, <1>13, <1>14, <1>15, <1>16, NoneProjects

----------------------------------------------------------------------------

LEMMA InitOrder == Init => FeedOrder /\ PassOrder
<1> SUFFICES ASSUME Init PROVE FeedOrder /\ PassOrder
  OBVIOUS
<1> USE DEF Init
<1>1. Committed = {} /\ projected = {}
  BY DEF Committed
<1>2. \A i \in Ingesters : DOMAIN page[i] = {}
  OBVIOUS
<1>3. \A p \in Passers : pc[p] # "projecting" /\ todo[p] = {}
  OBVIOUS
<1>4. \A k \in Keys : store[k] = NewKey /\ ~Exists(NewKey)
  BY DEF NewKey, Exists
<1> QED
  BY <1>1, <1>2, <1>3, <1>4
     DEF FeedOrder, PassOrder, RevisionsInOrder, PagesAreCurrent, ProjectedInOrder,
         StoreReflects, Reflects, WorkReflects, TodoInOrder, WorkIsIdle

LEMMA StepOrder ==
    ASSUME OneIngester, NInv, [Next]_vars
    PROVE  /\ NInv'
           /\ \A k \in Keys : (\A x \in projected' \ projected : raw[x].key # k)
                                 => store'[k] = store[k]
<1>1. WInv'
  BY StepWInv DEF NInv
<1>2. CASE UNCHANGED vars
  <2>1. /\ FeedOrder' = FeedOrder /\ PassOrder' = PassOrder /\ store' = store
    BY <1>2 DEF vars, feedVars, passVars, FeedOrder, PassOrder, RevisionsInOrder,
                PagesAreCurrent, ProjectedInOrder, StoreReflects, Reflects,
                WorkReflects, TodoInOrder, WorkIsIdle, Applied, Committed
  <2> QED
    BY <1>1, <2>1 DEF NInv
<1>3. CASE \/ \E k \in Keys : SourceChanges(k)
           \/ \E i \in Ingesters : FetchPage(i) \/ Save(i) \/ LosePage(i)
  <2>1. store' = store
    BY <1>3 DEF SourceChanges, FetchPage, Save, MintIds, CommitPage, LosePage
  <2> QED
    BY <1>1, <1>3, <2>1, FeedKeepsOrder, CommitPageKeepsOrder DEF Save, NInv
<1>4. ASSUME NEW p \in Passers,
             CallRunPass(p) \/ ResetCursor(p) \/ RunPass(p) \/ AbortPass(p)
      PROVE  /\ FeedOrder' /\ PassOrder'
             /\ \A k \in Keys : (\A x \in projected' \ projected : raw[x].key # k)
                                   => store'[k] = store[k]
  <2>1. CASE CommitChunk(p) \/ ProcessOne(p)
    BY <1>1, <2>1, CommitChunkOrder, ProcessOneOrder
  <2>2. CASE ~(CommitChunk(p) \/ ProcessOne(p))
    <3>1. store' = store
      BY <1>4, <2>2
         DEF RunPass, CallRunPass, ResetCursor, AbortPass, AcquireLock, LoadCursor,
             FetchBatch, FinishPass, BeginChunk, ProjectRow, ProjectUnique,
             RollbackChunk, HaltOnPoison
    <3>2. CASE FinishPass(p) \/ HaltOnPoison(p) \/ AbortPass(p)
      <4>1. DropPass(p) /\ feedAlone /\ UNCHANGED <<store, projected>>
        BY <3>2 DEF FinishPass, HaltOnPoison, AbortPass, feedAlone
      <4> QED
        BY <3>1, <4>1, DropPassOrder
    <3>3. CASE \/ CallRunPass(p) \/ ResetCursor(p) \/ AcquireLock(p)
               \/ LoadCursor(p) \/ FetchBatch(p) \/ RollbackChunk(p)
      BY <3>1, <3>3, QuietPassOrder
    <3>4. CASE BeginChunk(p) \/ ProjectRow(p) \/ ProjectUnique(p)
      BY <3>1, <3>4, BeginChunkOrder, ProjectRowOrder, ProjectUniqueOrder
    <3> QED
      BY <1>4, <2>2, <3>2, <3>3, <3>4 DEF RunPass
  <2> QED
    BY <2>1, <2>2
<1> QED
  BY <1>1, <1>2, <1>3, <1>4 DEF Next, NInv

(***************************************************************************)
(* With one ingester the entity shows the newest of its projected rows,    *)
(* however chunks, rollbacks, crashes and resets cut and repeat them.      *)
(***************************************************************************)
THEOREM NewestIsShown ==
    ASSUME OneIngester
    PROVE  Spec => []NewestWins
<1>1. Init => NInv
  BY InitWInv, InitOrder DEF NInv
<1>2. NInv /\ [Next]_vars => NInv'
  BY StepOrder
<1>3. NInv => NewestWins
  BY ReflectedIsNewest DEF NInv, WInv, IInv, FeedOrder, PassOrder
<1> QED
  BY <1>1, <1>2, <1>3, PTL DEF Spec

(***************************************************************************)
(* With one ingester what is replayed, after a rollback or a reset,        *)
(* changes neither entities nor histories.                                 *)
(***************************************************************************)
THEOREM ReplaysChangeNothing ==
    ASSUME OneIngester
    PROVE  Spec => ReplaysAreIdle
<1>1. Init => NInv
  BY InitWInv, InitOrder DEF NInv
<1>2. NInv /\ [Next]_vars => NInv'
  BY StepOrder
<1>3. NInv /\ [Next]_vars =>
        [\A k \in Keys : (\A id \in projected' \ projected : raw[id].key # k)
                            => store'[k] = store[k]]_<<store, projected>>
  BY StepOrder
<1> QED
  BY <1>1, <1>2, <1>3, PTL DEF Spec, ReplaysAreIdle
============================================================================
