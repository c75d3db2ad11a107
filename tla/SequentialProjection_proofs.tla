------------------- MODULE SequentialProjection_proofs --------------------
(***************************************************************************)
(* Projection implements SequentialProjection: with one ingester, chunks,  *)
(* bulk writes, replays, resets and crashes show the typed rows that       *)
(* applying each saved row once, in id order, makes.  The recursive        *)
(* function of the abstract specification is met half-way: Traces says of  *)
(* a function of ids that it shows how a set of rows changes a key, such a *)
(* function exists for every set, and an open transaction's work is where  *)
(* one over the rows it has done ends.                                     *)
(***************************************************************************)
EXTENDS Projection_proofs, WellFoundedInduction

----------------------------------------------------------------------------
(* Rows applied one after the other *)

\* f shows how the rows of S, in id order, change a key's rows from ks on.
Traces(f, ks, S) ==
    /\ f \in [0 .. MaxId -> KeyState]
    /\ f[0] = ks
    /\ \A n \in Ids : f[n] = IF n \in S THEN Process(f[n - 1], raw[n], n) ELSE f[n - 1]

\* A set of numbers that is not empty has a least member.
LEMMA LeastMember ==
    ASSUME NEW S \in SUBSET Nat, S # {}
    PROVE  \E n \in S : \A m \in S : n <= m
<1>1. PICK n \in S : \A m \in S : ~(<<m, n>> \in OpToRel(<, Nat))
  BY NatLessThanWellFounded, WFMin, Zenon
<1>2. ASSUME NEW m \in S PROVE n <= m
  <2>1. ~(m < n)
    BY <1>1, Zenon DEF OpToRel
  <2> QED
    BY <2>1
<1> QED
  BY <1>2

\* Every set of rows can be applied.
LEMMA TraceExists ==
    ASSUME NEW ks \in KeyState, NEW S \in SUBSET Ids,
           \A x \in S : raw[x] \in Row
    PROVE  \E f : Traces(f, ks, S)
<1> DEFINE Partial(f, m) ==
              /\ f \in [0 .. m -> KeyState]
              /\ f[0] = ks
              /\ \A n \in 1 .. m :
                    f[n] = IF n \in S THEN Process(f[n - 1], raw[n], n) ELSE f[n - 1]
           missing == {m \in 0 .. MaxId : ~\E f : Partial(f, m)}
<1>1. MaxId \in Nat
  BY ConstantsAssumption
<1>2. missing = {}
  <2> SUFFICES ASSUME missing # {} PROVE FALSE
    OBVIOUS
  <2>1. missing \in SUBSET Nat
    BY <1>1
  <2>2. PICK m \in missing : \A l \in missing : m <= l
    BY <2>1, LeastMember
  <2>3. \E f : Partial(f, 0)
    <3>1. Partial([n \in 0 .. 0 |-> ks], 0)
      OBVIOUS
    <3> QED
      BY <3>1, Zenon
  <2>4. m \in 1 .. MaxId /\ ~\E f : Partial(f, m)
    <3> HIDE DEF Partial
    <3>1. m \in 0 .. MaxId /\ ~\E f : Partial(f, m)
      BY <2>2
    <3>2. m # 0
      BY <2>3, <3>1
    <3> QED
      BY <1>1, <3>1, <3>2
  <2>5. m - 1 \in 0 .. MaxId /\ m - 1 \notin missing
    <3> HIDE DEF missing, Partial
    <3> QED
      BY <1>1, <2>2, <2>4
  <2>6. PICK f : Partial(f, m - 1)
    <3> HIDE DEF Partial
    <3>1. \A l \in 0 .. MaxId : l \notin missing => \E f : Partial(f, l)
      OBVIOUS
    <3> QED
      BY <2>5, <3>1
  <2> DEFINE next == IF m \in S THEN Process(f[m - 1], raw[m], m) ELSE f[m - 1]
             g == [n \in 0 .. m |-> IF n < m THEN f[n] ELSE next]
  <2>7. f[m - 1] \in KeyState
    BY <1>1, <2>4, <2>6
  <2>8. next \in KeyState
    BY <1>1, <2>4, <2>7, ProcessType DEF Ids
  <2> HIDE DEF next
  <2>9. g \in [0 .. m -> KeyState] /\ g[0] = ks
    BY <1>1, <2>4, <2>6, <2>8
  <2>10. ASSUME NEW n \in 1 .. m
         PROVE  g[n] = IF n \in S THEN Process(g[n - 1], raw[n], n) ELSE g[n - 1]
    <3>1. CASE n = m
      <4>1. g[n] = next /\ g[n - 1] = f[m - 1]
        BY <2>4, <3>1
      <4> QED
        BY <3>1, <4>1 DEF next
    <3>2. CASE n # m
      <4>1. n \in 1 .. m - 1 /\ g[n] = f[n] /\ g[n - 1] = f[n - 1]
        BY <2>4, <3>2
      <4> HIDE DEF g
      <4> QED
        BY <2>6, <4>1
    <3> QED
      BY <3>1, <3>2
  <2> HIDE DEF g
  <2>11. Partial(g, m)
    BY <2>9, <2>10
  <2> QED
    BY <2>4, <2>11
<1>3. PICK f : Partial(f, MaxId)
  BY <1>1, <1>2
<1> QED
  BY <1>3 DEF Traces, Ids

\* Rows that are not there change nothing.
LEMMA TraceRests ==
    ASSUME NEW f, NEW ks, NEW S, Traces(f, ks, S),
           NEW a \in 0 .. MaxId, NEW b \in 0 .. MaxId, a <= b,
           \A x \in S : x \in Nat => ~(a < x /\ x <= b)
    PROVE  f[b] = f[a]
<1> DEFINE moved == {n \in a .. b : f[n] # f[a]}
<1>1. MaxId \in Nat
  BY ConstantsAssumption
<1> SUFFICES ASSUME moved # {} PROVE FALSE
  BY <1>1
<1>2. moved \in SUBSET Nat
  BY <1>1
<1>3. PICK n \in moved : \A m \in moved : n <= m
  BY <1>2, LeastMember
<1>4. n \in Ids /\ n - 1 \in a .. b /\ n \notin S
  BY <1>1, <1>3 DEF Ids
<1>5. n - 1 \notin moved
  BY <1>1, <1>3
<1>6. f[n] = f[n - 1]
  BY <1>4 DEF Traces
<1> QED
  BY <1>3, <1>4, <1>5, <1>6

\* One row more at the end.
LEMMA TraceOneMore ==
    ASSUME NEW f, NEW ks \in KeyState, NEW S \in SUBSET Ids, Traces(f, ks, S),
           NEW x \in Ids, raw[x] \in Row, \A y \in S : y < x
    PROVE  \E g : Traces(g, ks, S \cup {x}) /\ g[MaxId] = Process(f[MaxId], raw[x], x)
<1> DEFINE last == Process(f[MaxId], raw[x], x)
           g == [n \in 0 .. MaxId |-> IF n < x THEN f[n] ELSE last]
<1>1. MaxId \in Nat /\ x \in Nat /\ x > 0 /\ x <= MaxId
  BY ConstantsAssumption DEF Ids
<1>2. f \in [0 .. MaxId -> KeyState]
  BY DEF Traces
<1>3. last \in KeyState
  BY <1>1, <1>2, ProcessType
<1>4. f[x - 1] = f[MaxId]
  <2>1. x - 1 \in 0 .. MaxId /\ MaxId \in 0 .. MaxId /\ x - 1 <= MaxId
    BY <1>1
  <2>2. \A y \in S : y \in Nat => ~(x - 1 < y /\ y <= MaxId)
    BY <1>1
  <2> QED
    BY <2>1, <2>2, TraceRests
<1> HIDE DEF last
<1>5. g \in [0 .. MaxId -> KeyState] /\ g[0] = ks
  BY <1>1, <1>2, <1>3 DEF Traces
<1>6. ASSUME NEW n \in Ids
      PROVE  g[n] = IF n \in S \cup {x} THEN Process(g[n - 1], raw[n], n) ELSE g[n - 1]
  <2>0. n \in Nat /\ n > 0 /\ n <= MaxId
    BY <1>1 DEF Ids
  <2>1. CASE n < x
    <3>1. g[n] = f[n] /\ g[n - 1] = f[n - 1]
      BY <1>1, <2>0, <2>1
    <3> HIDE DEF g
    <3> QED
      BY <1>1, <2>1, <3>1 DEF Traces
  <2>2. CASE n = x
    <3>1. g[n] = last /\ g[n - 1] = f[x - 1]
      BY <1>1, <2>2
    <3> HIDE DEF g
    <3> QED
      BY <1>4, <2>2, <3>1 DEF last
  <2>3. CASE n > x
    <3>1. g[n] = last /\ g[n - 1] = last
      BY <1>1, <2>0, <2>3
    <3>2. n \notin S \cup {x}
      BY <1>1, <2>0, <2>3
    <3> HIDE DEF g
    <3> QED
      BY <3>1, <3>2
  <2>4. n < x \/ n = x \/ n > x
    BY <1>1, <2>0
  <2> HIDE DEF g
  <2> QED
    BY <2>1, <2>2, <2>3, <2>4
<1>7. g[MaxId] = last
  BY <1>1
<1> HIDE DEF g
<1> QED
  BY <1>5, <1>6, <1>7 DEF Traces, last

\* The abstract specification's rows are applied as the code's are.
LEMMA SameProcess ==
    ASSUME NEW ks, NEW row, NEW id
    PROVE  Sequential!Process(ks, row, id) = Process(ks, row, id)
  BY DEF Sequential!Process, Sequential!ApplyPlan, Sequential!Decide, Sequential!DecideNewer,
         Sequential!NoDiff, Sequential!WriteEntity, Sequential!CloseVersion,
         Sequential!NewVersion, Sequential!ChangeOf, Sequential!Skips, Sequential!Exists,
         Sequential!LookupCurrentVersion, Sequential!OpenVersions,
         Process, ApplyPlan, Decide, DecideNewer, NoDiff, WriteEntity, CloseVersion,
         NewVersion, ChangeOf, Skips, Exists, LookupCurrentVersion, OpenVersions

\* The mark is the greatest projected id.
LEMMA ReachedIsGreatest ==
    ASSUME TypeOK
    PROVE  /\ Reached \in 0 .. MaxId
           /\ projected = {} => Reached = 0
           /\ projected # {} => Reached \in projected
           /\ \A id \in projected : id <= Reached
<1>1. MaxId \in Nat /\ projected \subseteq Ids
  BY ConstantsAssumption DEF TypeOK, Committed
<1>2. CASE projected = {}
  BY <1>1, <1>2 DEF Reached
<1>3. CASE projected # {}
  <2> DEFINE below == {MaxId - id : id \in projected}
  <2>1. below \in SUBSET Nat /\ below # {}
    <3>1. \A id \in projected : MaxId - id \in Nat
      BY <1>1 DEF Ids
    <3> QED
      BY <1>3, <3>1
  <2>2. PICK d \in below : \A e \in below : d <= e
    BY <2>1, LeastMember
  <2>3. PICK top \in projected : d = MaxId - top
    BY <2>2
  <2>4. ASSUME NEW id \in projected PROVE id <= top
    <3>1. MaxId - top <= MaxId - id
      BY <2>2, <2>3
    <3> QED
      BY <1>1, <3>1 DEF Ids
  <2>5. IsGreatest(top, projected)
    BY <2>4 DEF IsGreatest
  <2>6. Reached \in projected /\ IsGreatest(Reached, projected)
    BY <1>3, <2>5 DEF Reached
  <2>7. Reached \in 0 .. MaxId
    BY <1>1, <2>6 DEF Ids
  <2> QED
    BY <1>3, <2>6, <2>7 DEF IsGreatest
<1> QED
  BY <1>2, <1>3

\* The rows of a key that are committed above the mark and not above `to`.
Above(to, k) == {id \in Committed : Reached < id /\ id <= to /\ raw[id].key = k}

\* What the abstract specification makes of the rows up to `to` is what the traces
\* of the keys come to.
LEMMA AppliedIsTraced ==
    ASSUME TypeOK, NEW to \in Ids, Reached < to,
           NEW F, \A k \in Keys : Traces(F[k], store[k], Above(to, k))
    PROVE  Sequential!AppliedThrough(to) = [k \in Keys |-> F[k][MaxId]]
<1> DEFINE h == Reached
           row(c, n) == IF n = h THEN store ELSE Sequential!ApplyRow(c[n - 1], n)
           A == [n \in h .. to |-> [k \in Keys |-> F[k][n]]]
<1>1. MaxId \in Nat /\ to \in Nat /\ to <= MaxId /\ h \in Nat /\ h < to
  BY ConstantsAssumption, ReachedIsGreatest DEF Ids
<1>2. store = [k \in Keys |-> store[k]]
  BY DEF TypeOK
<1>3. \A n \in h + 1 .. to : n \in Ids
  BY <1>1 DEF Ids
<1> HIDE DEF h
<1>4. A[h] = store
  <2>1. ASSUME NEW k \in Keys PROVE F[k][h] = store[k]
    <3>1. 0 \in 0 .. MaxId /\ h \in 0 .. MaxId /\ 0 <= h
      BY <1>1
    <3>2. \A x \in Above(to, k) : x \in Nat => ~(0 < x /\ x <= h)
      BY <1>1 DEF Above, h
    <3> QED
      <4>1. Traces(F[k], store[k], Above(to, k))
        OBVIOUS
      <4>2. F[k][h] = F[k][0]
        BY <3>1, <3>2, <4>1, TraceRests
      <4> QED
        BY <4>1, <4>2 DEF Traces
  <2>2. A[h] = [k \in Keys |-> F[k][h]]
    BY <1>1
  <2> QED
    BY <1>2, <2>1, <2>2
<1>5. ASSUME NEW n \in h + 1 .. to
      PROVE  A[n] = Sequential!ApplyRow(A[n - 1], n)
  <2>1. n \in Ids /\ n \in h .. to /\ n - 1 \in h .. to /\ h < n /\ n <= to
    BY <1>1, <1>3
  <2>2. /\ A[n] = [k \in Keys |-> F[k][n]]
        /\ A[n - 1] = [k \in Keys |-> F[k][n - 1]]
    BY <2>1
  <2> HIDE DEF A
  <2>3. ASSUME NEW k \in Keys
        PROVE  F[k][n] = IF n \in Above(to, k) THEN Process(F[k][n - 1], raw[n], n)
                                               ELSE F[k][n - 1]
    BY <2>1 DEF Traces
  <2>4. CASE raw[n] = NoRow
    <3>1. \A k \in Keys : n \notin Above(to, k)
      BY <2>4 DEF Above, Committed
    <3> QED
      BY <2>2, <2>3, <2>4, <3>1 DEF Sequential!ApplyRow
  <2>5. CASE raw[n] # NoRow
    <3>1. n \in Committed /\ raw[n].key \in Keys
      BY <2>1, <2>5, NumbersOfRows DEF Committed
    <3>2. \A k \in Keys : n \in Above(to, k) <=> raw[n].key = k
      BY <2>1, <3>1 DEF Above, h
    <3>3. Sequential!ApplyRow(A[n - 1], n) =
             [A[n - 1] EXCEPT ![raw[n].key] = Process(A[n - 1][raw[n].key], raw[n], n)]
      BY <2>5, SameProcess DEF Sequential!ApplyRow
    <3>4. \A k \in Keys :
             F[k][n] = IF raw[n].key = k THEN Process(F[k][n - 1], raw[n], n)
                                         ELSE F[k][n - 1]
      BY <2>3, <3>2
    <3>5. A[n - 1] = [k \in Keys |-> A[n - 1][k]]
          /\ \A k \in Keys : A[n - 1][k] = F[k][n - 1] /\ A[n][k] = F[k][n]
      BY <2>2
    <3>6. \A k \in Keys : Sequential!ApplyRow(A[n - 1], n)[k] = F[k][n]
      <4> SUFFICES ASSUME NEW k \in Keys
                   PROVE  Sequential!ApplyRow(A[n - 1], n)[k] = F[k][n]
        OBVIOUS
      <4> DEFINE new == Process(A[n - 1][raw[n].key], raw[n], n)
      <4>1. [A[n - 1] EXCEPT ![raw[n].key] = new][k] =
               IF k = raw[n].key THEN new ELSE A[n - 1][k]
        <5> HIDE DEF new
        <5> QED
          BY <3>5
      <4>2. CASE k = raw[n].key
        <5>1. A[n - 1][raw[n].key] = F[k][n - 1]
          BY <3>5, <4>2
        <5>2. new = F[k][n]
          BY <3>4, <4>2, <5>1
        <5> QED
          BY <3>3, <4>1, <4>2, <5>2
      <4>3. CASE k # raw[n].key
        BY <3>3, <3>4, <3>5, <4>1, <4>3
      <4> QED
        BY <4>2, <4>3
    <3>7. Sequential!ApplyRow(A[n - 1], n) =
             [k \in Keys |-> Sequential!ApplyRow(A[n - 1], n)[k]]
      BY <3>3, <3>5
    <3> QED
      BY <2>2, <3>6, <3>7
  <2> QED
    BY <2>4, <2>5
<1> DEFINE made == CHOOSE c : c = [n \in h .. to |-> row(c, n)]
<1>6. \E c : c = [n \in h .. to |-> row(c, n)]
  <2>1. ASSUME NEW n \in h .. to PROVE A[n] = row(A, n)
    <3> HIDE DEF A
    <3>1. n = h \/ n \in h + 1 .. to
      BY <1>1
    <3> QED
      BY <1>4, <1>5, <3>1
  <2>2. A = [n \in h .. to |-> A[n]]
    OBVIOUS
  <2> HIDE DEF A, row
  <2>3. A = [n \in h .. to |-> row(A, n)]
    BY <2>1, <2>2
  <2> QED
    BY <2>3
<1>7. made = [n \in h .. to |-> row(made, n)]
  BY <1>6, Zenon
<1>8. Sequential!AppliedThrough(to) = made[to]
  BY DEF Sequential!AppliedThrough, h
<1> HIDE DEF made
<1>9. made[to] = A[to]
  <2> DEFINE apart == {n \in h .. to : made[n] # A[n]}
  <2>0. \A n \in h .. to : n \in Nat
    BY <1>1
  <2>a. to \in h .. to
    BY <1>1
  <2>1. apart \in SUBSET Nat
    <3> HIDE DEF A
    <3> QED
      BY <2>0
  <2> SUFFICES ASSUME apart # {} PROVE FALSE
    <3> HIDE DEF A
    <3> QED
      BY <2>a
  <2>2. PICK n \in apart : \A m \in apart : n <= m
    BY <2>1, LeastMember
  <2>3. n \in h .. to /\ made[n] # A[n] /\ made[n] = row(made, n)
    BY <1>7, <2>2
  <2>4. n # h
    BY <1>4, <2>3
  <2>5. n \in h + 1 .. to /\ n - 1 \in h .. to /\ n - 1 \notin apart
    <3> HIDE DEF apart
    <3> QED
      BY <1>1, <2>2, <2>3, <2>4
  <2>6. made[n - 1] = A[n - 1]
    BY <2>5
  <2> HIDE DEF A
  <2> QED
    BY <1>5, <2>3, <2>4, <2>5, <2>6
<1>10. \A k \in Keys : F[k][to] = F[k][MaxId]
  <2> SUFFICES ASSUME NEW k \in Keys PROVE F[k][to] = F[k][MaxId]
    OBVIOUS
  <2>1. \A x \in Above(to, k) : x \in Nat => ~(to < x /\ x <= MaxId)
    BY <1>1 DEF Above
  <2>2. to \in 0 .. MaxId /\ MaxId \in 0 .. MaxId /\ to <= MaxId
    BY <1>1
  <2> QED
    BY <2>1, <2>2, TraceRests
<1>11. A[to] = [k \in Keys |-> F[k][to]]
  BY <1>1
<1> HIDE DEF A
<1> QED
  BY <1>8, <1>9, <1>10, <1>11

----------------------------------------------------------------------------

\* The rows of a key that the open transaction has applied and none did before.
Fresh(p, k) == {x \in Applied(p) \ projected : raw[x].key = k}

(***************************************************************************)
(* An open transaction's view is the store with its fresh rows applied in  *)
(* id order, whichever order it went through them: rows of one key keep    *)
(* their order, those of different keys do not meet, and what was applied  *)
(* before changes nothing.                                                 *)
(***************************************************************************)
WorkIsTraced ==
    \A p \in Passers, k \in Keys :
        pc[p] = "projecting" =>
            \E f : Traces(f, store[k], Fresh(p, k)) /\ work[p][k] = f[MaxId]

\* No bad row is applied; the bulk path applies none of a chunk that has one.
NoneIsBad ==
    \A p \in Passers :
        pc[p] = "projecting" =>
            /\ \A x \in Applied(p) : ~raw[x].bad
            /\ Bulk /\ Applied(p) # {} => \A x \in chunk[p] : ~raw[x].bad

TInv == NInv /\ WorkIsTraced /\ NoneIsBad

\* Steps beside the open transactions.
LEMMA StillTraced ==
    ASSUME TypeOK, ReadsCommitted, WorkIsTraced, NoneIsBad,
           \A id \in Committed : raw'[id] = raw[id],
           \A q \in Passers : pc'[q] = "projecting" =>
              /\ pc[q] = "projecting" /\ work'[q] = work[q]
              /\ chunk'[q] = chunk[q] /\ todo'[q] = todo[q]
              /\ UNCHANGED <<store, projected>>
    PROVE  WorkIsTraced' /\ NoneIsBad'
<1>1. \A q \in Passers : chunk[q] \subseteq Committed
  BY DEF ReadsCommitted
<1>2. ASSUME NEW q \in Passers, NEW k \in Keys, pc'[q] = "projecting"
      PROVE  \E f : Traces(f, store[k], Fresh(q, k))' /\ work'[q][k] = f[MaxId]
  <2>1. PICK f : Traces(f, store[k], Fresh(q, k)) /\ work[q][k] = f[MaxId]
    BY <1>2 DEF WorkIsTraced
  <2>2. \A x \in Applied(q) : raw'[x] = raw[x]
    BY <1>1 DEF Applied
  <2>3. Fresh(q, k)' = Fresh(q, k) /\ store'[k] = store[k]
    BY <1>2, <2>2 DEF Fresh, Applied
  <2>4. \A x \in Fresh(q, k) : raw'[x] = raw[x]
    BY <2>2 DEF Fresh
  <2>5. Traces(f, store[k], Fresh(q, k))'
    BY <2>1, <2>3, <2>4 DEF Traces
  <2> QED
    BY <1>2, <2>1, <2>5
<1>3. NoneIsBad'
  BY <1>1 DEF NoneIsBad, Applied
<1> QED
  BY <1>2, <1>3 DEF WorkIsTraced

\* What has to be shown of the pass whose transaction takes a step.
LEMMA ThisOneTraced ==
    ASSUME NInv, feedAlone, NEW p \in Passers, pc[p] \notin {"idle", "waiting"},
           \A q \in Passers : q # p => pc'[q] = pc[q],
           \A k \in Keys : \E f : Traces(f, store[k], Fresh(p, k))' /\ work'[p][k] = f[MaxId],
           \A x \in Applied(p)' : ~raw'[x].bad,
           Bulk /\ Applied(p)' # {} => \A x \in chunk'[p] : ~raw'[x].bad
    PROVE  WorkIsTraced' /\ NoneIsBad'
<1>1. \A q \in Passers : q # p => pc'[q] # "projecting"
  BY OthersOutside
<1> QED
  BY <1>1 DEF WorkIsTraced, NoneIsBad

LEMMA BeginChunkTraced ==
    ASSUME TInv, NEW p \in Passers, BeginChunk(p)
    PROVE  WorkIsTraced' /\ NoneIsBad'
<1> USE DEF TInv, NInv, WInv, IInv
<1>1. feedAlone /\ UNCHANGED <<store, projected>> /\ pc[p] = "draining"
  BY DEF BeginChunk, feedAlone
<1>2. PICK c \in SUBSET batch[p] :
         /\ chunk' = [chunk EXCEPT ![p] = c]
         /\ \/ pc' = [pc EXCEPT ![p] = "single"] /\ UNCHANGED <<todo, work>>
            \/ /\ pc' = [pc EXCEPT ![p] = "projecting"]
               /\ todo' = [todo EXCEPT ![p] = c]
               /\ work' = [work EXCEPT ![p] = store]
  BY DEF BeginChunk, GoTo
<1>3. raw' = raw
  BY <1>1 DEF feedAlone, feedVars
<1>4. \A q \in Passers : q # p => pc'[q] = pc[q]
  BY <1>2 DEF TypeOK
<1>5. CASE pc' = [pc EXCEPT ![p] = "single"]
  <2>1. \A q \in Passers : pc'[q] # "projecting"
    BY <1>1, <1>4, <1>5, OthersOutside DEF TypeOK
  <2> QED
    BY <2>1 DEF WorkIsTraced, NoneIsBad
<1>6. CASE /\ pc' = [pc EXCEPT ![p] = "projecting"]
           /\ todo' = [todo EXCEPT ![p] = c]
           /\ work' = [work EXCEPT ![p] = store]
  <2>1. chunk'[p] = c /\ todo'[p] = c /\ work'[p] = store
    BY <1>2, <1>6 DEF TypeOK
  <2>2. Applied(p)' = {} /\ \A k \in Keys : Fresh(p, k)' = {}
    BY <2>1 DEF Applied, Fresh
  <2>3. ASSUME NEW k \in Keys
        PROVE  \E f : Traces(f, store[k], Fresh(p, k))' /\ work'[p][k] = f[MaxId]
    <3>1. store[k] \in KeyState
      BY DEF TypeOK
    <3>2. PICK f : Traces(f, store[k], {})
      BY <3>1, TraceExists
    <3>3. f[MaxId] = f[0] /\ f[0] = store[k]
      <4>1. 0 \in 0 .. MaxId /\ MaxId \in 0 .. MaxId /\ 0 <= MaxId
        BY ConstantsAssumption
      <4>2. f[MaxId] = f[0]
        BY <3>2, <4>1, TraceRests
      <4> QED
        BY <3>2, <4>2 DEF Traces
    <3>4. Traces(f, store[k], Fresh(p, k))'
      BY <1>1, <1>3, <2>2, <3>2 DEF Traces
    <3> QED
      BY <2>1, <3>3, <3>4
  <2> QED
    BY <1>1, <1>4, <2>2, <2>3, ThisOneTraced
<1> QED
  BY <1>2, <1>5, <1>6

\* A row that is applied leaves the trace as it is, if it was projected before, or
\* is one row more at its end.
LEMMA TraceGoesOn ==
    ASSUME TInv, feedAlone, UNCHANGED <<store, projected>>,
           NEW p \in Passers, pc[p] = "projecting", NEW x \in todo[p],
           NEW l \in Keys, raw[x].key = l,
           Fresh(p, l)' = IF x \in projected THEN Fresh(p, l) ELSE Fresh(p, l) \cup {x},
           work'[p][l] = Process(work[p][l], raw[x], x),
           x \in projected => work'[p][l] = work[p][l]
    PROVE  \E f : Traces(f, store[l], Fresh(p, l))' /\ work'[p][l] = f[MaxId]
<1> USE DEF TInv, NInv, WInv, IInv
<1>1. x \in Committed /\ x \in Ids /\ raw[x] \in Row
  BY AppliedRows, NumbersOfRows
<1>2. raw' = raw /\ store' = store
  BY DEF feedAlone, feedVars
<1>3. PICK f : Traces(f, store[l], Fresh(p, l)) /\ work[p][l] = f[MaxId]
  BY <1>1 DEF WorkIsTraced
<1>4. CASE x \in projected
  <2>1. Traces(f, store[l], Fresh(p, l))'
    BY <1>2, <1>3, <1>4 DEF Traces
  <2> QED
    BY <1>3, <1>4, <2>1
<1>5. CASE x \notin projected
  <2>1. Fresh(p, l) \in SUBSET Ids
    BY AppliedRows, NumbersOfRows DEF Fresh
  <2>2. \A y \in Fresh(p, l) : y < x
    BY DEF Fresh, PassOrder, TodoInOrder
  <2>3. store[l] \in KeyState
    BY <1>1 DEF TypeOK
  <2>4. PICK g : /\ Traces(g, store[l], Fresh(p, l) \cup {x})
                 /\ g[MaxId] = Process(f[MaxId], raw[x], x)
    <3> DEFINE S == Fresh(p, l)
               ks == store[l]
    <3>1. Traces(f, ks, S) /\ S \in SUBSET Ids /\ ks \in KeyState /\ \A y \in S : y < x
      BY <1>3, <2>1, <2>2, <2>3
    <3>2. x \in Ids /\ raw[x] \in Row
      BY <1>1
    <3> HIDE DEF S, ks, TInv, NInv, WInv, IInv
    <3>3. \E g : Traces(g, ks, S \cup {x}) /\ g[MaxId] = Process(f[MaxId], raw[x], x)
      BY <3>1, <3>2, TraceOneMore
    <3> QED
      BY <3>3 DEF S, ks
  <2>5. Traces(g, store[l], Fresh(p, l))'
    BY <1>2, <1>5, <2>4 DEF Traces
  <2> QED
    BY <1>3, <2>4, <2>5
<1> QED
  BY <1>4, <1>5

\* The other keys' traces stay.
LEMMA TraceStays ==
    ASSUME TInv, feedAlone, UNCHANGED <<store, projected>>,
           NEW p \in Passers, pc[p] = "projecting", NEW k \in Keys,
           Fresh(p, k)' = Fresh(p, k), work'[p][k] = work[p][k]
    PROVE  \E f : Traces(f, store[k], Fresh(p, k))' /\ work'[p][k] = f[MaxId]
<1>1. PICK f : Traces(f, store[k], Fresh(p, k)) /\ work[p][k] = f[MaxId]
  BY DEF TInv, WorkIsTraced
<1>2. raw' = raw /\ store' = store
  BY DEF feedAlone, feedVars
<1>3. Traces(f, store[k], Fresh(p, k))'
  BY <1>1, <1>2 DEF Traces
<1> QED
  BY <1>1, <1>3

LEMMA ProjectRowTraced ==
    ASSUME TInv, NEW p \in Passers, ProjectRow(p)
    PROVE  WorkIsTraced' /\ NoneIsBad'
<1> USE DEF TInv, NInv, WInv, IInv
<1>1. /\ feedAlone /\ UNCHANGED <<store, projected, pc, chunk>>
      /\ pc[p] = "projecting" /\ ~HitsBadRow(p)
  BY DEF ProjectRow, feedAlone
<1>2. PICK x \in RowByRow(p) :
         /\ IsLeast(x, RowByRow(p))
         /\ work' = [work EXCEPT ![p][raw[x].key] = Process(@, raw[x], x)]
         /\ todo' = [todo EXCEPT ![p] = @ \ {x}]
  BY DEF ProjectRow
<1>3. x \in todo[p] /\ x \in chunk[p] /\ x \in Committed
  BY AppliedRows DEF RowByRow, ReadsCommitted
<1>4. raw[x] \in Row /\ raw[x].key \in Keys /\ raw' = raw
  BY <1>1, <1>3, NumbersOfRows DEF feedAlone, feedVars
<1> DEFINE l == raw[x].key
           S == projected \cup Applied(p)
<1>5. /\ work'[p] = [work[p] EXCEPT ![l] = Process(@, raw[x], x)]
      /\ todo'[p] = todo[p] \ {x}
  BY <1>2 DEF TypeOK
<1>6. Applied(p)' = Applied(p) \cup {x}
  BY <1>1, <1>3, <1>5 DEF Applied
<1>7. /\ work'[p][l] = Process(work[p][l], raw[x], x)
      /\ \A k \in Keys : k # l => work'[p][k] = work[p][k]
  BY <1>4, <1>5 DEF TypeOK
<1>8. x \in projected => Process(work[p][l], raw[x], x) = work[p][l]
  <2>1. work[p][l] \in KeyState /\ KeyConsistent(work[p][l])
    BY <1>4 DEF TypeOK, WorkConsistent
  <2>2. S \in SUBSET Committed /\ \A y \in S : raw[y].key = l /\ y > x => x \in S
    BY <1>3, AppliedRows
  <2>3. Reflects(work[p][l], S, l)
    BY <1>1, <1>4 DEF PassOrder, WorkReflects
  <2> QED
    BY <1>3, <2>1, <2>2, <2>3, ReflectsOneMore DEF FeedOrder
<1> HIDE DEF l
<1>10. ASSUME NEW k \in Keys
       PROVE  \E f : Traces(f, store[k], Fresh(p, k))' /\ work'[p][k] = f[MaxId]
  <2>1. CASE k = l
    <3>1. raw[x].key = k /\ x \in todo[p]
      BY <1>3, <2>1 DEF l
    <3>2. work'[p][k] = Process(work[p][k], raw[x], x)
      BY <1>7, <2>1
    <3>3. x \in projected => work'[p][k] = work[p][k]
      BY <1>8, <2>1, <3>2
    <3>4. Fresh(p, k)' = IF x \in projected THEN Fresh(p, k) ELSE Fresh(p, k) \cup {x}
      BY <1>1, <1>4, <1>6, <2>1 DEF Fresh, l
    <3> QED
      BY <1>1, <3>1, <3>2, <3>3, <3>4, TraceGoesOn
  <2>2. CASE k # l
    <3>1. Fresh(p, k)' = Fresh(p, k)
      BY <1>1, <1>4, <1>6, <2>2 DEF Fresh, l
    <3> QED
      BY <1>1, <1>7, <2>2, <3>1, TraceStays
  <2> QED
    BY <2>1, <2>2
<1>11. Bulk => \A y \in chunk[p] : ~raw[y].bad
  <2>1. CASE todo[p] = chunk[p]
    BY <1>1, <2>1 DEF HitsBadRow
  <2>2. CASE todo[p] # chunk[p]
    BY <1>1, <2>2 DEF NoneIsBad, Applied, ReadsCommitted
  <2> QED
    BY <2>1, <2>2
<1>12. ~raw[x].bad
  BY <1>1, <1>2, <1>3, <1>11 DEF HitsBadRow, RowByRow
<1>13. \A y \in Applied(p)' : ~raw'[y].bad
  BY <1>1, <1>4, <1>6, <1>12 DEF NoneIsBad
<1> QED
  BY <1>1, <1>4, <1>10, <1>11, <1>13, ThisOneTraced

LEMMA ProjectUniqueTraced ==
    ASSUME TInv, NEW p \in Passers, ProjectUnique(p)
    PROVE  WorkIsTraced' /\ NoneIsBad'
<1> USE DEF TInv, NInv, WInv, IInv
<1>1. /\ feedAlone /\ UNCHANGED <<store, projected, pc, chunk>>
      /\ pc[p] = "projecting" /\ Bulk /\ RowByRow(p) = {} /\ ~HitsBadRow(p)
      /\ todo' = [todo EXCEPT ![p] = {}]
  BY DEF ProjectUnique, feedAlone
<1>2. todo'[p] = {} /\ raw' = raw
  BY <1>1 DEF TypeOK, feedAlone, feedVars
<1>3. \A x, y \in todo[p] : raw[x].key = raw[y].key => x = y
  BY <1>1 DEF RowByRow, Duplicated, ReadsCommitted
<1>4. Applied(p)' = Applied(p) \cup todo[p]
  BY <1>1, <1>2 DEF Applied, ReadsCommitted
<1>5. ASSUME NEW k \in Keys, NEW x \in todo[p], raw[x].key = k
      PROVE  \E f : Traces(f, store[k], Fresh(p, k))' /\ work'[p][k] = f[MaxId]
  <2> DEFINE S == projected \cup Applied(p)
  <2>1. (CHOOSE y \in todo[p] : raw[y].key = k) = x
    BY <1>3, <1>5
  <2>2. work'[p][k] = ProcessBulk(work[p][k], raw[x], x)
    BY <1>5, <2>1 DEF ProjectUnique, TypeOK
  <2>3. x \in Committed /\ raw[x] \in Row /\ x \in Nat
    BY AppliedRows, NumbersOfRows
  <2>4. work[p][k] \in KeyState /\ KeyConsistent(work[p][k]) /\ Reflects(work[p][k], S, k)
    BY <1>1 DEF TypeOK, WorkConsistent, PassOrder, WorkReflects
  <2>5. work'[p][k] = Process(work[p][k], raw[x], x)
    BY <2>2, <2>3, <2>4, BulkIsProcess
  <2>6. S \in SUBSET Committed /\ \A y \in S : raw[y].key = k /\ y > x => x \in S
    BY <1>5, AppliedRows
  <2>7. x \in projected => work'[p][k] = work[p][k]
    BY <1>5, <2>3, <2>4, <2>5, <2>6, ReflectsOneMore DEF FeedOrder
  <2>8. \A y \in todo[p] : raw[y].key = k <=> y = x
    BY <1>3, <1>5
  <2>9. Fresh(p, k)' = IF x \in projected THEN Fresh(p, k) ELSE Fresh(p, k) \cup {x}
    BY <1>1, <1>2, <1>4, <2>8 DEF Fresh
  <2> QED
    BY <1>1, <1>5, <2>5, <2>7, <2>9, TraceGoesOn
<1>6. ASSUME NEW k \in Keys, \A x \in todo[p] : raw[x].key # k
      PROVE  \E f : Traces(f, store[k], Fresh(p, k))' /\ work'[p][k] = f[MaxId]
  <2>1. work'[p][k] = work[p][k]
    BY <1>6 DEF ProjectUnique, TypeOK
  <2>2. Fresh(p, k)' = Fresh(p, k)
    BY <1>1, <1>2, <1>4, <1>6 DEF Fresh
  <2> QED
    BY <1>1, <2>1, <2>2, TraceStays
<1>7. \A x \in chunk[p] : ~raw[x].bad
  <2>1. CASE todo[p] = chunk[p]
    BY <1>1, <2>1 DEF HitsBadRow
  <2>2. CASE todo[p] # chunk[p]
    BY <1>1, <2>2 DEF NoneIsBad, Applied, ReadsCommitted
  <2> QED
    BY <2>1, <2>2
<1>8. \A x \in Applied(p)' : ~raw'[x].bad
  BY <1>1, <1>2, <1>7 DEF Applied
<1> QED
  BY <1>1, <1>2, <1>5, <1>6, <1>7, <1>8, ThisOneTraced

----------------------------------------------------------------------------
(* The simulation *)

\* The greatest projected id, before a step and after it.
MarkIsGreatest ==
    projected # {} => Reached \in projected /\ \A id \in projected : id <= Reached

LEMMA TheMarkIsGreatest ==
    TypeOK => MarkIsGreatest
<1> QED
  BY ReachedIsGreatest DEF MarkIsGreatest

LEMMA ReachedAfterwards ==
    ASSUME TypeOK', projected' # {}
    PROVE  Reached' \in projected' /\ \A id \in projected' : id <= Reached'
<1>1. TypeOK' => MarkIsGreatest'
  BY TheMarkIsGreatest, PTL
<1> QED
  BY <1>1 DEF MarkIsGreatest

LEMMA ReachedStays ==
    ASSUME projected' = projected
    PROVE  Reached' = Reached
<1> QED
  BY DEF Reached, IsGreatest

\* A commit of all rows from the pass's position up to `to` is a step of the
\* abstract specification, or none when all of them were projected before.
LEMMA CommitSimulates ==
    ASSUME TInv, TypeOK', raw' = raw, NEW p \in Passers,
           NEW C \in SUBSET Committed, NEW to \in C, \A x \in C : x <= to,
           \A id \in Committed : mem[p] < id /\ id <= to => id \in C,
           \A x \in C : ~raw[x].bad,
           projected' = projected \cup C,
           \A k \in Keys : \E f :
              /\ Traces(f, store[k], {x \in C \ projected : raw[x].key = k})
              /\ store'[k] = f[MaxId]
    PROVE  Sequential!Project \/ UNCHANGED <<raw, store, Reached>>
<1> USE DEF TInv, NInv, WInv, IInv
<1> DEFINE new(k) == {x \in C \ projected : raw[x].key = k}
<1>1. /\ MaxId \in Nat /\ Committed \subseteq Ids /\ projected \subseteq Committed
      /\ \A id \in Ids : id \in Nat /\ id > 0 /\ id <= MaxId
      /\ mem[p] \in Nat /\ Reached \in Nat
      /\ store = [k \in Keys |-> store[k]] /\ store' = [k \in Keys |-> store'[k]]
  <2>1. TypeOK
    OBVIOUS
  <2>2. /\ MaxId \in Nat /\ Committed \subseteq Ids /\ projected \subseteq Committed
        /\ mem[p] \in Nat /\ Reached \in 0 .. MaxId
    BY ONLY <2>1, p \in Passers, Numbers, NumbersOfRows, ReachedIsGreatest
  <2>3. \A id \in Ids : id \in Nat /\ id > 0 /\ id <= MaxId
    BY ONLY <2>2 DEF Ids
  <2>4. store \in [Keys -> KeyState] /\ store' \in [Keys -> KeyState]
    BY ONLY <2>1, TypeOK' DEF TypeOK
  <2> QED
    BY ONLY <2>2, <2>3, <2>4
<1>2. /\ \A id \in projected : id <= Reached
      /\ \A id \in Committed : id <= Reached => id \in projected
  <2>1. ASSUME NEW id \in Committed, id <= Reached PROVE id \in projected
    <3>1. Reached # 0
      BY <1>1, <2>1
    <3>2. Reached \in projected
      BY <3>1, ReachedIsGreatest
    <3> QED
      BY <2>1, <3>2 DEF PassOrder, ProjectedInOrder
  <2> QED
    BY <2>1, ReachedIsGreatest
<1>3. CASE to <= Reached
  <2>1. C \subseteq projected
    BY <1>1, <1>2, <1>3
  <2>2. projected' = projected
    BY <2>1
  <2>3. ASSUME NEW k \in Keys PROVE store'[k] = store[k]
    <3>1. PICK f : Traces(f, store[k], new(k)) /\ store'[k] = f[MaxId]
      OBVIOUS
    <3>2. new(k) = {}
      BY <2>1
    <3>3. 0 \in 0 .. MaxId /\ MaxId \in 0 .. MaxId /\ 0 <= MaxId
      BY <1>1
    <3>4. f[MaxId] = f[0]
      BY <3>1, <3>2, <3>3, TraceRests
    <3> QED
      BY <3>1, <3>4 DEF Traces
  <2>4. store' = store
    BY <1>1, <2>3
  <2>5. Reached' = Reached
    BY <2>2, ReachedStays
  <2> QED
    BY <2>4, <2>5
<1>4. CASE ~(to <= Reached)
  <2>1. to \in Ids /\ Reached < to
    BY <1>1, <1>4
  <2>2. ASSUME NEW id \in Committed, Reached < id, id <= to
        PROVE  id \in C \ projected
    <3>1. id \notin projected
      BY <1>1, <1>2, <2>2
    <3>2. ~(id <= mem[p])
      BY <3>1 DEF ReadInOrder
    <3> QED
      BY <1>1, <2>2, <3>1, <3>2
  <2>3. ASSUME NEW k \in Keys PROVE new(k) = Above(to, k)
    <3>1. \A x \in C \ projected : Reached < x
      BY <1>1, <1>2
    <3> QED
      BY <2>2, <3>1 DEF Above
  <2>4. Reached' = to
    <3>1. to \in projected' /\ \A x \in projected' : x \in Nat /\ x <= to
      BY <1>1, <1>2, <2>1
    <3>2. Reached' \in projected' /\ \A x \in projected' : x <= Reached'
      BY <3>1, ReachedAfterwards
    <3> QED
      BY <1>1, <3>1, <3>2
  <2> DEFINE F == [k \in Keys |-> CHOOSE f : /\ Traces(f, store[k], Above(to, k))
                                             /\ store'[k] = f[MaxId]]
  <2>5. ASSUME NEW k \in Keys
        PROVE  Traces(F[k], store[k], Above(to, k)) /\ store'[k] = F[k][MaxId]
    <3>1. \E f : Traces(f, store[k], Above(to, k)) /\ store'[k] = f[MaxId]
      <4>1. PICK f : Traces(f, store[k], new(k)) /\ store'[k] = f[MaxId]
        OBVIOUS
      <4> QED
        BY <2>3, <4>1
    <3> QED
      BY <3>1, Zenon
  <2> HIDE DEF F
  <2>6. store' = Sequential!AppliedThrough(to)
    <3>1. Sequential!AppliedThrough(to) = [k \in Keys |-> F[k][MaxId]]
      BY <2>1, <2>5, AppliedIsTraced
    <3> QED
      BY <1>1, <2>5, <3>1
  <2>7. \A id \in Reached + 1 .. to : raw[id] # NoRow => ~raw[id].bad
    <3> SUFFICES ASSUME NEW id \in Reached + 1 .. to, raw[id] # NoRow
                 PROVE  ~raw[id].bad
      OBVIOUS
    <3>1. id \in Ids /\ Reached < id /\ id <= to
      BY <1>1, <2>1 DEF Ids
    <3> QED
      BY <2>2, <3>1 DEF Committed
  <2>8. raw[to] # NoRow
    BY DEF Committed
  <2> QED
    BY <2>1, <2>4, <2>6, <2>7, <2>8 DEF Sequential!Project, Sequential!Ids, Ids
<1> QED
  BY <1>3, <1>4

LEMMA CommitChunkSimulates ==
    ASSUME TInv, TypeOK', NEW p \in Passers, CommitChunk(p)
    PROVE  Sequential!Project \/ UNCHANGED <<raw, store, Reached>>
<1> USE DEF TInv, NInv, WInv, IInv
<1>1. /\ raw' = raw /\ pc[p] = "projecting" /\ todo[p] = {}
      /\ store' = work[p] /\ projected' = projected \cup chunk[p]
  BY DEF CommitChunk, feedVars
<1>2. PICK to \in batch[p] : to \in chunk[p] /\ \A x \in chunk[p] : x <= to
  BY DEF CommitChunk, LastOfChunk, IsGreatest
<1>3. chunk[p] \in SUBSET Committed /\ Applied(p) = chunk[p]
  BY <1>1 DEF ReadsCommitted, Applied
<1>4. ASSUME NEW id \in Committed, mem[p] < id, id <= to
      PROVE  id \in chunk[p]
  BY <1>2, <1>4 DEF ReadInOrder
<1>5. \A x \in chunk[p] : ~raw[x].bad
  BY <1>1, <1>3 DEF NoneIsBad
<1>6. ASSUME NEW k \in Keys
      PROVE  \E f : /\ Traces(f, store[k], {x \in chunk[p] \ projected : raw[x].key = k})
                    /\ store'[k] = f[MaxId]
  <2>1. PICK f : Traces(f, store[k], Fresh(p, k)) /\ work[p][k] = f[MaxId]
    BY <1>1 DEF WorkIsTraced
  <2> QED
    BY <1>1, <1>3, <2>1 DEF Fresh
<1> DEFINE C == chunk[p]
<1>7. /\ C \in SUBSET Committed /\ to \in C /\ \A x \in C : x <= to
      /\ \A id \in Committed : mem[p] < id /\ id <= to => id \in C
      /\ \A x \in C : ~raw[x].bad
      /\ projected' = projected \cup C
      /\ \A k \in Keys : \E f :
            /\ Traces(f, store[k], {x \in C \ projected : raw[x].key = k})
            /\ store'[k] = f[MaxId]
  BY <1>1, <1>2, <1>3, <1>4, <1>5, <1>6
<1> HIDE DEF C, TInv, NInv, WInv, IInv
<1> QED
  BY <1>1, <1>7, CommitSimulates

LEMMA ProcessOneSimulates ==
    ASSUME TInv, WInv', NEW p \in Passers, ProcessOne(p)
    PROVE  Sequential!Project \/ UNCHANGED <<raw, store, Reached>>
<1> USE DEF TInv, NInv, WInv, IInv
<1>1. PICK x \in chunk[p] :
         /\ IsLeast(x, chunk[p])
         /\ ~raw[x].bad
         /\ store' = [store EXCEPT ![raw[x].key] = Process(@, raw[x], x)]
         /\ projected' = projected \cup {x}
  BY DEF ProcessOne
<1>2. raw' = raw /\ TypeOK'
  BY DEF ProcessOne, feedVars
<1>3. /\ x \in Committed /\ x \in Ids /\ raw[x] \in Row /\ raw[x].key \in Keys
      /\ x \in batch[p]
  BY NumbersOfRows DEF ReadsCommitted
<1>4. \A y \in Committed : y \in Nat
  BY NumbersOfRows
<1>5. ASSUME NEW id \in Committed, mem[p] < id, id <= x
      PROVE  id = x
  <2>1. id \in chunk[p]
    BY <1>3, <1>5 DEF ReadInOrder
  <2> QED
    BY <1>1, <1>3, <1>4, <1>5, <2>1 DEF IsLeast
<1>6. ASSUME NEW k \in Keys
      PROVE  \E f : /\ Traces(f, store[k], {y \in {x} \ projected : raw[y].key = k})
                    /\ store'[k] = f[MaxId]
  <2> DEFINE S == {y \in {x} \ projected : raw[y].key = k}
  <2>1. store[k] \in KeyState
    BY DEF TypeOK
  <2>2. PICK f : Traces(f, store[k], {})
    BY <2>1, TraceExists
  <2>3. f[MaxId] = store[k]
    <3>1. 0 \in 0 .. MaxId /\ MaxId \in 0 .. MaxId /\ 0 <= MaxId
      BY ConstantsAssumption
    <3>2. f[MaxId] = f[0]
      BY <2>2, <3>1, TraceRests
    <3> QED
      BY <2>2, <3>2 DEF Traces
  <2>4. CASE raw[x].key = k /\ x \notin projected
    <3>1. PICK g : Traces(g, store[k], {} \cup {x}) /\ g[MaxId] = Process(f[MaxId], raw[x], x)
      BY <1>3, <2>1, <2>2, TraceOneMore
    <3>2. S = {} \cup {x}
      BY <2>4
    <3>3. store'[k] = Process(store[k], raw[x], x)
      BY <1>1, <1>3, <2>4 DEF TypeOK
    <3> QED
      BY <2>3, <3>1, <3>2, <3>3
  <2>5. CASE ~(raw[x].key = k /\ x \notin projected)
    <3>1. S = {}
      BY <2>5
    <3>2. \A y \in projected' \ projected : raw[y].key # k
      BY <1>1, <2>5
    <3>3. store'[k] = store[k]
      BY <3>2, ProcessOneOrder
    <3> QED
      BY <2>2, <2>3, <3>1, <3>3
  <2> QED
    BY <2>4, <2>5
<1> DEFINE C == {x}
<1>7. /\ C \in SUBSET Committed /\ x \in C /\ \A y \in C : y <= x
      /\ \A id \in Committed : mem[p] < id /\ id <= x => id \in C
      /\ \A y \in C : ~raw[y].bad
      /\ projected' = projected \cup C
      /\ \A k \in Keys : \E f :
            /\ Traces(f, store[k], {y \in C \ projected : raw[y].key = k})
            /\ store'[k] = f[MaxId]
  BY <1>1, <1>3, <1>4, <1>5, <1>6
<1> HIDE DEF C, TInv, NInv, WInv, IInv
<1> QED
  BY <1>2, <1>7, CommitSimulates

\* A page's rows come above the mark and over no row.
LEMMA CommitPageSimulates ==
    ASSUME TInv, TypeOK', NEW i \in Ingesters, CommitPage(i)
    PROVE  /\ Sequential!RowsArrive
           /\ \A id \in Committed : raw'[id] = raw[id]
<1> USE DEF TInv, NInv, WInv, IInv
<1>1. /\ raw' = SavedRaw(i) /\ base[i] # NoId
      /\ UNCHANGED <<store, projected>>
  BY DEF CommitPage
<1>2. Reached \in Nat /\ (Reached # 0 => Reached \in Committed) /\ Reached' = Reached
  <2>1. Reached' = Reached
    BY ONLY <1>1 DEF Reached
  <2>2. TypeOK
    OBVIOUS
  <2>3. /\ MaxId \in Nat /\ Reached \in 0 .. MaxId
        /\ Reached # 0 => Reached \in Committed
    BY ONLY <2>2, ConstantsAssumption, NumbersOfRows, ReachedIsGreatest
  <2> QED
    BY ONLY <2>1, <2>3
<1>3. /\ base[i] \in Nat /\ \A id \in Committed : id \in Nat /\ id <= base[i]
      /\ Reached <= base[i]
  <2>1. base[i] \in Nat /\ \A id \in Committed : id \in Nat /\ id <= base[i]
    BY <1>1, Numbers DEF Frontier
  <2> QED
    BY <1>2, <2>1
<1>4. ASSUME NEW id \in Ids, raw[id] # NoRow \/ id <= Reached
      PROVE  raw'[id] = raw[id]
  <2>1. id \in Nat /\ id <= base[i]
    BY <1>2, <1>3, <1>4, Numbers DEF Committed
  <2>2. id - base[i] \notin DOMAIN page[i]
    <3>1. page[i] \in Seq(Row)
      BY DEF TypeOK
    <3>2. DOMAIN page[i] = 1 .. Len(page[i])
      BY <3>1
    <3> QED
      BY <1>3, <2>1, <3>2
  <2>3. Minted(i, id) = NoRow
    BY <2>2 DEF Minted
  <2> QED
    BY <1>1, <2>3 DEF SavedRaw
<1>5. raw' \in [Ids -> Row \cup {NoRow}]
  BY DEF TypeOK
<1> QED
  BY <1>1, <1>2, <1>4, <1>5
     DEF Sequential!RowsArrive, Sequential!Ids, Sequential!Row, Ids, Row, Committed

LEMMA StepSimulates ==
    ASSUME OneIngester, TInv, [Next]_vars
    PROVE  TInv' /\ [Sequential!SeqNext]_<<raw, store, Reached>>
<1> DEFINE Stutters == UNCHANGED <<raw, store, Reached>>
           Traced == WorkIsTraced' /\ NoneIsBad'
<1>1. NInv' /\ WInv' /\ TypeOK'
  BY StepOrder DEF TInv, NInv, WInv, IInv
<1>2. TypeOK /\ ReadsCommitted /\ NInv /\ WorkIsTraced /\ NoneIsBad
  BY DEF TInv, NInv, WInv, IInv
<1>3. CASE UNCHANGED vars
  <2>1. Traced
    BY <1>2, <1>3, StillTraced DEF vars, feedVars, passVars
  <2>2. Stutters
    BY <1>3 DEF vars, feedVars, Reached
  <2> QED
    BY <1>1, <2>1, <2>2 DEF TInv
<1>4. CASE \/ \E k \in Keys : SourceChanges(k)
           \/ \E i \in Ingesters : FetchPage(i) \/ MintIds(i) \/ LosePage(i)
  <2>1. UNCHANGED <<raw, store, projected, pc, chunk, todo, work>>
    BY <1>4 DEF SourceChanges, FetchPage, MintIds, LosePage, passVars
  <2>2. Traced
    BY <1>2, <2>1, StillTraced
  <2>3. Stutters
    BY <2>1 DEF Reached
  <2> QED
    BY <1>1, <2>2, <2>3 DEF TInv
<1>5. ASSUME NEW i \in Ingesters, CommitPage(i)
      PROVE  Traced /\ Sequential!SeqNext
  <2>1. UNCHANGED <<store, projected, pc, chunk, todo, work>>
    BY <1>5 DEF CommitPage, passVars
  <2>2. Sequential!RowsArrive /\ \A id \in Committed : raw'[id] = raw[id]
    BY <1>1, <1>5, CommitPageSimulates
  <2>3. Traced
    BY <1>2, <2>1, <2>2, StillTraced
  <2> QED
    BY <2>2, <2>3 DEF Sequential!SeqNext
<1>6. ASSUME NEW p \in Passers,
             CallRunPass(p) \/ ResetCursor(p) \/ RunPass(p) \/ AbortPass(p)
      PROVE  Traced /\ (Sequential!SeqNext \/ Stutters)
  <2>1. raw' = raw
    BY <1>6 DEF RunPass, CallRunPass, ResetCursor, AbortPass, AcquireLock, LoadCursor,
                FetchBatch, FinishPass, BeginChunk, ProjectRow, ProjectUnique,
                CommitChunk, RollbackChunk, ProcessOne, HaltOnPoison, feedVars
  <2>2. CASE CommitChunk(p) \/ ProcessOne(p)
    <3>1. Sequential!Project \/ Stutters
      BY <1>1, <2>2, CommitChunkSimulates, ProcessOneSimulates
    <3>2. /\ pc[p] \notin {"idle", "waiting"} /\ pc'[p] # "projecting"
          /\ \A q \in Passers : q # p => pc'[q] = pc[q]
      <4>1. /\ pc[p] \in {"projecting", "single"}
            /\ \/ pc' = [pc EXCEPT ![p] = "draining"]
               \/ pc' = pc /\ pc[p] = "single"
        BY <2>2 DEF CommitChunk, ProcessOne, GoTo
      <4> QED
        BY <1>2, <4>1 DEF TypeOK
    <3>3. \A q \in Passers : pc'[q] # "projecting"
      BY <1>2, <3>2, OthersOutside
    <3> QED
      BY <3>1, <3>3 DEF Sequential!SeqNext, WorkIsTraced, NoneIsBad
  <2>3. CASE ~(CommitChunk(p) \/ ProcessOne(p))
    <3>1. UNCHANGED <<store, projected>>
      BY <1>6, <2>3
         DEF RunPass, CallRunPass, ResetCursor, AbortPass, AcquireLock, LoadCursor,
             FetchBatch, FinishPass, BeginChunk, ProjectRow, ProjectUnique,
             RollbackChunk, HaltOnPoison
    <3>2. Stutters
      BY <2>1, <3>1 DEF Reached
    <3>3. CASE BeginChunk(p) \/ ProjectRow(p) \/ ProjectUnique(p)
      BY <3>2, <3>3, BeginChunkTraced, ProjectRowTraced, ProjectUniqueTraced
    <3>4. CASE ~(BeginChunk(p) \/ ProjectRow(p) \/ ProjectUnique(p))
      <4>1. \A q \in Passers : pc'[q] = "projecting" =>
              /\ pc[q] = "projecting" /\ work'[q] = work[q]
              /\ chunk'[q] = chunk[q] /\ todo'[q] = todo[q]
        <5>1. CASE FinishPass(p) \/ HaltOnPoison(p) \/ AbortPass(p)
          <6>1. DropPass(p)
            BY <5>1 DEF FinishPass, HaltOnPoison, AbortPass
          <6> QED
            BY <1>2, <6>1 DEF DropPass, GoTo, TypeOK
        <5>2. CASE RollbackChunk(p)
          BY <1>2, <5>2 DEF RollbackChunk, GoTo, TypeOK
        <5>3. CASE CallRunPass(p) \/ ResetCursor(p) \/ AcquireLock(p)
                     \/ LoadCursor(p) \/ FetchBatch(p)
          BY <1>2, <5>3
             DEF CallRunPass, ResetCursor, AcquireLock, LoadCursor, FetchBatch, GoTo,
                 TypeOK
        <5> QED
          BY <1>6, <2>3, <3>4, <5>1, <5>2, <5>3 DEF RunPass
      <4>2. Traced
        BY <1>2, <2>1, <3>1, <4>1, StillTraced
      <4> QED
        BY <3>2, <4>2
    <3> QED
      BY <3>3, <3>4
  <2> QED
    BY <2>2, <2>3
<1> HIDE DEF Stutters
<1>7. CASE UNCHANGED vars \/ Next
  BY <1>1, <1>3, <1>4, <1>5, <1>6, <1>7 DEF Next, Save, TInv, Stutters
<1> QED
  BY <1>7

(***************************************************************************)
(* With one ingester the processor does what SequentialProjection          *)
(* promises, for every history, any number of passes and resets, and every *)
(* size of batches and chunks: a step of it shows nothing new, or applies  *)
(* the next saved rows once each, in id order.                             *)
(***************************************************************************)
THEOREM ProjectionRefines ==
    ASSUME OneIngester
    PROVE  Spec => ImplementsSequentialProjection
<1>1. Init => TInv
  <2> SUFFICES ASSUME Init PROVE TInv
    OBVIOUS
  <2>1. \A p \in Passers : pc[p] # "projecting"
    BY DEF Init
  <2> QED
    BY <2>1, InitWInv, InitOrder DEF TInv, NInv, WorkIsTraced, NoneIsBad
<1>2. Init => Sequential!SeqInit
  BY DEF Init, Reached, Sequential!SeqInit, Sequential!Ids, Ids, Sequential!NewKey, NewKey
<1>3. TInv /\ [Next]_vars => TInv' /\ [Sequential!SeqNext]_<<raw, store, Reached>>
  BY StepSimulates
<1> QED
  BY <1>1, <1>2, <1>3, PTL DEF Spec, ImplementsSequentialProjection, Sequential!SeqSpec
============================================================================
