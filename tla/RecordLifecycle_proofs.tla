---------------------- MODULE RecordLifecycle_proofs ----------------------
(***************************************************************************)
(* What Process and ProcessBulk preserve of a key's rows.                  *)
(***************************************************************************)
EXTENDS RecordLifecycle, SequenceTheorems, TLAPS

Plans == Skips \cup {"Insert", "Update", "Delete", "DeleteFirstSighting"}

\* The decision is one of the seven outcomes.
LEMMA DecideIsPlan ==
    ASSUME NEW ks \in KeyState, NEW cv, NEW row \in Row
    PROVE  Decide(ks, cv, row) \in Plans
  BY DEF Decide, DecideNewer, Plans, Skips, Row, KeyState, Entity

\* The open version's position is a position of the history, or 0.
LEMMA LookupInHistory ==
    ASSUME NEW ks \in KeyState
    PROVE  /\ LookupCurrentVersion(ks) \in Nat
           /\ LookupCurrentVersion(ks) = 0
                 \/ LookupCurrentVersion(ks) \in DOMAIN ks.vers
<1>1. CASE OpenVersions(ks) = {}
  BY <1>1 DEF LookupCurrentVersion
<1>2. CASE OpenVersions(ks) # {}
  <2>1. LookupCurrentVersion(ks) \in OpenVersions(ks)
    BY <1>2 DEF LookupCurrentVersion
  <2> QED
    BY <2>1 DEF OpenVersions, KeyState
<1> QED
  BY <1>1, <1>2

\* Closing a version changes nothing else.
LEMMA CloseVersionProperties ==
    ASSUME NEW vers \in Seq(Version), NEW cv \in Nat,
           cv = 0 \/ cv \in DOMAIN vers
    PROVE  /\ CloseVersion(vers, cv) \in Seq(Version)
           /\ Len(CloseVersion(vers, cv)) = Len(vers)
           /\ \A i \in 1 .. Len(vers) :
                 CloseVersion(vers, cv)[i] =
                    IF i = cv THEN [vers[i] EXCEPT !.open = FALSE] ELSE vers[i]
<1>1. CASE cv = 0
  BY <1>1 DEF CloseVersion
<1>2. CASE cv # 0
  <2>1. cv \in 1 .. Len(vers) /\ vers[cv] \in Version
    BY <1>2
  <2> DEFINE shut == [vers[cv] EXCEPT !.open = FALSE]
  <2>2. shut \in Version
    BY <2>1 DEF Version
  <2>3. CloseVersion(vers, cv) = [vers EXCEPT ![cv] = shut]
    BY <1>2 DEF CloseVersion
  <2>4. \A i \in 1 .. Len(vers) :
           i = cv => shut = [vers[i] EXCEPT !.open = FALSE]
    OBVIOUS
  <2> HIDE DEF shut
  <2>5. /\ [vers EXCEPT ![cv] = shut] \in Seq(Version)
        /\ Len([vers EXCEPT ![cv] = shut]) = Len(vers)
        /\ \A i \in 1 .. Len(vers) :
              [vers EXCEPT ![cv] = shut][i] = IF i = cv THEN shut ELSE vers[i]
    BY <2>1, <2>2, ExceptSeq
  <2> QED
    BY <2>3, <2>4, <2>5
<1> QED
  BY <1>1, <1>2

\* Writing a row leaves a well-formed entity and well-formed versions.
LEMMA ApplyPlanType ==
    ASSUME NEW ks \in KeyState, NEW cv \in Nat, NEW row \in Row, NEW id \in Nat,
           NEW plan \in Plans,
           cv = 0 \/ cv \in DOMAIN ks.vers
    PROVE  ApplyPlan(ks, cv, row, id, plan) \in KeyState
<1>1. CASE plan \in Skips
  BY <1>1 DEF ApplyPlan
<1>2. CASE plan \notin Skips
  <2>1. ks.vers \in Seq(Version) /\ ks.ent \in Entity
    BY DEF KeyState
  <2>2. CloseVersion(ks.vers, cv) \in Seq(Version)
    BY <2>1, CloseVersionProperties
  <2>3. NewVersion(row, id, ChangeOf(plan)) \in Version
    BY <1>2 DEF NewVersion, ChangeOf, Version, ChangeTypes, Row, Plans
  <2>4. WriteEntity(ks, row, plan, Len(ks.vers) + 1) \in Entity
    <3>1. Len(ks.vers) + 1 \in Nat
      BY <2>1
    <3>2. CASE plan = "Delete"
      BY <2>1, <3>1, <3>2 DEF WriteEntity, Entity
    <3>3. CASE plan # "Delete"
      BY <3>1, <3>3 DEF WriteEntity, Entity, Row
    <3> QED
      BY <3>2, <3>3
  <2>5. Append(IF plan = "Insert" THEN ks.vers ELSE CloseVersion(ks.vers, cv),
               NewVersion(row, id, ChangeOf(plan))) \in Seq(Version)
    BY <2>1, <2>2, <2>3
  <2> QED
    BY <1>2, <2>4, <2>5 DEF ApplyPlan, KeyState
<1> QED
  BY <1>1, <1>2

\* Both paths keep a key's rows well formed.
LEMMA ProcessType ==
    ASSUME NEW ks \in KeyState, NEW row \in Row, NEW id \in Nat
    PROVE  /\ Process(ks, row, id) \in KeyState
           /\ ProcessBulk(ks, row, id) \in KeyState
  BY LookupInHistory, DecideIsPlan, ApplyPlanType DEF Process, ProcessBulk

----------------------------------------------------------------------------

\* In a consistent key the open version, if any, is the last one written.
LEMMA CurrentIsOpen ==
    ASSUME NEW ks \in KeyState, KeyConsistent(ks)
    PROVE  /\ LookupCurrentVersion(ks) = Len(ks.vers)
           /\ ~Exists(ks) => Len(ks.vers) = 0
  BY DEF KeyConsistent, OneOpenVersion, CurrentIsLast, LookupCurrentVersion,
         Exists, KeyState, Entity

\* A write over the last version keeps the key consistent, provided the row is
\* newer than that version and the plan is the one decided for it.
LEMMA ApplyPlanConsistent ==
    ASSUME NEW ks \in KeyState, NEW row \in Row, NEW id \in Nat,
           KeyConsistent(ks)
    PROVE  KeyConsistent(ApplyPlan(ks, Len(ks.vers), row, id,
                                   Decide(ks, Len(ks.vers), row)))
<1> DEFINE n == Len(ks.vers)
           plan == Decide(ks, n, row)
           new == ApplyPlan(ks, n, row, id, plan)
           v == NewVersion(row, id, ChangeOf(plan))
<1>1. plan \in Plans
  BY DecideIsPlan
<1>2. CASE plan \in Skips
  BY <1>2 DEF ApplyPlan
<1>3. CASE plan \notin Skips
  <2>1. /\ ks.vers \in Seq(Version) /\ ks.ent \in Entity /\ n \in Nat
        /\ ks.ent.cur = n /\ DOMAIN ks.vers = 1 .. n
        /\ \A i \in 1 .. n : ks.vers[i] \in Version
    BY DEF KeyState, KeyConsistent, CurrentIsLast
  <2>2. plan = "Insert" => n = 0
    BY <2>1 DEF Decide, DecideNewer, Exists
  <2>3. n # 0 => row.sma > ks.vers[n].sma
    <3>1. n # 0 => ks.vers[n] \in Version
      BY <2>1
    <3>2. ~(n # 0 /\ row.sma <= ks.vers[n].sma)
      BY <1>3 DEF Decide, Skips
    <3> QED
      BY <3>1, <3>2 DEF Version, Row
  <2> DEFINE closed == CloseVersion(ks.vers, n)
  <2>4. /\ closed \in Seq(Version)
        /\ Len(closed) = n
        /\ \A i \in 1 .. n : /\ closed[i].sma = ks.vers[i].sma
                             /\ i = n => ~closed[i].open
                             /\ i # n => closed[i] = ks.vers[i]
    <3>1. n = 0 \/ n \in DOMAIN ks.vers
      BY <2>1
    <3>2. \A i \in 1 .. n : ks.vers[i] \in Version
      BY <2>1
    <3>3. /\ closed \in Seq(Version)
          /\ Len(closed) = n
          /\ \A i \in 1 .. n :
                closed[i] = IF i = n THEN [ks.vers[i] EXCEPT !.open = FALSE]
                                     ELSE ks.vers[i]
      BY <2>1, <3>1, CloseVersionProperties
    <3> QED
      BY <3>2, <3>3 DEF Version
  <2>5. new.vers = Append(closed, v)
    BY <1>3, <2>1, <2>2 DEF ApplyPlan, CloseVersion
  <2>6. new.ent = WriteEntity(ks, row, plan, n + 1)
    BY <1>3 DEF ApplyPlan
  <2>7. v \in Version /\ v.open /\ v.sma = row.sma /\ v.view = row.view /\ v.val = row.val
    BY <1>1, <1>3 DEF NewVersion, ChangeOf, Version, ChangeTypes, Row, Plans
  <2> HIDE DEF new, v, closed, plan, n
  <2>8. /\ new.vers \in Seq(Version)
        /\ Len(new.vers) = n + 1
        /\ new.vers[n + 1] = v
        /\ \A i \in 1 .. n : new.vers[i] = closed[i]
    BY <2>1, <2>4, <2>5, <2>7
  <2>9. new.ent.cur = n + 1
    BY <2>1, <2>6 DEF WriteEntity, Entity
  <2>10. \A i \in 1 .. n : ~closed[i].open
    <3>1. \A i \in 1 .. n : ks.vers[i].open => i = n
      BY <2>1 DEF KeyConsistent, OneOpenVersion, OpenVersions, Exists
    <3> QED
      BY <3>1, <2>1, <2>4
  <2>11. OneOpenVersion(new)
    <3>1. OpenVersions(new) = {n + 1}
      BY <2>1, <2>7, <2>8, <2>10 DEF OpenVersions
    <3> QED
      BY <3>1, <2>9, <2>1 DEF OneOpenVersion, Exists
  <2>12. CurrentIsLast(new)
    BY <2>8, <2>9 DEF CurrentIsLast
  <2>13. EntityMirrorsVersion(new)
    <3>1. plan = "Delete" => ~row.view
      BY DEF plan, Decide, DecideNewer
    <3>2. plan # "Delete" => new.ent.view = row.view /\ new.ent.val = row.val
      BY <2>6 DEF WriteEntity
    <3>3. plan = "Delete" => new.ent.view = FALSE
      BY <2>1, <2>6 DEF WriteEntity, Entity
    <3>4. row.view \in BOOLEAN
      BY DEF Row
    <3> QED
      BY <3>1, <3>2, <3>3, <3>4, <2>7, <2>8, <2>9 DEF EntityMirrorsVersion
  <2>14. VersionsGrowNewer(new)
    <3> SUFFICES ASSUME NEW i \in 1 .. n + 1, NEW j \in 1 .. n + 1, i < j
                 PROVE  new.vers[i].sma < new.vers[j].sma
      <4>1. DOMAIN new.vers = 1 .. n + 1
        BY <2>8
      <4> QED
        BY <4>1 DEF VersionsGrowNewer
    <3>1. \A a, b \in 1 .. n : a < b => ks.vers[a].sma < ks.vers[b].sma
      BY <2>1 DEF KeyConsistent, VersionsGrowNewer, n
    <3>2. \A a \in 1 .. n : ks.vers[a].sma \in Nat
      BY <2>1 DEF Version, n
    <3>3. row.sma \in Nat
      BY DEF Row
    <3>4. CASE j <= n
      BY <3>1, <3>4, <2>1, <2>4, <2>8
    <3>5. CASE j = n + 1
      <4>1. i \in 1 .. n /\ new.vers[i].sma = ks.vers[i].sma
        BY <3>5, <2>1, <2>4, <2>8
      <4>2. ks.vers[i].sma <= ks.vers[n].sma
        BY <3>1, <3>2, <4>1, <2>1
      <4> QED
        BY <4>1, <4>2, <3>2, <3>3, <3>5, <2>1, <2>3, <2>7, <2>8
    <3> QED
      BY <3>4, <3>5, <2>1
  <2> QED
    BY <2>11, <2>12, <2>13, <2>14 DEF KeyConsistent, new, plan, n
<1> QED
  BY <1>2, <1>3

\* Both paths keep a consistent key consistent, whatever the row.
LEMMA ProcessConsistent ==
    ASSUME NEW ks \in KeyState, NEW row \in Row, NEW id \in Nat,
           KeyConsistent(ks)
    PROVE  /\ KeyConsistent(Process(ks, row, id))
           /\ KeyConsistent(ProcessBulk(ks, row, id))
<1>1. LookupCurrentVersion(ks) = Len(ks.vers)
  BY CurrentIsOpen
<1>2. (IF Exists(ks) THEN LookupCurrentVersion(ks) ELSE 0) = Len(ks.vers)
  BY CurrentIsOpen
<1> QED
  BY <1>1, <1>2, ApplyPlanConsistent DEF Process, ProcessBulk

\* The two paths do the same to a consistent key.
LEMMA BulkIsProcess ==
    ASSUME NEW ks \in KeyState, NEW row \in Row, NEW id \in Nat,
           KeyConsistent(ks)
    PROVE  ProcessBulk(ks, row, id) = Process(ks, row, id)
  BY CurrentIsOpen DEF Process, ProcessBulk

\* A key without rows is well formed and consistent.
LEMMA NewKeyConsistent == NewKey \in KeyState /\ KeyConsistent(NewKey)
  BY DEF NewKey, KeyState, Entity, KeyConsistent, OneOpenVersion, OpenVersions,
         CurrentIsLast, EntityMirrorsVersion, VersionsGrowNewer, Exists

----------------------------------------------------------------------------

\* Both paths only append to a key's history, and close versions of it.
LEMMA ProcessOnlyAppends ==
    ASSUME NEW ks \in KeyState, NEW row \in Row, NEW id \in Nat
    PROVE  /\ OnlyAppended(ks, Process(ks, row, id))
           /\ OnlyAppended(ks, ProcessBulk(ks, row, id))
<1>1. ASSUME NEW cv \in Nat, cv = 0 \/ cv \in DOMAIN ks.vers, NEW plan \in Plans
      PROVE  OnlyAppended(ks, ApplyPlan(ks, cv, row, id, plan))
  <2>1. CASE plan \in Skips
    BY <2>1 DEF ApplyPlan, OnlyAppended, OnlyClosed, KeyState
  <2>2. CASE plan \notin Skips
    <3> DEFINE v == NewVersion(row, id, ChangeOf(plan))
               kept == IF plan = "Insert" THEN ks.vers
                                          ELSE CloseVersion(ks.vers, cv)
               new == ApplyPlan(ks, cv, row, id, plan)
    <3>1. ks.vers \in Seq(Version) /\ DOMAIN ks.vers = 1 .. Len(ks.vers)
      BY DEF KeyState
    <3>2. /\ kept \in Seq(Version)
          /\ Len(kept) = Len(ks.vers)
          /\ \A i \in 1 .. Len(ks.vers) : OnlyClosed(ks.vers[i], kept[i])
      <4>1. CASE plan = "Insert"
        BY <3>1, <4>1 DEF OnlyClosed
      <4>2. CASE plan # "Insert"
        <5> DEFINE closed == CloseVersion(ks.vers, cv)
        <5>1. /\ closed \in Seq(Version) /\ Len(closed) = Len(ks.vers)
              /\ \A i \in 1 .. Len(ks.vers) :
                    closed[i] = IF i = cv THEN [ks.vers[i] EXCEPT !.open = FALSE]
                                          ELSE ks.vers[i]
          BY <1>1, <3>1, CloseVersionProperties
        <5>2. kept = closed
          BY <4>2
        <5> HIDE DEF closed, kept
        <5>3. \A i \in 1 .. Len(ks.vers) : OnlyClosed(ks.vers[i], closed[i])
          BY <5>1 DEF OnlyClosed
        <5> QED
          BY <5>1, <5>2, <5>3
      <4> QED
        BY <4>1, <4>2
    <3>3. v \in Version
      BY <2>2 DEF NewVersion, ChangeOf, Version, ChangeTypes, Row, Plans
    <3>4. new.vers = Append(kept, v)
      BY <2>2 DEF ApplyPlan
    <3> HIDE DEF v, kept, new
    <3>5. /\ Len(new.vers) = Len(ks.vers) + 1
          /\ \A i \in 1 .. Len(ks.vers) : new.vers[i] = kept[i]
      BY <3>1, <3>2, <3>3, <3>4, AppendProperties
    <3> QED
      BY <3>1, <3>2, <3>5 DEF OnlyAppended, new
  <2> QED
    BY <2>1, <2>2
<1> QED
  BY <1>1, LookupInHistory, DecideIsPlan DEF Process, ProcessBulk

\* A history that only grew twice only grew.
LEMMA OnlyAppendedTransitive ==
    ASSUME NEW a \in KeyState, NEW b \in KeyState, NEW c \in KeyState,
           OnlyAppended(a, b), OnlyAppended(b, c)
    PROVE  OnlyAppended(a, c)
<1>1. \A ks \in KeyState : ks.vers \in Seq(Version)
  BY DEF KeyState
<1>2. \A ks \in KeyState :
         /\ Len(ks.vers) \in Nat
         /\ DOMAIN ks.vers = 1 .. Len(ks.vers)
         /\ \A i \in 1 .. Len(ks.vers) : ks.vers[i] \in Version
  BY <1>1
<1>3. \A u, v, w \in Version :
         OnlyClosed(u, v) /\ OnlyClosed(v, w) => OnlyClosed(u, w)
  BY DEF OnlyClosed, Version
<1>4. Len(c.vers) >= Len(a.vers)
  BY <1>2 DEF OnlyAppended
<1>5. ASSUME NEW i \in DOMAIN a.vers
      PROVE  OnlyClosed(a.vers[i], c.vers[i])
  <2>1. i \in 1 .. Len(a.vers) /\ i \in 1 .. Len(b.vers) /\ i \in 1 .. Len(c.vers)
    BY <1>2, <1>4 DEF OnlyAppended
  <2>2. OnlyClosed(a.vers[i], b.vers[i]) /\ OnlyClosed(b.vers[i], c.vers[i])
    BY <1>2, <2>1 DEF OnlyAppended
  <2> QED
    BY <1>2, <1>3, <2>1, <2>2
<1> QED
  BY <1>4, <1>5 DEF OnlyAppended

----------------------------------------------------------------------------

\* The entity shows what the row says.
Agrees(ks, row) ==
    /\ ks.ent.view = row.view
    /\ row.view => ks.ent.val = row.val

\* Applying the row would change nothing.
Accounted(ks, row) ==
    /\ Exists(ks)
    /\ row.sma <= ks.vers[ks.ent.cur].sma \/ Agrees(ks, row)

\* The row is the one the current version was written from.
WrittenFrom(ks, row) ==
    /\ Exists(ks)
    /\ LET v == ks.vers[ks.ent.cur]
       IN  v.sma = row.sma /\ v.view = row.view /\ v.val = row.val

LEMMA CurrentVersion ==
    ASSUME NEW ks \in KeyState, KeyConsistent(ks), Exists(ks)
    PROVE  /\ ks.ent.cur = Len(ks.vers) /\ Len(ks.vers) \in DOMAIN ks.vers
           /\ ks.vers[ks.ent.cur] \in Version
           /\ ks.vers[ks.ent.cur].view = ks.ent.view
           /\ ks.ent.view => ks.vers[ks.ent.cur].val = ks.ent.val
<1>1. ks.ent.cur = Len(ks.vers) /\ ks.ent.cur # 0 /\ ks.vers \in Seq(Version)
  BY DEF KeyConsistent, CurrentIsLast, Exists, KeyState
<1>2. Len(ks.vers) \in DOMAIN ks.vers
  BY <1>1
<1>3. ks.vers[ks.ent.cur] \in Version
  BY <1>1, <1>2
<1> QED
  BY <1>1, <1>2, <1>3 DEF KeyConsistent, EntityMirrorsVersion

\* One row either changes nothing, or becomes the current version; after it the row
\* is accounted for, and before it that is what decides.
LEMMA ProcessOutcome ==
    ASSUME NEW ks \in KeyState, NEW row \in Row, NEW id \in Nat, KeyConsistent(ks)
    PROVE  /\ Accounted(Process(ks, row, id), row)
           /\ Accounted(ks, row) => Process(ks, row, id) = ks
           /\ Process(ks, row, id) = ks \/ WrittenFrom(Process(ks, row, id), row)
<1> DEFINE n == Len(ks.vers)
           plan == Decide(ks, n, row)
           new == Process(ks, row, id)
           v == NewVersion(row, id, ChangeOf(plan))
<1>1. new = ApplyPlan(ks, n, row, id, plan)
  BY CurrentIsOpen DEF Process
<1>2. new \in KeyState /\ KeyConsistent(new)
  BY ProcessType, ProcessConsistent
<1>3. /\ ks.vers \in Seq(Version) /\ ks.ent \in Entity /\ n \in Nat
      /\ ks.ent.cur = n /\ (Exists(ks) <=> n # 0)
  BY DEF KeyState, KeyConsistent, CurrentIsLast, Exists
<1>4. plan \in Plans
  BY DecideIsPlan
<1>5. row.view \in BOOLEAN /\ row.sma \in Nat
  BY DEF Row
<1>6. CASE plan \in Skips
  <2>1. new = ks
    BY <1>1, <1>6 DEF ApplyPlan
  <2>2. Exists(ks)
    BY <1>3, <1>5, <1>6 DEF Decide, DecideNewer, Skips, Exists
  <2>3. CASE plan = "SkipStale"
    <3>1. row.sma <= ks.vers[n].sma
      BY <2>3, <1>5 DEF Decide, DecideNewer
    <3> QED
      BY <1>3, <2>1, <2>2, <3>1 DEF Accounted
  <2>4. CASE plan = "SkipTombstoned"
    <3>1. ~row.view /\ ~ks.ent.view
      BY <2>4, <1>5 DEF Decide, DecideNewer
    <3>2. ks.ent.view \in BOOLEAN
      BY <1>3 DEF Entity
    <3> QED
      BY <1>5, <2>1, <2>2, <3>1, <3>2 DEF Accounted, Agrees
  <2>5. CASE plan = "SkipNoDiff"
    <3>1. row.view /\ NoDiff(ks, n, row)
      BY <2>5, <1>5 DEF Decide, DecideNewer
    <3>2. ks.vers[n].view = row.view /\ ks.vers[n].val = row.val
      BY <1>3, <2>2, <3>1 DEF NoDiff
    <3> QED
      BY <1>3, <2>1, <2>2, <3>1, <3>2, CurrentVersion DEF Accounted, Agrees
  <2> QED
    BY <1>6, <2>3, <2>4, <2>5 DEF Skips
<1>7. CASE plan \notin Skips
  <2>1. plan = "Insert" => n = 0
    BY <1>3 DEF Decide, DecideNewer, Exists
  <2>2. new.vers = Append(CloseVersion(ks.vers, n), v)
    BY <1>1, <1>7, <2>1 DEF ApplyPlan, CloseVersion
  <2>3. CloseVersion(ks.vers, n) \in Seq(Version) /\ Len(CloseVersion(ks.vers, n)) = n
    <3>1. n = 0 \/ n \in DOMAIN ks.vers
      BY <1>3
    <3> QED
      BY <1>3, <3>1, CloseVersionProperties
  <2>4. v \in Version /\ v.sma = row.sma /\ v.view = row.view /\ v.val = row.val
    BY <1>4, <1>7 DEF NewVersion, ChangeOf, Version, ChangeTypes, Row, Plans
  <2> HIDE DEF new, v, plan
  <2>5. Len(new.vers) = n + 1 /\ new.vers[n + 1] = v
    BY <1>3, <2>2, <2>3, <2>4
  <2>6. new.ent.cur = n + 1
    BY <1>2, <2>5 DEF KeyConsistent, CurrentIsLast
  <2>7. WrittenFrom(new, row)
    BY <1>3, <2>4, <2>5, <2>6 DEF WrittenFrom, Exists
  <2>8. Accounted(new, row)
    BY <1>5, <2>7 DEF WrittenFrom, Accounted
  <2>9. ~Accounted(ks, row)
    <3> SUFFICES ASSUME Accounted(ks, row) PROVE plan \in Skips
      BY <1>7
    <3>1. Exists(ks) /\ n # 0 /\ ks.ent.cur = n
      BY <1>3 DEF Accounted
    <3>2. CASE row.sma <= ks.vers[n].sma
      BY <3>1, <3>2 DEF plan, Decide, Skips
    <3>3. CASE Agrees(ks, row)
      <4>1. ks.vers[n].view = ks.ent.view /\ (ks.ent.view => ks.vers[n].val = ks.ent.val)
        BY <3>1, CurrentVersion
      <4>2. row.view => NoDiff(ks, n, row)
        BY <3>3, <4>1 DEF Agrees, NoDiff
      <4>3. DecideNewer(ks, n, row) \in Skips
        BY <1>5, <3>1, <3>3, <4>2 DEF DecideNewer, Agrees, Skips
      <4> QED
        BY <4>3 DEF plan, Decide, Skips
    <3> QED
      BY <3>1, <3>2, <3>3 DEF Accounted
  <2> QED
    BY <2>7, <2>8, <2>9 DEF new
<1> QED
  BY <1>6, <1>7
============================================================================
