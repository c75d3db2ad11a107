-------------------------- MODULE RecordLifecycle --------------------------
(***************************************************************************)
(* What one raw_output row does to one typed entity and its version        *)
(* history (sync/processor/property.go; member.go, office.go, media.go,    *)
(* open_house.go, property_room.go and property_unit_type.go repeat the    *)
(* same decision).  Pure operators, no state: Projection runs them inside  *)
(* its transactions.                                                       *)
(*                                                                         *)
(* A key's state is a record                                               *)
(*   ent   the entity row: view is mlg_can_view, val stands for all other  *)
(*         columns, cur is the position in vers that current_version_id    *)
(*         names.  cur = 0 means the key has no entity row.                *)
(*   vers  the key's version rows in the order they were inserted; open    *)
(*         is "valid_to IS NULL".                                          *)
(***************************************************************************)
EXTENDS Naturals, Sequences

CONSTANTS
    Keys,   \* primary keys of one resource, e.g. ListingKeys
    Vals,   \* contents a payload can carry, all columns but mlg_can_view
    Blank   \* the content a key without an entity row shows

ChangeTypes == {"insert", "update", "delete"}

\* A raw_output row: sma is source_modified_at, bad marks a payload the
\* processor's parser rejects.
Row == [key : Keys, sma : Nat \ {0}, view : BOOLEAN, val : Vals, bad : BOOLEAN]

Version == [raw : Nat, sma : Nat, view : BOOLEAN, val : Vals,
            change : ChangeTypes, open : BOOLEAN]

Entity == [view : BOOLEAN, val : Vals \cup {Blank}, cur : Nat]

KeyState == [ent : Entity, vers : Seq(Version)]

NewKey == [ent |-> [view |-> FALSE, val |-> Blank, cur |-> 0], vers |-> << >>]

Exists(ks) == ks.ent.cur # 0

OpenVersions(ks) == {i \in DOMAIN ks.vers : ks.vers[i].open}

\* The open version's position, 0 when the key has none.
LookupCurrentVersion(ks) ==
    IF OpenVersions(ks) = {} THEN 0 ELSE CHOOSE i \in OpenVersions(ks) : TRUE

\* Nothing but source_modified_at differs: the diff leaves that column out, and
\* without an open version there is nothing to differ from.
NoDiff(ks, cv, row) ==
    cv = 0 \/ (ks.vers[cv].view = row.view /\ ks.vers[cv].val = row.val)

\* decideProperty once the row is known to be newer than the open version.
DecideNewer(ks, cv, row) ==
    CASE ~row.view /\ Exists(ks) /\ ~ks.ent.view -> "SkipTombstoned"
      [] ~row.view /\ Exists(ks) /\ ks.ent.view  -> "Delete"
      [] ~row.view /\ ~Exists(ks)                -> "DeleteFirstSighting"
      [] row.view /\ ~Exists(ks)                 -> "Insert"
      [] row.view /\ Exists(ks)                  ->
             IF NoDiff(ks, cv, row) THEN "SkipNoDiff" ELSE "Update"

\* The decision shared by the per-record and the bulk path, from the entity
\* row, the open version cv and the parsed row.
Decide(ks, cv, row) ==
    IF cv # 0 /\ row.sma <= ks.vers[cv].sma
    THEN "SkipStale"
    ELSE DecideNewer(ks, cv, row)

ChangeOf(plan) ==
    CASE plan = "Insert" -> "insert"
      [] plan = "Update" -> "update"
      [] plan \in {"Delete", "DeleteFirstSighting"} -> "delete"

NewVersion(row, id, change) ==
    [raw |-> id, sma |-> row.sma, view |-> row.view, val |-> row.val,
     change |-> change, open |-> TRUE]

\* A variant of CloseVersion: the prior version stays open.
LeaveOpen(vers, cv) == vers

\* A variant of CloseVersion: the prior version is deleted.
RemoveVersion(vers, cv) ==
    SubSeq(vers, 1, cv - 1) \o SubSeq(vers, cv + 1, Len(vers))

\* Closing the prior open version sets its valid_to; an insert closes nothing.
CloseVersion(vers, cv) ==
    IF cv = 0 THEN vers ELSE [vers EXCEPT ![cv].open = FALSE]

\* A tombstone keeps the entity's last known columns; every other write
\* replaces them all.
WriteEntity(ks, row, plan, n) ==
    IF plan = "Delete"
    THEN [ks.ent EXCEPT !.view = FALSE, !.cur = n]
    ELSE [view |-> row.view, val |-> row.val, cur |-> n]

Skips == {"SkipStale", "SkipTombstoned", "SkipNoDiff"}

ApplyPlan(ks, cv, row, id, plan) ==
    IF plan \in Skips
    THEN ks
    ELSE [ent  |-> WriteEntity(ks, row, plan, Len(ks.vers) + 1),
          vers |-> Append(IF plan = "Insert" THEN ks.vers
                                             ELSE CloseVersion(ks.vers, cv),
                          NewVersion(row, id, ChangeOf(plan)))]

\* Process: one record on the open transaction.  The open version is looked up
\* only when the entity exists.
Process(ks, row, id) ==
    LET cv == IF Exists(ks) THEN LookupCurrentVersion(ks) ELSE 0
    IN  ApplyPlan(ks, cv, row, id, Decide(ks, cv, row))

\* One key of ProcessChunk's bulk path: the same decision, the open version
\* read whether or not the entity exists.
ProcessBulk(ks, row, id) ==
    LET cv == LookupCurrentVersion(ks)
    IN  ApplyPlan(ks, cv, row, id, Decide(ks, cv, row))

----------------------------------------------------------------------------

(***************************************************************************)
(* What a key's rows must always satisfy.  The entity's current_version_id *)
(* names the one open version; a visible entity mirrors it; a tombstoned   *)
(* one points at a version that says the record is gone; and versions were *)
(* written in strictly increasing source_modified_at, so no row was ever   *)
(* written over a newer one.                                               *)
(***************************************************************************)
OneOpenVersion(ks) ==
    OpenVersions(ks) = IF Exists(ks) THEN {ks.ent.cur} ELSE {}

CurrentIsLast(ks) == ks.ent.cur = Len(ks.vers)

EntityMirrorsVersion(ks) ==
    Exists(ks) =>
        LET v == ks.vers[ks.ent.cur]
        IN  /\ v.view = ks.ent.view
            /\ ks.ent.view => v.val = ks.ent.val

VersionsGrowNewer(ks) ==
    \A i, j \in DOMAIN ks.vers : i < j => ks.vers[i].sma < ks.vers[j].sma

KeyConsistent(ks) ==
    /\ OneOpenVersion(ks)
    /\ CurrentIsLast(ks)
    /\ EntityMirrorsVersion(ks)
    /\ VersionsGrowNewer(ks)

\* A version row is never removed, rewritten or reopened; it can be closed.
OnlyClosed(v, w) == w = v \/ w = [v EXCEPT !.open = FALSE]

\* The key's history went from that of ks to that of later by such steps and by
\* new versions at its end.
OnlyAppended(ks, later) ==
    /\ Len(later.vers) >= Len(ks.vers)
    /\ \A i \in DOMAIN ks.vers : OnlyClosed(ks.vers[i], later.vers[i])
============================================================================
