------------------------ MODULE SequentialProjection ------------------------
(***************************************************************************)
(* What the processor promises, whatever its batches, chunks, transactions,*)
(* passes and replays: the typed rows are what applying the saved rows one *)
(* at a time, each once and in id order, makes of them, up to a mark that  *)
(* only moves forward, past no row that is still to be saved and past no   *)
(* bad one.                                                                *)
(***************************************************************************)
EXTENDS RecordLifecycle

CONSTANTS MaxId, NoRow

VARIABLES
    raw, store, \* as in Projection
    mark        \* the id up to which rows have been applied

Ids == 1 .. MaxId

SeqInit ==
    /\ raw = [id \in Ids |-> NoRow]
    /\ store = [k \in Keys |-> NewKey]
    /\ mark = 0

\* Rows are saved once, and only above the mark.
RowsArrive ==
    /\ raw' \in [Ids -> Row \cup {NoRow}]
    /\ \A id \in Ids : raw[id] # NoRow \/ id <= mark => raw'[id] = raw[id]
    /\ UNCHANGED <<store, mark>>

ApplyRow(st, id) ==
    IF raw[id] = NoRow
    THEN st
    ELSE [st EXCEPT ![raw[id].key] = Process(@, raw[id], id)]

\* The store after the rows from the mark up to id `to` are applied in order.
AppliedThrough(to) ==
    LET applied[n \in mark .. to] ==
            IF n = mark THEN store ELSE ApplyRow(applied[n - 1], n)
    IN  applied[to]

\* Any number of rows may become visible as projected at once.
Project ==
    \E to \in Ids :
        /\ mark < to
        /\ raw[to] # NoRow
        /\ \A id \in mark + 1 .. to : raw[id] # NoRow => ~raw[id].bad
        /\ store' = AppliedThrough(to)
        /\ mark' = to
        /\ UNCHANGED raw

SeqNext == RowsArrive \/ Project

SeqSpec == SeqInit /\ [][SeqNext]_<<raw, store, mark>>
============================================================================
