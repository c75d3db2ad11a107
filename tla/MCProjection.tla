---------------------------- MODULE MCProjection ----------------------------
(* Small instances of Projection. *)
EXTENDS Projection

Shown(v) == [view |-> TRUE, val |-> v, bad |-> FALSE]
Gone == [view |-> FALSE, val |-> "sparse", bad |-> FALSE]
Poison == [view |-> TRUE, val |-> "a", bad |-> TRUE]

MCVals == {"a", "b", "sparse"}

\* A listing that is deleted and listed again with other contents, and one whose
\* second revision changes nothing but its timestamp.
TombstoneHistory == [k \in Keys |->
    IF k = "k1" THEN << Shown("a"), Gone, Shown("b") >>
                ELSE << Shown("a"), Shown("a") >>]

\* A listing that is deleted, and one that is edited into a payload the parser
\* rejects.
PoisonHistory == [k \in Keys |->
    IF k = "k1" THEN << Shown("a"), Gone >> ELSE << Shown("b"), Poison >>]
============================================================================
