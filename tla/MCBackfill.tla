----------------------------- MODULE MCBackfill -----------------------------
(* Small instances of Backfill. *)
EXTENDS Backfill

OnePicture == [m \in Media |-> << "a" >>]
\* The first photo is replaced once.
Replaced == [m \in Media |-> IF m = "m1" THEN << "a", "b" >> ELSE << "b" >>]
SameListing == [m \in Media |-> "l1"]
\* Two listings, one photo each.
OwnListing == [m \in Media |-> IF m = "m1" THEN "l1" ELSE "l2"]
============================================================================
