------------------------- MODULE MCPipelinedImport -------------------------
(* Small instances of PipelinedImport. *)
EXTENDS PipelinedImport

\* Two listings, a room that is edited, an open house that moves from A to B and
\* another that is taken off.
MCKeys == {"A", "B", "ra", "oh", "oi"}
MCListings == {"A", "B"}
MCVals == {"inA", "alsoA", "inB"}

MCResourceOf == [k \in Keys |->
    CASE k \in Listings     -> Property
      [] k = "ra"           -> "property_rooms"
      [] k \in {"oh", "oi"} -> OpenHouse]

MCListingOf == [v \in Vals |-> IF v = "inB" THEN "B" ELSE "A"]

Rec(k, n, v) == [key |-> k, sma |-> n, view |-> TRUE, val |-> v, bad |-> FALSE]
Removed(k, n, v) == [Rec(k, n, v) EXCEPT !.view = FALSE]
Unreadable(k, n) == [Rec(k, n, "inA") EXCEPT !.bad = TRUE]

MCFeed == << << Rec("A", 1, "inA"), Rec("ra", 1, "inA") >>,
             << Rec("B", 1, "inB") >> >>
GoodDelta == << Rec("A", 2, "alsoA") >>
BadDelta == GoodDelta \o << Rec("ra", 2, "alsoA"), Unreadable("B", 2) >>
OpenHouses == << << Rec("oh", 1, "inA"), Rec("oi", 1, "inA") >>,
                 << Rec("oh", 2, "inB"), Removed("oi", 2, "inB") >> >>
MCPages == {MCFeed[1], MCFeed[2], GoodDelta, BadDelta, OpenHouses[1], OpenHouses[2]}

MCChainOf == [d \in Daemons |->
    IF d = "open_house" THEN << OpenHouse >> ELSE PropertyChain]

\* An import next to a delta, one that fails and starts again by itself, and two
\* daemons.
ImportAndDelta == {"import", "property"}
ImportAlone == {"import", "open_house"}
TwoDaemons == {"property", "open_house"}

MCDeployments == {ImportAndDelta, ImportAlone, TwoDaemons}
MCMaxFailures == [u \in MCDeployments |-> IF u = ImportAndDelta THEN 0 ELSE 1]
MCDeltas == [u \in MCDeployments |-> [d \in Daemons |->
    CASE u = ImportAndDelta /\ d = "property" -> << GoodDelta >>
      [] u = TwoDaemons /\ d = "property"     -> << BadDelta >>
      [] u = TwoDaemons /\ d = "open_house"   -> OpenHouses
      [] OTHER                                -> << >>]]
============================================================================
