---------------------------- MODULE ParkedLinks ----------------------------
(***************************************************************************)
(* What the parent links of child records promise, whoever writes them and *)
(* in whatever order the records arrive: a link names a listing that       *)
(* exists and that the child itself has named, and a child that is linked  *)
(* stays linked.                                                           *)
(***************************************************************************)
CONSTANTS
    Children, \* rooms, unit types and open houses
    Listings,
    NoLink    \* the child is parked, or has no row yet

VARIABLES
    listings, \* the listings that exist
    named,    \* per child, the listings its revisions have named
    link      \* per child, its parent listing

linkVars == <<listings, named, link>>

LinkInit ==
    /\ listings = {}
    /\ named = [c \in Children |-> {}]
    /\ link = [c \in Children |-> NoLink]

\* Listings are never removed, a child may come to name another one.
RecordsArrive ==
    /\ listings' \in SUBSET Listings
    /\ listings \subseteq listings'
    /\ named' \in [Children -> SUBSET Listings]
    /\ \A c \in Children : named[c] \subseteq named'[c]

\* Any number of children are linked, by their own revisions or by a relink.
LinksAreSet ==
    /\ link' \in [Children -> Listings \cup {NoLink}]
    /\ \A c \in Children :
          \/ link'[c] = link[c]
          \/ link'[c] \in named'[c] \cap listings'

LinkNext == RecordsArrive /\ LinksAreSet

LinkSpec == LinkInit /\ [][LinkNext]_linkVars
============================================================================
