-------------------------- MODULE StoreRefinement --------------------------
(***************************************************************************)
(* The metadata store implements Placements.  The override and the         *)
(* baseline of a path are what LookupPlacement finds of them in the        *)
(* committed database, through the read index or, before the first         *)
(* rebuild, through its fallback queries.                                  *)
(***************************************************************************)
EXTENDS AssetStore

OwnOf(d, s, p) ==
    LET found == LookupPlacement(d, s, p) IN IF found.shared THEN NoRow ELSE found.row

BaseOf(d, p) ==
    IF d.currentShared[p] # NoRow THEN d.currentShared[p] ELSE CurrentSharedByPath(d, p)

ownView == [sp \in Servers \X Paths |-> OwnOf(db, sp[1], sp[2])]

baseView == [p \in Paths |-> BaseOf(db, p)]

View == INSTANCE Placements WITH own <- ownView, base <- baseView

\* Over any sequence of transactions, rollbacks, crashes and restarts, what
\* LookupPlacement answers changes only as Placements allows: in one step, by
\* the rows of one region, and never from found to not found.
ImplementsPlacements == View!PlacementSpec

\* A path that a region is served stays served: the store never deletes, and
\* neither an override given up nor a crash nor a rebuild makes a 404 of it.
FoundStaysFound ==
    [][\A s \in Servers, p \in Paths :
         LookupPlacement(db, s, p).row # NoRow => LookupPlacement(db', s, p).row # NoRow]_storeVars

\* The baseline of an open transaction of region s is the committed one,
\* except where s has put a row of its own.
OwnBaseline(s) ==
    \A p \in Paths :
        \/ work.currentShared[p] = db.currentShared[p]
        \/ /\ work.currentShared[p] \in Row
           /\ work.currentShared[p].server = s /\ work.currentShared[p].path = p
           /\ ~work.currentShared[p].override

\* What StoreInv lacks for the refinement.
BaselineInv == tx # NoTx => OwnBaseline(tx[1])

=============================================================================
