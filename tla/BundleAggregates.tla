------------------------- MODULE BundleAggregates -------------------------
(***************************************************************************)
(* When the bundle tables follow the asset tables: InsertAsset refreshes   *)
(* the bundle of the row that comes and not the one of the row that goes,  *)
(* so NoBundleDrift rests on the rows of a path never moving from one      *)
(* bundle to another.                                                      *)
(***************************************************************************)
EXTENDS AssetStore

InputRows == PutRows \cup UNION {{t[i] : i \in DOMAIN t} : t \in LegacyTables}

\* The rows of a path agree on its bundle.  Legacy rows may have none.
OneBundlePerPath ==
    \A a \in PutRows, r \in InputRows : r.path = a.path => r.bundle \in {a.bundle, NoBundle}

\* Every row of d is one that was put, at its own path.
RowsKnown(d) ==
    /\ \A i \in DOMAIN d.assets : d.assets[i] \in InputRows
    /\ \A s \in Servers, p \in Paths :
          d.current[<<s, p>>] # NoRow => d.current[<<s, p>>] \in InputRows /\ d.current[<<s, p>>].path = p
    /\ \A p \in Paths :
          d.currentShared[p] # NoRow => d.currentShared[p] \in InputRows /\ d.currentShared[p].path = p

\* The inductive invariant behind NoBundleDrift.
AggregateInv ==
    /\ RowsKnown(db) /\ RowsKnown(work)
    /\ db.meta = LatestAssetID(db) => AggregatesExact(db)
    /\ tx # NoTx => AggregatesExact(work)

=============================================================================
