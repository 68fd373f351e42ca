--------------------------- MODULE SnapshotIndex ---------------------------
(***************************************************************************)
(* The in-memory placement snapshot (internal/index/index.go): Rebuild     *)
(* derives it from the assets table, Lookup and Browse answer from it.     *)
(* The package has no caller in the gateway, which reads the SQLite tables *)
(* instead (LookupPlacement, BrowseCurrent), so it is modelled as the pure *)
(* algorithm it is and compared with what replaced it.  Revision and the   *)
(* atomic pointer, which only concurrent callers would see, are left out.  *)
(***************************************************************************)
EXTENDS Browse

\* Mutant: the newest override row, even when a newer row went back to shared.
newestOverrides(d, s) ==
    {NewestOf(d, {i \in IdsAt(d, s, p) : d.assets[i].override}) : p \in Paths} \ {NoRow}

\* The newest row of each (server, path), when that row is an override.
overrideRows(d, s) == {r \in {CurrentByServerPath(d, s, p) : p \in Paths} : IsOverride(r)}

sharedRows(d) == {CurrentSharedByPath(d, p) : p \in Paths} \ {NoRow}

\* browseBuilder.addAsset: the pairs of a directory and its child that an
\* asset adds, up to the first empty name in its path.
addAsset(asset) ==
    LET p       == asset.path
        cuts    == {i \in DOMAIN p : p[i] = Slash}
        good    == {i \in cuts : \A j \in cuts : j <= i => j > 1 /\ p[j - 1] # Slash}
        dirs    == {SubSeq(p, 1, i) : i \in good}
        parent(x) == LET up1 == {e \in dirs \cup {<<>>} : HasPrefix(x, e) /\ e # x}
                     IN  CHOOSE e \in up1 : \A o \in up1 : Len(o) <= Len(e)
    IN  IF \A i \in DOMAIN p : p[i] = Slash THEN {}
        ELSE {<<parent(x), Directory(x)>> : x \in dirs}
             \cup (IF good = cuts THEN {<<parent(p), asset>>} ELSE {})

browseLess(x, y) ==
    IF x.path # y.path THEN Less(x.path, y.path) ELSE x.kind = "asset" /\ y.kind = "directory"

sameBrowseEntry(x, y) == x.kind = y.kind /\ x.path = y.path

\* browseBuilder.freeze: each directory's children in order.
freeze(builder) ==
    [dir \in {x[1] : x \in builder} |->
        Sorted({x[2] : x \in {y \in builder : y[1] = dir}}, browseLess)]

browseTree(rows, shared) ==
    freeze(UNION {addAsset(Leaf("asset", r.path, {r}, shared)) : r \in rows})

ByPathOnly(rows) == [p \in {r.path : r \in rows} |-> CHOOSE r \in rows : r.path = p]

Rebuild(d) ==
    [overrideIndex  |-> [s \in Servers |-> ByPathOnly(overrideRows(d, s))],
     currentShared  |-> ByPathOnly(sharedRows(d)),
     sharedBrowse   |-> browseTree(sharedRows(d), TRUE),
     overrideBrowse |-> [s \in Servers |-> browseTree(overrideRows(d, s), FALSE)]]

Lookup(snap, s, p) ==
    IF p \in DOMAIN snap.overrideIndex[s]
    THEN [row |-> snap.overrideIndex[s][p], shared |-> FALSE]
    ELSE IF p \in DOMAIN snap.currentShared
    THEN [row |-> snap.currentShared[p], shared |-> TRUE]
    ELSE NotFound

Children(tree, prefix) == IF prefix \in DOMAIN tree THEN tree[prefix] ELSE <<>>

\* The merge loop of Browse over the two sorted lists of children.
RECURSIVE mergeBrowse(_, _, _, _, _, _)
mergeBrowse(hidden, shared, overrides, cursor, limit, items) ==
    IF Len(items) > limit \/ (shared = <<>> /\ overrides = <<>>) THEN items
    ELSE LET own   == /\ overrides # <<>>
                      /\ shared = <<>> \/ browseLess(Head(overrides), Head(shared))
             both  == ~own /\ overrides # <<>> /\ sameBrowseEntry(Head(shared), Head(overrides))
             entry == IF own \/ both THEN Head(overrides) ELSE Head(shared)
             skip  == \/ ~own /\ ~both /\ entry.kind = "asset" /\ entry.path \in hidden
                      \/ cursor # <<>> /\ LessEq(entry.path, cursor)
         IN  mergeBrowse(hidden, IF own THEN shared ELSE Tail(shared),
                         IF own \/ both THEN Tail(overrides) ELSE overrides,
                         cursor, limit, IF skip THEN items ELSE Append(items, entry))

browseSnapshot(snap, s, prefix, cursor, limit) ==
    IF limit <= 0 THEN [items |-> <<>>, next |-> <<>>]
    ELSE PageOf(mergeBrowse(DOMAIN snap.overrideIndex[s],
                            Children(snap.sharedBrowse, prefix),
                            Children(snap.overrideBrowse[s], prefix), cursor, limit, <<>>),
                limit)

-----------------------------------------------------------------------------
(* Properties.                                                             *)

Directories ==
    {<<>>} \cup UNION {{SubSeq(p, 1, i) : i \in {j \in DOMAIN p : p[j] = Slash}} : p \in Paths}

\* The page size the listings are compared at.
PageSize == 2

SnapshotExact(d) ==
    LET snap == Rebuild(d)
    IN  \A s \in Servers :
          /\ \A p \in Paths : Lookup(snap, s, p) = LookupPlacement(d, s, p)
          /\ \A prefix \in Directories :
                LET all == BrowseReference(d, s, prefix)
                IN  \A cursor \in {<<>>} \cup {e.path : e \in all} :
                      browseSnapshot(snap, s, prefix, cursor, PageSize)
                        = PageOf(afterCursor(all, cursor), PageSize)

\* The snapshot and the tables that replaced it agree: after a commit, a
\* snapshot that Rebuild makes of the assets table places every path and
\* lists every page as the SQLite read path does.  This holds while the
\* current rows are the newest by id, which an upsert of an older row ends.
SnapshotAgrees == [][db' # db /\ IndexIsNewest(db') => SnapshotExact(db')]_storeVars

=============================================================================
