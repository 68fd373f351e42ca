----------------------------- MODULE AssetStore -----------------------------
(***************************************************************************)
(* The SQLite metadata store of the gateway (internal/store): the assets   *)
(* history table, the two materialised read-index tables, the two bundle   *)
(* aggregate tables, the versions and bundle_completions tables, and the   *)
(* read_index_meta high-water mark, with the COMMIT transaction that       *)
(* writes them one row at a time and the start-up rebuild.                 *)
(*                                                                         *)
(* A database is one record, so that the committed database (db) and the   *)
(* private view of the open write transaction (work) are two values of the *)
(* same kind and every store function is an operator on such a value.      *)
(*                                                                         *)
(* Data abstraction.  assets is a sequence: the AUTOINCREMENT id of a row  *)
(* is its position, an upsert keeps the position.  versions holds, per     *)
(* region, its rows in id order: every query of the code names a region.   *)
(* Timestamps are left out.  A bundle aggregate row is the set of asset    *)
(* rows it summarises; its columns (fingerprint, file_count, total_size,   *)
(* updated_at) are functions of that set, and the empty set is the absence *)
(* of the row.  current_shared_assets does not store server; the model     *)
(* keeps the whole row and no operator reads that field.                   *)
(***************************************************************************)
EXTENDS Naturals, Sequences

CONSTANTS Servers,       \* regions (jp, en, ...)
          Paths,         \* canonical public asset paths
          Versions,      \* asset_version values
          Hashes,        \* asset_hash values: one version may be committed under several
          Fps,           \* upstream fingerprints
          Shas,          \* content hashes
          Keys,          \* filer storage keys
          Bundles,       \* bundle paths
          NoBundle,      \* bundle_path = ''
          NoSha,         \* sha256 = '' (shared-reuse rows)
          NoRow,         \* sql.ErrNoRows
          LegacyTables,  \* assets tables written before the read index existed
          PutRows,       \* the rows commits insert
          Completions,   \* the bundle completions commits insert
          MaxRows        \* bound: rows the assets table may reach

VARIABLES db,    \* the committed database
          work,  \* what the open transaction sees; db when none is open
          tx,    \* <<server, version, hash>> of the open write transaction, or NoTx
          up     \* the gateway process is running

storeVars == <<db, work, tx, up>>

Row == [server   : Servers,
        bundle   : Bundles \cup {NoBundle},
        path     : Paths,
        version  : Versions,
        fp       : Fps,
        sha      : Shas \cup {NoSha},
        override : BOOLEAN,
        key      : Keys]

Sources == {"uploaded", "check_skip", "zero_file"}

\* A region's row of versions, UNIQUE(server, asset_version, asset_hash).
VersionRow == [version : Versions, hash : Hashes]

Completion == [server : Servers, version : Versions, hash : Hashes, bundle : Bundles,
               fp : Fps, source : Sources]

Db == [assets          : Seq(Row),
       current         : [Servers \X Paths -> Row \cup {NoRow}],
       currentShared   : [Paths -> Row \cup {NoRow}],
       sharedBundles   : [Bundles -> SUBSET Row],
       overrideBundles : [Servers \X Bundles -> SUBSET Row],
       meta            : Nat,
       versions        : [Servers -> Seq(VersionRow)],
       completions     : SUBSET Completion]

\* UNIQUE(server, path, version) of the assets table.
SameKey(r, a) == /\ r.server = a.server
                 /\ r.path = a.path
                 /\ r.version = a.version

UniqueRows(t) == \A i, j \in DOMAIN t : SameKey(t[i], t[j]) => i = j

ASSUME NoRowAssumption == NoRow \notin Row
ASSUME NoBundleAssumption == NoBundle \notin Bundles
ASSUME InputsAssumption == PutRows \subseteq Row /\ Completions \subseteq Completion
ASSUME LegacyAssumption ==
    \A t \in LegacyTables : t \in Seq(Row) /\ UniqueRows(t)
ASSUME MaxRowsAssumption == MaxRows \in Nat

EmptyDb == [assets          |-> <<>>,
            current         |-> [sp \in Servers \X Paths |-> NoRow],
            currentShared   |-> [p \in Paths |-> NoRow],
            sharedBundles   |-> [b \in Bundles |-> {}],
            overrideBundles |-> [sb \in Servers \X Bundles |-> {}],
            meta            |-> 0,
            versions        |-> [s \in Servers |-> <<>>],
            completions     |-> {}]

-----------------------------------------------------------------------------
(* Queries on the assets history table.                                    *)

IsOverride(r) == r # NoRow /\ r.override

\* The row of largest id among ids, as ORDER BY id DESC LIMIT 1 returns it.
NewestOf(d, ids) ==
    IF ids = {} THEN NoRow
    ELSE d.assets[CHOOSE i \in ids : \A j \in ids : j <= i]

\* The row of smallest id among ids, as ORDER BY id ASC LIMIT 1 returns it.
OldestOf(d, ids) ==
    IF ids = {} THEN NoRow
    ELSE d.assets[CHOOSE i \in ids : \A j \in ids : i <= j]

RowsOf(d) == {d.assets[i] : i \in DOMAIN d.assets}

IdsAt(d, s, p) ==
    {i \in DOMAIN d.assets : d.assets[i].server = s /\ d.assets[i].path = p}

SharedIdsAt(d, p) ==
    {i \in DOMAIN d.assets : d.assets[i].path = p /\ ~d.assets[i].override}

CurrentByServerPath(d, s, p) == NewestOf(d, IdsAt(d, s, p))

CurrentSharedByPath(d, p) == NewestOf(d, SharedIdsAt(d, p))

LatestAssetID(d) == Len(d.assets)

BundleCompleted(d, s, b, f) ==
    \E c \in d.completions : c.server = s /\ c.bundle = b /\ c.fp = f

\* Prefers a shared row, then the oldest, as ORDER BY is_override, id does.
ReusableAssetBySHA(d, sha) ==
    LET ids    == {i \in DOMAIN d.assets : sha # NoSha /\ d.assets[i].sha = sha}
        shared == {i \in ids : ~d.assets[i].override}
    IN  OldestOf(d, IF shared # {} THEN shared ELSE ids)

\* One reusable row per path of an exact bundle fingerprint.
ReusableBundleAssets(d, b, f) ==
    LET ids(p)    == {i \in DOMAIN d.assets : /\ d.assets[i].path = p
                                              /\ d.assets[i].bundle = b
                                              /\ d.assets[i].fp = f}
        shared(p) == {i \in ids(p) : ~d.assets[i].override}
    IN  {OldestOf(d, IF shared(p) # {} THEN shared(p) ELSE ids(p)) :
            p \in {q \in Paths : ids(q) # {}}}

-----------------------------------------------------------------------------
(* CheckPath and CheckBundle issue their queries one by one, so each query *)
(* is an operator of its own; HipIngest runs them as separate steps.       *)

SameServerHasPath(d, s, p, f) ==
    \E i \in IdsAt(d, s, p) : d.assets[i].fp = f

SharedExactMatch(d, p, f) ==
    OldestOf(d, {i \in SharedIdsAt(d, p) : d.assets[i].fp = f})

SameServerHasBundle(d, s, b, f) ==
    \E i \in DOMAIN d.assets : /\ d.assets[i].server = s
                               /\ d.assets[i].bundle = b
                               /\ d.assets[i].fp = f

AnyServerHasBundle(d, b, f) ==
    \E i \in DOMAIN d.assets : d.assets[i].bundle = b /\ d.assets[i].fp = f

AnyServerCompleted(d, b, f) == \E c \in d.completions : c.bundle = b /\ c.fp = f

SharedBundleBaseline(d, b) ==
    NewestOf(d, {i \in DOMAIN d.assets : /\ d.assets[i].bundle = b
                                         /\ ~d.assets[i].override})

-----------------------------------------------------------------------------
(* Writes inside the COMMIT transaction.                                   *)

SharedGroup(d, b) ==
    {d.currentShared[p] : p \in {q \in Paths : /\ d.currentShared[q] # NoRow
                                              /\ d.currentShared[q].bundle = b}}

OverrideGroup(d, s, b) ==
    {d.current[<<s, p>>] : p \in {q \in Paths : /\ IsOverride(d.current[<<s, q>>])
                                               /\ d.current[<<s, q>>].bundle = b}}

\* Mutant: the aggregate is refreshed for shared rows only.
refreshOnlyShared(d, a) ==
    IF a.bundle = NoBundle \/ a.override THEN d
    ELSE [d EXCEPT !.sharedBundles[a.bundle] = SharedGroup(d, a.bundle)]

\* d already holds the new row a in its current tables.  The shared row is
\* left alone when the group is empty (a HAVING clause); the override row
\* is deleted when its group is empty.
refreshBundleAggregates(d, a) ==
    IF a.bundle = NoBundle THEN d
    ELSE [d EXCEPT
            !.sharedBundles[a.bundle] =
                IF a.override \/ SharedGroup(d, a.bundle) = {} THEN @
                ELSE SharedGroup(d, a.bundle),
            !.overrideBundles[<<a.server, a.bundle>>] =
                OverrideGroup(d, a.server, a.bundle)]

upsertAsset(t, a) ==
    IF \E i \in DOMAIN t : SameKey(t[i], a)
    THEN [i \in DOMAIN t |-> IF SameKey(t[i], a) THEN a ELSE t[i]]
    ELSE Append(t, a)

upsertCurrentAsset(d, a) == [d EXCEPT !.current[<<a.server, a.path>>] = a]

\* Mutant: only the first shared row of a path reaches the index.
upsertFirstShared(d, a) ==
    IF d.currentShared[a.path] # NoRow THEN d
    ELSE [d EXCEPT !.currentShared[a.path] = a]

\* Mutant: shared rows never reach the index.
upsertNoShared(d, a) == d

upsertCurrentSharedAsset(d, a) == [d EXCEPT !.currentShared[a.path] = a]

\* Mutant: the current row is not replaced when it already exists.
InsertAssetKeepCurrent(d, a) ==
    LET d1 == [d EXCEPT !.assets = upsertAsset(@, a)]
        d2 == IF d.current[<<a.server, a.path>>] = NoRow
              THEN upsertCurrentAsset(d1, a) ELSE d1
    IN  refreshBundleAggregates(
            IF a.override THEN d2 ELSE upsertCurrentSharedAsset(d2, a), a)

InsertAsset(d, a) ==
    LET d1 == [d EXCEPT !.assets = upsertAsset(@, a)]
        d2 == upsertCurrentAsset(d1, a)
        d3 == IF a.override THEN d2 ELSE upsertCurrentSharedAsset(d2, a)
    IN  refreshBundleAggregates(d3, a)

\* Upsert on (server, asset_version, asset_hash): a known row keeps its id.
InsertVersion(d, s, v, h) ==
    LET r == [version |-> v, hash |-> h]
    IN  IF \E i \in DOMAIN d.versions[s] : d.versions[s][i] = r THEN d
        ELSE [d EXCEPT !.versions[s] = Append(@, r)]

\* Upsert on (server, asset_version, asset_hash, bundle_path).
InsertBundleCompletion(d, c) ==
    [d EXCEPT !.completions =
        {x \in @ : ~(/\ x.server = c.server
                     /\ x.version = c.version
                     /\ x.hash = c.hash
                     /\ x.bundle = c.bundle)} \cup {c}]

\* Mutant: the commit does not record the new high-water mark.
markNothing(d) == d

MarkReadIndexCurrent(d) == [d EXCEPT !.meta = LatestAssetID(d)]

\* Start-up: rebuild the four derived tables from the newest rows by id,
\* unless the high-water mark says they are current.
EnsureReadIndexes(d) ==
    IF d.meta = LatestAssetID(d) THEN d
    ELSE LET d1 == [d EXCEPT
                      !.current = [sp \in Servers \X Paths |->
                                     CurrentByServerPath(d, sp[1], sp[2])],
                      !.currentShared = [p \in Paths |-> CurrentSharedByPath(d, p)],
                      !.meta = LatestAssetID(d)]
         IN  [d1 EXCEPT
                !.sharedBundles = [b \in Bundles |-> SharedGroup(d1, b)],
                !.overrideBundles = [sb \in Servers \X Bundles |->
                                       OverrideGroup(d1, sb[1], sb[2])]]

-----------------------------------------------------------------------------
(* The read-path placement policy: server override first, newest shared    *)
(* second, the assets table when the index has neither.                    *)

NotFound == [row |-> NoRow, shared |-> FALSE]

\* Mutant: no migration fallback.
LookupIndexedOnly(d, s, p) ==
    IF IsOverride(d.current[<<s, p>>])
    THEN [row |-> d.current[<<s, p>>], shared |-> FALSE]
    ELSE IF d.currentShared[p] # NoRow
    THEN [row |-> d.currentShared[p], shared |-> TRUE]
    ELSE NotFound

\* Mutant: the shared baseline shadows the override.
LookupSharedFirst(d, s, p) ==
    IF d.currentShared[p] # NoRow
    THEN [row |-> d.currentShared[p], shared |-> TRUE]
    ELSE IF IsOverride(d.current[<<s, p>>])
    THEN [row |-> d.current[<<s, p>>], shared |-> FALSE]
    ELSE NotFound

LookupPlacement(d, s, p) ==
    IF IsOverride(d.current[<<s, p>>])
    THEN [row |-> d.current[<<s, p>>], shared |-> FALSE]
    ELSE IF d.currentShared[p] # NoRow
    THEN [row |-> d.currentShared[p], shared |-> TRUE]
    ELSE IF IsOverride(CurrentByServerPath(d, s, p))
    THEN [row |-> CurrentByServerPath(d, s, p), shared |-> FALSE]
    ELSE IF CurrentSharedByPath(d, p) # NoRow
    THEN [row |-> CurrentSharedByPath(d, p), shared |-> TRUE]
    ELSE NotFound

-----------------------------------------------------------------------------
(* The transaction.  SQLite has a single writer, whose lock the first      *)
(* INSERT (InsertVersion) takes; nobody sees work until CommitTx.  Every   *)
(* row of a transaction carries the session's region and asset version.    *)

NoTx == <<>>

Begin(s, v, h) ==
    /\ up /\ tx = NoTx
    /\ tx' = <<s, v, h>>
    /\ work' = InsertVersion(db, s, v, h)
    /\ UNCHANGED <<db, up>>

Put(a) ==
    /\ \E h \in Hashes : tx = <<a.server, a.version, h>>
    /\ work' = InsertAsset(work, a)
    /\ UNCHANGED <<db, tx, up>>

Complete(c) ==
    /\ tx = <<c.server, c.version, c.hash>>
    /\ work' = InsertBundleCompletion(work, c)
    /\ UNCHANGED <<db, tx, up>>

CommitTx ==
    /\ tx # NoTx
    /\ work' = MarkReadIndexCurrent(work)
    /\ db' = work'
    /\ tx' = NoTx
    /\ UNCHANGED up

Rollback ==
    /\ tx # NoTx
    /\ work' = db
    /\ tx' = NoTx
    /\ UNCHANGED <<db, up>>

\* The process dies; SQLite discards the open transaction.
Crash ==
    /\ up
    /\ up' = FALSE
    /\ tx' = NoTx
    /\ work' = db
    /\ UNCHANGED db

\* The process starts and runs EnsureReadIndexes before it serves anything.
Boot ==
    /\ ~up
    /\ up' = TRUE
    /\ db' = EnsureReadIndexes(db)
    /\ work' = db'
    /\ UNCHANGED tx

StoreInit ==
    /\ \E t \in LegacyTables \cup {<<>>} : db = [EmptyDb EXCEPT !.assets = t]
    /\ work = db
    /\ tx = NoTx
    /\ up = FALSE

\* Bound on the table: an upsert always fits.
HasRoom(a) == Len(upsertAsset(work.assets, a)) <= MaxRows

StoreNext ==
    \/ \E s \in Servers, v \in Versions, h \in Hashes : Begin(s, v, h)
    \/ \E a \in PutRows : Put(a) /\ HasRoom(a)
    \/ \E c \in Completions : Complete(c)
    \/ CommitTx
    \/ Rollback
    \/ Crash
    \/ Boot

StoreSpec == StoreInit /\ [][StoreNext]_storeVars

-----------------------------------------------------------------------------
(* Properties.                                                             *)

\* Both views of the database are well-formed, and without an open
\* transaction nobody holds uncommitted rows.
StoreTypeOK ==
    /\ db \in Db
    /\ work \in Db
    /\ tx \in {NoTx} \cup (Servers \X Versions \X Hashes)
    /\ up \in BOOLEAN
    /\ tx = NoTx => work = db

\* A current_assets row is a row of assets with the same key, and a pair
\* (server, path) has a current row exactly when it has rows at all.
CurrentIndexed(d) ==
    \A s \in Servers, p \in Paths :
        IF IdsAt(d, s, p) = {} THEN d.current[<<s, p>>] = NoRow
        ELSE \E i \in IdsAt(d, s, p) : d.current[<<s, p>>] = d.assets[i]

\* A path with a shared row in assets has a row in current_shared_assets.
SharedIndexed(d) ==
    \A p \in Paths : SharedIdsAt(d, p) # {} => d.currentShared[p] # NoRow

\* While the gateway runs, the read index InsertAsset maintains is backed by
\* the history table: every current row is a committed row of that server and
\* path, never one an upsert has replaced.
IndexBacked == up => CurrentIndexed(db) /\ SharedIndexed(db)

\* No false 404 (the reason LookupPlacement keeps a fallback): a server that
\* committed any row for a path always resolves that path.
NoFalse404 ==
    \A s \in Servers, p \in Paths :
        IdsAt(db, s, p) # {} => LookupPlacement(db, s, p).row # NoRow

\* Restarting the gateway changes no answer of the read path: the rebuild of
\* EnsureReadIndexes agrees with the fallback it replaces, and the mark that
\* COMMIT records keeps a later start from rebuilding.
BootPreservesReads ==
    [][~up /\ up' => \A s \in Servers, p \in Paths :
         LookupPlacement(db', s, p) = LookupPlacement(db, s, p)]_storeVars

\* A region reads its own commit: when a commit of s moves s's current row of
\* a path, LookupPlacement answers s with that row and no other.
ReadYourCommit ==
    [][\A s \in Servers, p \in Paths :
         (tx # NoTx /\ tx[1] = s /\ db'.current[<<s, p>>] # db.current[<<s, p>>])
         => LookupPlacement(db', s, p).row = db'.current[<<s, p>>]]_storeVars

\* Override isolation: while a region has its own override of a path, no
\* commit of another region changes what it is served for that path.
OverrideShields ==
    [][\A s \in Servers, p \in Paths :
         (up /\ up' /\ IsOverride(db.current[<<s, p>>]) /\ tx # NoTx /\ tx[1] # s)
         => LookupPlacement(db', s, p) = LookupPlacement(db, s, p)]_storeVars

\* Row r of d answers region s for path p.
Served(d, s, p) ==
    LET r == d.current[<<s, p>>]
    IN  r # NoRow /\ (r.override \/ d.currentShared[p] = r)

\* What the open transaction of region s has done so far.
OwnRowsOnly(s) ==
    \A p \in Paths :
       /\ \A o \in Servers \ {s} : work.current[<<o, p>>] = db.current[<<o, p>>]
       /\ work.current[<<s, p>>] = db.current[<<s, p>>] \/ Served(work, s, p)

EmptyIndex(d) ==
    /\ \A s \in Servers, p \in Paths : d.current[<<s, p>>] = NoRow
    /\ \A p \in Paths : d.currentShared[p] = NoRow

\* The inductive invariant behind IndexBacked, NoFalse404 and the three action
\* properties: the high-water mark tells a maintained index from an empty one,
\* and a transaction moves only its own region's current rows.
StoreInv ==
    /\ StoreTypeOK
    /\ up => db.meta = LatestAssetID(db)
    /\ IF db.meta = LatestAssetID(db) THEN CurrentIndexed(db) /\ SharedIndexed(db)
       ELSE EmptyIndex(db)
    /\ tx # NoTx => up /\ CurrentIndexed(work) /\ SharedIndexed(work)
    /\ tx # NoTx => OwnRowsOnly(tx[1])

AggregatesExact(d) ==
    /\ \A b \in Bundles : d.sharedBundles[b] = SharedGroup(d, b)
    /\ \A s \in Servers, b \in Bundles :
          d.overrideBundles[<<s, b>>] = OverrideGroup(d, s, b)

\* The bundle tables describe exactly the current asset rows of each bundle
\* (refreshBundleAggregates: "can never drift from the current asset tables").
NoBundleDrift == up => AggregatesExact(db)

IndexIsNewest(d) ==
    /\ \A s \in Servers, p \in Paths :
          d.current[<<s, p>>] = CurrentByServerPath(d, s, p)
    /\ \A p \in Paths : d.currentShared[p] = CurrentSharedByPath(d, p)

\* The index that InsertAsset maintains row by row is the one EnsureReadIndexes
\* would build from the whole history, so a rebuild would change nothing.  This
\* needs commits that do not rewrite older rows (FreshRows): an upsert keeps its
\* id.
IncrementalIsRebuild == up => IndexIsNewest(db)

\* An upsert that rewrites a row rewrites the newest one of its region and path,
\* and takes no shared row away.
Refreshes(d, a) ==
    \A i \in DOMAIN d.assets : SameKey(d.assets[i], a) =>
        /\ \A j \in IdsAt(d, a.server, a.path) : j <= i
        /\ IF a.override THEN d.assets[i].override
           ELSE \A j \in SharedIdsAt(d, a.path) : j <= i

\* No commit rewrites history: a region that publishes a version again, by
\* another session, finds its rows the newest, and a row that was shared stays
\* shared.
FreshRows ==
    [][(\E a \in Row : Put(a)) => \E a \in Row : Put(a) /\ Refreshes(work, a)]_storeVars

=============================================================================
