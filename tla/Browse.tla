------------------------------ MODULE Browse ------------------------------
(***************************************************************************)
(* The listing queries of the metadata store over its current tables: the  *)
(* asset browser (BrowseCurrent in internal/store/readpath.go) and the     *)
(* bundle browser (BrowseBundles, BundleFiles in bundlebrowse.go).  Each   *)
(* operator is one SQL query, or the code between two of them, applied to  *)
(* the database d that the query sees; ReadApi runs them one by one.       *)
(*                                                                         *)
(* Data abstraction.  An entry carries the whole asset row (or the set of  *)
(* rows a bundle aggregate summarises) that its JSON fields are read from; *)
(* Name is the tail of path.  The snapshotRevision field is left out.      *)
(***************************************************************************)
EXTENDS AssetStore, PathOrder, FiniteSets

\* The elements of S in the increasing order Before, as ORDER BY returns them.
Sorted(S, Before(_, _)) ==
    [i \in 1..Cardinality(S) |->
        CHOOSE x \in S : Cardinality({y \in S : Before(y, x)}) = i - 1]

ByPath(x, y) == Less(x.path, y.path)

\* The first limit items, and a cursor when there are more.
PageWith(items, limit, cursorOf(_)) ==
    IF Len(items) > limit
    THEN [items |-> SubSeq(items, 1, limit), next |-> cursorOf(items[limit])]
    ELSE [items |-> items, next |-> <<>>]

PathCursor(e) == e.path

PageOf(items, limit) == PageWith(items, limit, PathCursor)

\* The path of the child of prefix that holds path: a directory ends in '/'.
ChildPath(prefix, path) ==
    LET cuts == {i \in (Len(prefix) + 1)..Len(path) : path[i] = Slash}
    IN  IF cuts = {} THEN path
        ELSE SubSeq(path, 1, CHOOSE i \in cuts : \A j \in cuts : i <= j)

Directory(path) == [kind |-> "directory", path |-> path, value |-> {}, shared |-> FALSE]

Leaf(kind, path, value, shared) ==
    [kind |-> kind, path |-> path, value |-> value, shared |-> shared]

-----------------------------------------------------------------------------
(* BrowseCurrent: a merge of two path-ordered tables by keyset seeks.      *)

SharedRows(d) == {d.currentShared[p] : p \in {q \in Paths : d.currentShared[q] # NoRow}}

OverrideRows(d, s) == {d.current[<<s, p>>] : p \in {q \in Paths : IsOverride(d.current[<<s, q>>])}}

\* path >= bound AND path < upper, where an empty upper is no bound.
InRange(path, bound, upper) ==
    LessEq(bound, path) /\ (upper # <<>> => Less(path, upper))

FirstInRange(rows, bound, upper) ==
    LET hits == {r \in rows : InRange(r.path, bound, upper)}
    IN  IF hits = {} THEN NoRow ELSE CHOOSE r \in hits : \A x \in hits : LessEq(r.path, x.path)

seekCurrentShared(d, bound, upper) == FirstInRange(SharedRows(d), bound, upper)

seekCurrentOverride(d, s, bound, upper) == FirstInRange(OverrideRows(d, s), bound, upper)

browseBound(prefix, cursor) ==
    IF cursor = <<>> THEN prefix
    ELSE IF IsDir(cursor) THEN nextAfterSubtree(cursor) ELSE nextAfterFile(cursor)

browseStart(prefix, cursor) ==
    [items |-> <<>>, bound |-> browseBound(prefix, cursor),
     nextShared |-> NoRow, nextOverride |-> NoRow,
     sharedDone |-> FALSE, overrideDone |-> FALSE]

\* The two probes of an iteration, each made only when no row is at hand.
browseShared(d, prefix, b) ==
    IF b.nextShared # NoRow \/ b.sharedDone THEN b
    ELSE LET r == seekCurrentShared(d, b.bound, nextAfterPrefix(prefix))
         IN  [b EXCEPT !.nextShared = r, !.sharedDone = (r = NoRow)]

browseOverride(d, s, prefix, b) ==
    IF b.nextOverride # NoRow \/ b.overrideDone THEN b
    ELSE LET r == seekCurrentOverride(d, s, b.bound, nextAfterPrefix(prefix))
         IN  [b EXCEPT !.nextOverride = r, !.overrideDone = (r = NoRow)]

browseEmpty(b) == b.nextShared = NoRow /\ b.nextOverride = NoRow

\* Mutant: the shared row wins where both tables have the path.
takesOverrideAfterShared(b) ==
    \/ b.nextShared = NoRow
    \/ b.nextOverride # NoRow /\ Less(b.nextOverride.path, b.nextShared.path)

takesOverride(b) ==
    \/ b.nextShared = NoRow
    \/ b.nextOverride # NoRow /\ LessEq(b.nextOverride.path, b.nextShared.path)

dropPassed(r, bound) == IF r # NoRow /\ Less(r.path, bound) THEN NoRow ELSE r

\* List the smaller row, or the directory it is in; move the bound past it.
browsePick(prefix, b) ==
    LET pick  == IF takesOverride(b) THEN b.nextOverride ELSE b.nextShared
        child == ChildPath(prefix, pick.path)
        bound == IF IsDir(child) THEN nextAfterSubtree(child) ELSE nextAfterFile(child)
        entry == IF IsDir(child) THEN Directory(child)
                 ELSE Leaf("asset", child, {pick}, ~takesOverride(b))
    IN  [b EXCEPT !.items = Append(@, entry),
                  !.bound = bound,
                  !.nextShared = dropPassed(@, bound),
                  !.nextOverride = dropPassed(@, bound)]

-----------------------------------------------------------------------------
(* BrowseBundles and BundleFiles: two scans merged in a map.               *)

\* Writing new into the map entries, keyed by kind and path.
Overwrite(entries, new) ==
    {e \in entries : ~\E n \in new : n.kind = e.kind /\ n.path = e.path} \cup new

addBundleBrowseEntries(entries, prefix, rows, shared) ==
    Overwrite(entries,
        {IF IsDir(ChildPath(prefix, r.path)) THEN Directory(ChildPath(prefix, r.path))
         ELSE Leaf("bundle", r.path, r.files, shared) :
            r \in {x \in rows : /\ InRange(x.path, prefix, nextAfterPrefix(prefix))
                                /\ HasPrefix(x.path, prefix)}})

scanSharedBundles(d) ==
    {[path |-> b, files |-> d.sharedBundles[b]] : b \in {c \in Bundles : d.sharedBundles[c] # {}}}

scanOverrideBundles(d, s) ==
    {[path |-> b, files |-> d.overrideBundles[<<s, b>>]] :
        b \in {c \in Bundles : d.overrideBundles[<<s, c>>] # {}}}

addBundleFileEntries(entries, rows, bundle, shared) ==
    Overwrite(entries, {Leaf("asset", r.path, {r}, shared) : r \in {x \in rows : x.bundle = bundle}})

afterCursor(entries, cursor) ==
    Sorted({e \in entries : cursor # <<>> => Less(cursor, e.path)}, ByPath)

-----------------------------------------------------------------------------
(* What the listings should show, from the read path's own answers.        *)

BrowseReference(d, s, prefix) ==
    LET served == {p \in Paths : HasPrefix(p, prefix) /\ LookupPlacement(d, s, p).row # NoRow}
    IN  {IF IsDir(ChildPath(prefix, p)) THEN Directory(ChildPath(prefix, p))
         ELSE Leaf("asset", p, {LookupPlacement(d, s, p).row}, LookupPlacement(d, s, p).shared) :
            p \in served}

BundleReference(d, s, prefix) ==
    LET files(b) == IF OverrideGroup(d, s, b) # {} THEN OverrideGroup(d, s, b) ELSE SharedGroup(d, b)
    IN  {IF IsDir(ChildPath(prefix, b)) THEN Directory(ChildPath(prefix, b))
         ELSE Leaf("bundle", b, files(b), OverrideGroup(d, s, b) = {}) :
            b \in {c \in Bundles : HasPrefix(c, prefix) /\ files(c) # {}}}

BundleFilesReference(d, s, bundle) ==
    {Leaf("asset", p, {LookupPlacement(d, s, p).row}, LookupPlacement(d, s, p).shared) :
        p \in {q \in Paths : /\ LookupPlacement(d, s, q).row # NoRow
                             /\ LookupPlacement(d, s, q).row.bundle = bundle}}

=============================================================================
