---------------------------- MODULE VersionDiff ----------------------------
(***************************************************************************)
(* The history queries of the metadata store (internal/store/versiondiff   *)
(* .go): the list of committed versions and the per-version diffs, by      *)
(* file, by bundle and by file of a bundle.  One operator per SQL query.   *)
(*                                                                         *)
(* Data abstraction.  size is a function of the content hash; a row        *)
(* without one (shared reuse) has size 0.  A version's id is its position  *)
(* among its region's rows.  app_version, bundle_count, committed_at and   *)
(* stats_json are left out.  file_count, total_size and fingerprint of a   *)
(* bundle in a diff are read from its set of files; the asset hash that    *)
(* tells two completions of a bundle apart is in its row, not in the JSON. *)
(***************************************************************************)
EXTENDS Browse

CONSTANTS SizeOf,  \* content hash -> bytes
          Mp3,     \* the extension "mp3"
          NoFp     \* no fingerprint of its own

size(r) == IF r.sha = NoSha THEN 0 ELSE SizeOf[r.sha]

-----------------------------------------------------------------------------
(* ListVersions.                                                           *)

\* Mutant: the page starts with the version the cursor names.
versionsUpTo(d, s, before) == {i \in DOMAIN d.versions[s] : before = 0 \/ i <= before}

versionsBefore(d, s, before) == {i \in DOMAIN d.versions[s] : before = 0 \/ i < before}

versionPage(d, s, before) ==
    Sorted({[id |-> i, version |-> d.versions[s][i].version, hash |-> d.versions[s][i].hash] :
               i \in versionsBefore(d, s, before)},
           LAMBDA x, y : x.id > y.id)

VersionCursor(e) == <<e.id>>

VersionIds(d, s, v) == {i \in DOMAIN d.assets : d.assets[i].server = s /\ d.assets[i].version = v}

\* The second query counts the rows of each version on the page.
fillChangedAssetCounts(d, s, page) ==
    [i \in DOMAIN page |->
        [id |-> page[i].id, version |-> page[i].version, hash |-> page[i].hash,
         changed |-> Cardinality(VersionIds(d, s, page[i].version))]]

-----------------------------------------------------------------------------
(* DiffVersion and DiffBundleFiles: (size DESC, path ASC) keyset pages.    *)

\* found: the newest versions row of the asset version, whatever its hash.
VersionKnown(d, s, v) == \E i \in DOMAIN d.versions[s] : d.versions[s][i].version = v

\* The region had a row for the path before this one.
existed(d, i) ==
    \E j \in 1..(i - 1) : d.assets[j].server = d.assets[i].server /\ d.assets[j].path = d.assets[i].path

actionCondition(d, i, action) ==
    CASE action = "updated" -> existed(d, i)
      [] action = "all"     -> TRUE
      [] OTHER              -> ~existed(d, i)

\* LIKE folds the case of ASCII letters.
fold(c) == IF c \in 65..90 THEN c + 32 ELSE c

likeSuffix(path, ext) ==
    /\ Len(path) > Len(ext)
    /\ path[Len(path) - Len(ext)] = Dot
    /\ \A i \in DOMAIN ext : fold(path[Len(path) - Len(ext) + i]) = ext[i]

extSuffixCondition(r, exts, minMp3) ==
    exts # {} => \E x \in exts : likeSuffix(r.path, x) /\ (x = Mp3 => size(r) >= minMp3)

\* bundles is the set of bundle paths asked for.
diffIds(d, s, v, bundles, action, exts, minMp3) ==
    {i \in VersionIds(d, s, v) : /\ d.assets[i].bundle \in bundles
                                 /\ actionCondition(d, i, action)
                                 /\ extSuffixCondition(d.assets[i], exts, minMp3)}

DiffEntry(d, i) ==
    [path |-> d.assets[i].path, size |-> size(d.assets[i]), row |-> d.assets[i],
     existed |-> existed(d, i)]

BySizeThenPath(x, y) == x.size > y.size \/ (x.size = y.size /\ Less(x.path, y.path))

\* Mutant: the cursor is inclusive.
fromDiffCursor(e, cursor) ==
    cursor # <<>> => e.size < cursor[1] \/ (e.size = cursor[1] /\ LessEq(cursor[2], e.path))

afterDiffCursor(e, cursor) ==
    cursor # <<>> => e.size < cursor[1] \/ (e.size = cursor[1] /\ Less(cursor[2], e.path))

diffPage(d, ids, cursor) ==
    Sorted({e \in {DiffEntry(d, i) : i \in ids} : afterDiffCursor(e, cursor)}, BySizeThenPath)

DiffCursor(e) == <<e.size, e.path>>

-----------------------------------------------------------------------------
(* DiffVersionBundles: from bundle_completions, or from assets for a       *)
(* version that has none.                                                  *)

\* The prefix is escaped with '\' but the query has no ESCAPE clause, so a
\* prefix with '%' or '_' asks for a literal '\', which no bundle path has.
likePrefix(path, prefix) ==
    /\ ~HasByte(prefix, 37) /\ ~HasByte(prefix, 95)
    /\ Len(prefix) <= Len(path) /\ \A i \in DOMAIN prefix : fold(path[i]) = fold(prefix[i])

VersionFiles(d, s, v, b) ==
    {d.assets[i] : i \in {j \in VersionIds(d, s, v) : d.assets[j].bundle = b}}

versionCompletions(d, s, v) == {c \in d.completions : c.server = s /\ c.version = v}

\* LEFT JOIN: a completion without files of this version has none.
bundleDiffsCompleted(d, s, v, prefix) ==
    {[path |-> c.bundle, hash |-> c.hash, fp |-> c.fp, source |-> c.source,
      files |-> VersionFiles(d, s, v, c.bundle)] :
        c \in {x \in versionCompletions(d, s, v) : likePrefix(x.bundle, prefix)}}

bundleDiffsOfAssets(d, s, v, prefix) ==
    {[path |-> b, hash |-> NoFp, fp |-> NoFp, source |-> "uploaded",
      files |-> VersionFiles(d, s, v, b)] :
        b \in {x \in Bundles : VersionFiles(d, s, v, x) # {} /\ likePrefix(x, prefix)}}

bundleDiffs(d, s, v, prefix, completed) ==
    IF completed THEN bundleDiffsCompleted(d, s, v, prefix)
    ELSE bundleDiffsOfAssets(d, s, v, prefix)

\* Every order of S that ORDER BY bundle_path allows: the rows of one bundle
\* committed under several hashes come in any order.
OrdersByBundle(S) ==
    {f \in [1..Cardinality(S) -> S] :
        /\ \A i, j \in DOMAIN f : i # j => f[i] # f[j]
        /\ \A i, j \in DOMAIN f : i < j => LessEq(f[i].path, f[j].path)}

=============================================================================
