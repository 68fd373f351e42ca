------------------------------ MODULE ReadApi ------------------------------
(***************************************************************************)
(* The listing API (internal/httpapi: browser.go, bundles.go, versions.go) *)
(* over the metadata store, while sessions commit: clients that walk a     *)
(* listing page by page, handlers that validate a request, look in their   *)
(* response cache and otherwise run their SQL queries one after another,   *)
(* and commits that fall between any two queries.                          *)
(*                                                                         *)
(* A request has no transaction: every query sees the database of its own  *)
(* moment, so a page may mix two.  A commit is one step, because readers   *)
(* see nothing of the open transaction (AssetStore has its steps).  The    *)
(* query that completes a page, setCached and the response are one step:   *)
(* the body is fixed by then.  Method, unknown-region and nil-DB answers   *)
(* touch no state; of them only the unknown region is kept.  A query that  *)
(* fails ends its request with a 500 and changes nothing, with one         *)
(* exception that is modelled: CountCompletionsFails.                      *)
(***************************************************************************)
EXTENDS VersionDiff, ResponseCache, SequencesExt

CONSTANTS Clients,
          Scenarios,     \* what happens in one behaviour: the requests (asks) the
                         \* clients choose from, and the commits made meanwhile
          StartBatches,  \* the commits made before the first request
          MaxCommits,    \* bound on the commits made meanwhile
          DefaultLimit, MaxLimit, MaxCacheItems,
          DefaultTypes, DefaultMinMp3Size

VARIABLES scene,   \* the behaviour's scenario
          caches,  \* handler -> its response cache
          cl,      \* client -> the walk it is on
          log      \* history: the committed databases, the last one being db

apiVars == <<storeVars, scene, caches, cl, log>>

Handlers == {"browser", "bundles", "versions"}

handlerOf(ep) == CASE ep = "browse" -> "browser"
                   [] ep \in {"bundles", "bundleFiles"} -> "bundles"
                   [] OTHER -> "versions"

-----------------------------------------------------------------------------
(* Validation: a raw request becomes the parameters the handler works on.  *)

NoLimit == -1
BadLimit == 0

parseBrowseLimit(raw) == IF raw = NoLimit THEN DefaultLimit
                         ELSE IF raw < 1 THEN BadLimit
                         ELSE IF raw > MaxLimit THEN MaxLimit ELSE raw

\* bundle-diff-files drops one leading '/' and checks nothing else.
bundleDiffPath(raw) ==
    LET p == IF raw # <<>> /\ raw[1] = Slash THEN Tail(raw) ELSE raw
    IN  IF p = <<>> THEN Bad ELSE p

prefixOf(q) == CASE q.ep \in {"browse", "bundles", "bundleDiffs"} -> normalizeBrowsePrefix(q.prefix)
                 [] q.ep = "bundleFiles" -> normalizeBundlePath(q.prefix)
                 [] q.ep = "bundleDiffFiles" -> bundleDiffPath(q.prefix)
                 [] OTHER -> q.prefix

\* "<size>:<path>" splits at the first ':', which a number has not.
parseDiffCursor(raw) ==
    IF raw = <<>> THEN <<>>
    ELSE IF normalizeBrowseCursor(raw[2], <<>>) = Bad THEN Bad ELSE raw

cursorOf(q, raw) ==
    CASE q.ep \in {"browse", "bundles", "bundleDiffs"} -> normalizeBrowseCursor(raw, prefixOf(q))
      [] q.ep = "bundleFiles" -> normalizeBrowseCursor(raw, Append(prefixOf(q), Slash))
      [] q.ep = "versions" -> raw
      [] OTHER -> parseDiffCursor(raw)

parseDiffAction(raw) == CASE raw = "" -> "added"
                          [] raw = "replaced" -> "updated"
                          [] raw \in {"added", "updated", "all"} -> raw
                          [] OTHER -> "bad"

\* An absent types parameter means the default types on diff, with a size
\* floor for mp3, and every type on bundle-diff-files.  A list is a set here:
\* its order only tells cache keys apart that have the same answer.
extsOf(q) == CASE q.types.kind = "list" -> q.types.exts
               [] q.types.kind = "absent" /\ q.ep = "diff" -> DefaultTypes
               [] OTHER -> {}

minMp3Of(q) == IF q.types.kind = "absent" /\ q.ep = "diff" THEN DefaultMinMp3Size ELSE 0

params(q, raw) ==
    [ep |-> q.ep, server |-> q.server, prefix |-> prefixOf(q), version |-> q.version,
     action |-> parseDiffAction(q.action), exts |-> extsOf(q), minMp3 |-> minMp3Of(q),
     limit |-> parseBrowseLimit(q.limit), cursor |-> cursorOf(q, raw)]

isRefused(n) == n.prefix = Bad \/ n.cursor = Bad \/ n.limit = BadLimit \/ n.action = "bad"

\* Mutant: the key leaves out the revision.
keyWithoutRevision(n, revision) ==
    <<n.ep, n.server, n.prefix, n.version, n.action, n.exts, n.minMp3, n.cursor, n.limit>>

\* Mutant: the key leaves out the action.
keyWithoutAction(n, revision) ==
    <<n.ep, revision, n.server, n.prefix, n.version, n.exts, n.minMp3, n.cursor, n.limit>>

\* The parameters that each endpoint's key holds; bundle-diff-files leaves
\* out the types.
cacheKey(n, revision) ==
    CASE n.ep \in {"browse", "bundles", "bundleFiles"} ->
            <<n.ep, revision, n.server, n.prefix, n.cursor, n.limit>>
      [] n.ep = "versions" -> <<n.ep, revision, n.server, n.cursor, n.limit>>
      [] n.ep = "bundleDiffs" ->
            <<n.ep, revision, n.server, n.version, n.prefix, n.cursor, n.limit>>
      [] n.ep = "bundleDiffFiles" ->
            <<n.ep, revision, n.server, n.version, n.prefix, n.action, n.limit, n.cursor>>
      [] n.ep = "diff" ->
            <<n.ep, revision, n.server, n.version, n.action, n.exts, n.minMp3, n.limit, n.cursor>>

-----------------------------------------------------------------------------
(* Clients.  A walk asks for the first page and then for the page behind   *)
(* each nextCursor, until there is none.                                   *)

Idle == [pc |-> "idle"]

\* What identifies an item in its listing.
ItemKey(ep, e) ==
    CASE ep = "versions" -> <<e.id>>
      [] ep \in {"diff", "bundleDiffFiles"} -> <<e.size, e.path>>
      [] OTHER -> e.path

Finished(w) == w.pc \in {"idle", "refused", "notfound"} \/ (w.pc = "page" /\ w.page.next = <<>>)

Goto(c, w) == cl' = [cl EXCEPT ![c] = w]

ApiFrame == UNCHANGED <<storeVars, scene, log>>

\* One request of client c: refused, unknown, or on its way.
Request(c, q, raw, seen, last, lo, ok) ==
    LET n == params(q, raw)
    IN  /\ Goto(c, [pc |-> IF q.server \notin Servers THEN "notfound"
                           ELSE IF isRefused(n) THEN "refused" ELSE "revision",
                    q |-> q, raw |-> raw, n |-> n, key |-> <<>>, part |-> <<>>,
                    from |-> Len(log), asked |-> Len(log), seen |-> seen, last |-> last, lo |-> lo, hi |-> Len(log), ok |-> ok])
        /\ UNCHANGED caches
        /\ ApiFrame

Ask(c) == /\ Finished(cl[c])
          /\ \E q \in scene.asks : Request(c, q, <<>>, {}, {}, Len(log), TRUE)

AskNext(c) == /\ cl[c].pc = "page" /\ cl[c].page.next # <<>>
              /\ Request(c, cl[c].q, cl[c].page.next, cl[c].seen, {Last(cl[c].page.items)},
                         cl[c].lo, cl[c].ok)

\* The client has the page: its items are listed.
Received(w, page) ==
    [pc |-> "page", q |-> w.q, n |-> w.n, asked |-> w.asked, page |-> page,
     seen |-> w.seen \cup {ItemKey(w.n.ep, e) : e \in ToSet(page.items)}, last |-> w.last,
     lo |-> IF page.from < w.lo THEN page.from ELSE w.lo,
     hi |-> IF page.to > w.hi THEN page.to ELSE w.hi, ok |-> w.ok /\ page.ok]

\* writeBrowseJSON after setCached.
Respond(c, p, extra) ==
    LET w    == cl[c]
        h    == handlerOf(w.n.ep)
        page == [items |-> p.items, next |-> p.next, extra |-> extra,
                 n |-> w.n, from |-> w.from, to |-> Len(log), ok |-> w.ok]
    IN  /\ Goto(c, Received(w, page))
        /\ caches' = [caches EXCEPT ![h] = setCached(@, w.key, page, MaxCacheItems)]
        /\ ApiFrame

\* http.NotFound: nothing is cached.
RespondNotFound(c) ==
    /\ Goto(c, [cl[c] EXCEPT !.pc = "notfound", !.part = <<>>, !.key = <<>>])
    /\ UNCHANGED caches
    /\ ApiFrame

Continue(c, pc, part) ==
    /\ Goto(c, [cl[c] EXCEPT !.pc = pc, !.part = part])
    /\ UNCHANGED caches
    /\ ApiFrame

firstQuery(ep) == CASE ep = "browse" -> "seekShared"
                    [] ep = "bundles" -> "scanShared"
                    [] ep = "bundleFiles" -> "infoOverride"
                    [] ep = "versions" -> "versionRows"
                    [] OTHER -> "versionRow"

firstPart(n) == IF n.ep = "browse" THEN browseStart(n.prefix, n.cursor) ELSE <<>>

\* LatestAssetID, the key made with it, and getCached.
ReadRevision(c) ==
    LET w   == cl[c]
        h   == handlerOf(w.n.ep)
        key == cacheKey(w.n, LatestAssetID(db))
    IN  /\ w.pc = "revision"
        /\ \/ /\ getCachedOk(caches[h], key)
              /\ Goto(c, Received(w, caches[h][key].body))
              /\ UNCHANGED caches
           \/ /\ ~getCachedOk(caches[h], key)
              /\ caches' = [caches EXCEPT ![h] = getCachedDrops(@, key)]
              /\ Goto(c, [w EXCEPT !.pc = firstQuery(w.n.ep), !.part = firstPart(w.n),
                                   !.key = key, !.from = Len(log)])
        /\ ApiFrame

-----------------------------------------------------------------------------
(* The handlers' queries.                                                  *)

SeekShared(c) ==
    /\ cl[c].pc = "seekShared"
    /\ Continue(c, "seekOverride", browseShared(db, cl[c].n.prefix, cl[c].part))

SeekOverride(c) ==
    LET n    == cl[c].n
        b    == browseOverride(db, n.server, n.prefix, cl[c].part)
        next == browsePick(n.prefix, b)
    IN  /\ cl[c].pc = "seekOverride"
        /\ IF browseEmpty(b) THEN Respond(c, PageOf(b.items, n.limit), 0)
           ELSE IF Len(next.items) > n.limit
           THEN Respond(c, PageOf(next.items, n.limit), 0)
           ELSE Continue(c, "seekShared", next)

ScanSharedBundles(c) ==
    /\ cl[c].pc = "scanShared"
    /\ Continue(c, "scanOverride",
                addBundleBrowseEntries({}, cl[c].n.prefix, scanSharedBundles(db), TRUE))

ScanOverrideBundles(c) ==
    LET n       == cl[c].n
        entries == addBundleBrowseEntries(cl[c].part, n.prefix,
                                          scanOverrideBundles(db, n.server), FALSE)
    IN  /\ cl[c].pc = "scanOverride"
        /\ Respond(c, PageOf(afterCursor(entries, n.cursor), n.limit), 0)

\* Mutant: a bundle the region does not override is not found.
InfoOverrideOnly(c) ==
    /\ cl[c].pc = "infoOverride"
    /\ IF \E r \in scanOverrideBundles(db, cl[c].n.server) : r.path = cl[c].n.prefix
       THEN Continue(c, "filesShared", [info |-> {}, entries |-> {}])
       ELSE RespondNotFound(c)

\* lookupBundleInfo: the region's own aggregate first, the shared one second.
InfoOverride(c) ==
    LET n    == cl[c].n
        info == {r.files : r \in {x \in scanOverrideBundles(db, n.server) : x.path = n.prefix}}
    IN  /\ cl[c].pc = "infoOverride"
        /\ IF info = {} THEN Continue(c, "infoShared", <<>>)
           ELSE Continue(c, "filesShared", [info |-> info, entries |-> {}])

InfoShared(c) ==
    LET info == {r.files : r \in {x \in scanSharedBundles(db) : x.path = cl[c].n.prefix}}
    IN  /\ cl[c].pc = "infoShared"
        /\ IF info = {} THEN RespondNotFound(c)
           ELSE Continue(c, "filesShared", [info |-> info, entries |-> {}])

FilesShared(c) ==
    /\ cl[c].pc = "filesShared"
    /\ Continue(c, "filesOverride",
                [cl[c].part EXCEPT !.entries =
                    addBundleFileEntries(@, SharedRows(db), cl[c].n.prefix, TRUE)])

FilesOverride(c) ==
    LET n       == cl[c].n
        entries == addBundleFileEntries(cl[c].part.entries, OverrideRows(db, n.server),
                                        n.prefix, FALSE)
    IN  /\ cl[c].pc = "filesOverride"
        /\ Respond(c, PageOf(afterCursor(entries, n.cursor), n.limit), cl[c].part.info)

VersionRows(c) ==
    LET n == cl[c].n
    IN  /\ cl[c].pc = "versionRows"
        /\ Continue(c, "versionCounts",
                    PageWith(versionPage(db, n.server, IF n.cursor = <<>> THEN 0 ELSE n.cursor[1]),
                             n.limit, VersionCursor))

VersionCounts(c) ==
    /\ cl[c].pc = "versionCounts"
    /\ Respond(c, [cl[c].part EXCEPT !.items = fillChangedAssetCounts(db, cl[c].n.server, @)], 0)

FindVersion(c) ==
    LET n == cl[c].n
    IN  /\ cl[c].pc = "versionRow"
        /\ IF ~VersionKnown(db, n.server, n.version) THEN RespondNotFound(c)
           ELSE Continue(c, IF n.ep = "bundleDiffs" THEN "completions" ELSE "diffCount", <<>>)

DiffIds(d, n) ==
    diffIds(d, n.server, n.version,
            IF n.ep = "diff" THEN Bundles \cup {NoBundle} ELSE {n.prefix},
            n.action, n.exts, n.minMp3)

DiffCount(c) ==
    /\ cl[c].pc = "diffCount"
    /\ Continue(c, "diffPage", Cardinality(DiffIds(db, cl[c].n)))

DiffPage(c) ==
    LET n == cl[c].n
    IN  /\ cl[c].pc = "diffPage"
        /\ Respond(c, PageWith(diffPage(db, DiffIds(db, n), n.cursor), n.limit, DiffCursor), cl[c].part)

CountCompletions(c) ==
    /\ cl[c].pc = "completions"
    /\ Continue(c, "bundleDiffCount",
                [completed |-> versionCompletions(db, cl[c].n.server, cl[c].n.version) # {},
                 total |-> 0])

\* The count's error is dropped: count stays 0, as if there were none.
CountCompletionsFails(c) ==
    /\ cl[c].pc = "completions"
    /\ Goto(c, [cl[c] EXCEPT !.pc = "bundleDiffCount", !.ok = FALSE,
                             !.part = [completed |-> FALSE, total |-> 0]])
    /\ UNCHANGED caches
    /\ ApiFrame

BundleDiffs(d, n, completed) == bundleDiffs(d, n.server, n.version, n.prefix, completed)

BundleDiffCount(c) ==
    /\ cl[c].pc = "bundleDiffCount"
    /\ Continue(c, "bundleDiffPage",
                [cl[c].part EXCEPT !.total = Cardinality(BundleDiffs(db, cl[c].n, cl[c].part.completed))])

BundleDiffPage(c) ==
    LET n    == cl[c].n
        rest == {e \in BundleDiffs(db, n, cl[c].part.completed) :
                    n.cursor # <<>> => Less(n.cursor, e.path)}
    IN  /\ cl[c].pc = "bundleDiffPage"
        /\ \E rows \in OrdersByBundle(rest) :
              Respond(c, PageOf(rows, n.limit), cl[c].part.total)

-----------------------------------------------------------------------------
(* Commits, time, and the whole.                                           *)

commitBatch(d, b) ==
    LET d1 == InsertVersion(d, b.server, b.version, b.hash)
        d2 == FoldLeft(InsertAsset, d1, b.rows)
    IN  MarkReadIndexCurrent(FoldLeft(InsertBundleCompletion, d2, b.completions))

\* A commit that changes nothing is no step.
Commit(b) ==
    /\ Len(log) <= MaxCommits
    /\ db' = commitBatch(db, b)
    /\ db' # db
    /\ work' = db'
    /\ log' = Append(log, db')
    /\ UNCHANGED <<tx, up, scene, caches, cl>>

Expire(h, key) ==
    /\ caches[h][key].fresh
    /\ caches' = [caches EXCEPT ![h] = expire(@, key)]
    /\ UNCHANGED cl
    /\ ApiFrame

Walk(c) ==
    \/ AskNext(c)
    \/ ReadRevision(c)
    \/ SeekShared(c) \/ SeekOverride(c)
    \/ ScanSharedBundles(c) \/ ScanOverrideBundles(c)
    \/ InfoOverride(c) \/ InfoShared(c) \/ FilesShared(c) \/ FilesOverride(c)
    \/ VersionRows(c) \/ VersionCounts(c)
    \/ FindVersion(c) \/ DiffCount(c) \/ DiffPage(c)
    \/ CountCompletions(c) \/ BundleDiffCount(c) \/ BundleDiffPage(c)
    \/ CountCompletionsFails(c)

ApiInit ==
    /\ db = FoldLeft(commitBatch, EmptyDb, StartBatches)
    /\ work = db /\ tx = NoTx /\ up = TRUE
    /\ scene \in Scenarios
    /\ caches = [h \in Handlers |-> EmptyCache]
    /\ cl = [c \in Clients |-> Idle]
    /\ log = <<db>>

ApiNext ==
    \/ \E c \in Clients : Ask(c)
    \/ \E c \in Clients : Walk(c)
    \/ \E b \in scene.commits : Commit(b)
    \/ \E h \in Handlers : \E key \in DOMAIN caches[h] : Expire(h, key)

ApiSpec == ApiInit /\ [][ApiNext]_apiVars

\* A request goroutine runs on, and a client that walks asks for the next
\* page: weak fairness of Walk(c), which is enabled until the walk finishes
\* and is all that changes cl[c] until then.  Written without ENABLED, whose
\* evaluation of every query in every state is too slow.
FairApiSpec ==
    ApiSpec /\ \A c \in Clients : []<>Finished(cl[c]) \/ []<><<~Finished(cl[c])>>_(cl[c])

-----------------------------------------------------------------------------
(* What an answer should be.                                               *)

\* A file is added by the region's first row of its path, updated by any other.
DiffReference(d, n) ==
    LET rows     == {d.assets[i] : i \in DOMAIN d.assets}
        first(r) == r = OldestOf(d, IdsAt(d, r.server, r.path))
        asked(r) == /\ r.server = n.server /\ r.version = n.version
                    /\ n.ep = "bundleDiffFiles" => r.bundle = n.prefix
                    /\ n.action = "added" => first(r)
                    /\ n.action = "updated" => ~first(r)
                    /\ n.exts # {} =>
                         \E x \in n.exts : /\ IsSuffix(<<Dot>> \o x, r.path)
                                           /\ x = Mp3 => size(r) >= n.minMp3
    IN  {[path |-> r.path, size |-> size(r), row |-> r, existed |-> ~first(r)] :
            r \in {x \in rows : asked(x)}}

\* The completions of the version, one per bundle and hash, or its bundles
\* when it has none.  A prefix with '%' or '_' lists nothing.
BundleDiffReference(d, n) ==
    LET files(b) == {d.assets[i] : i \in {j \in DOMAIN d.assets : /\ d.assets[j].server = n.server
                                                                  /\ d.assets[j].version = n.version
                                                                  /\ d.assets[j].bundle = b}}
        done     == {c \in d.completions : c.server = n.server /\ c.version = n.version}
        all      == IF done = {}
                    THEN {[path |-> b, hash |-> NoFp, fp |-> NoFp, source |-> "uploaded",
                           files |-> files(b)] : b \in {x \in Bundles : files(x) # {}}}
                    ELSE {[path |-> c.bundle, hash |-> c.hash, fp |-> c.fp, source |-> c.source,
                           files |-> files(c.bundle)] : c \in done}
    IN  {e \in all : HasPrefix(e.path, n.prefix) /\ {37, 95} \cap ToSet(n.prefix) = {}}

\* The listing a request names, of the whole database d.
Reference(d, n) ==
    CASE n.ep = "browse" -> BrowseReference(d, n.server, n.prefix)
      [] n.ep = "bundles" -> BundleReference(d, n.server, n.prefix)
      [] n.ep = "bundleFiles" -> BundleFilesReference(d, n.server, n.prefix)
      [] n.ep = "versions" ->
            {[id |-> i, version |-> d.versions[n.server][i].version,
              hash |-> d.versions[n.server][i].hash,
              changed |-> Cardinality({p \in Paths : \E j \in IdsAt(d, n.server, p) :
                              d.assets[j].version = d.versions[n.server][i].version})] :
                i \in DOMAIN d.versions[n.server]}
      [] n.ep \in {"diff", "bundleDiffFiles"} -> DiffReference(d, n)
      [] n.ep = "bundleDiffs" -> BundleDiffReference(d, n)

Known(d, n) ==
    CASE n.ep = "bundleFiles" ->
            n.prefix \in Bundles /\ OverrideGroup(d, n.server, n.prefix) \cup SharedGroup(d, n.prefix) # {}
      [] n.ep \in {"diff", "bundleDiffs", "bundleDiffFiles"} -> VersionKnown(d, n.server, n.version)
      [] OTHER -> TRUE

\* The order a listing promises.
Before(ep, x, y) ==
    CASE ep = "versions" -> x.id > y.id
      [] ep \in {"diff", "bundleDiffFiles"} -> BySizeThenPath(x, y)
      [] OTHER -> Less(x.path, y.path)

AfterCursor(n, e) ==
    n.cursor # <<>> =>
        CASE n.ep = "versions" -> e.id < n.cursor[1]
          [] n.ep \in {"diff", "bundleDiffFiles"} ->
                BySizeThenPath([size |-> n.cursor[1], path |-> n.cursor[2]], e)
          [] OTHER -> Less(n.cursor, e.path)

-----------------------------------------------------------------------------
(* Properties.                                                             *)

Answered(w) == w.pc = "page"

\* A page is right: when no commit fell into the request that computed it
\* and the count whose error is dropped did not fail,
\* it is the first limit entries, behind the cursor, of what the read path
\* serves and the history records, it has a cursor exactly when more follow,
\* and its total counts the whole listing (BrowseCurrent, BrowseBundles,
\* BundleFiles, ListVersions, DiffVersion, DiffVersionBundles,
\* DiffBundleFiles).
PageExact ==
    \A c \in Clients : (Answered(cl[c]) /\ cl[c].page.ok /\ cl[c].page.from = cl[c].page.to) =>
        LET page == cl[c].page
            n    == page.n
            d    == log[page.from]
            rest == {e \in Reference(d, n) : AfterCursor(n, e)}
            its  == page.items
        IN  /\ Known(d, n)
            /\ ToSet(its) \subseteq rest /\ Cardinality(ToSet(its)) = Len(its)
            /\ \A i, j \in DOMAIN its : i < j => ~Before(n.ep, its[j], its[i])
            /\ \A e \in rest \ ToSet(its), i \in DOMAIN its : ~Before(n.ep, e, its[i])
            /\ Len(its) <= n.limit
            /\ (page.next # <<>>) = (Len(its) < Cardinality(rest))
            /\ page.next # <<>> => Len(its) = n.limit
            /\ n.ep \in {"diff", "bundleDiffs", "bundleDiffFiles"} =>
                  page.extra = Cardinality(Reference(d, n))

\* A walk goes forward: over all its pages, cached or computed, whatever is
\* committed meanwhile, items come in the listing's order and none comes
\* twice, each page behind the last item of the page before.  Only
\* bundle-diffs may name a bundle again, on the same page, once per hash.
WalkInOrder ==
    \A c \in Clients : Answered(cl[c]) =>
        LET w    == cl[c]
            its  == w.page.items
            fits(x, y) == \/ Before(w.n.ep, x, y)
                          \/ w.n.ep = "bundleDiffs" /\ x.path = y.path /\ x.hash # y.hash
        IN  /\ \A i, j \in DOMAIN its : i < j => fits(its[i], its[j])
            /\ \A x \in w.last, i \in DOMAIN its : Before(w.n.ep, x, its[i])

\* A finished walk misses nothing: what the listing had in every database
\* since the oldest one a page was computed from has been listed, although
\* pages and even the two tables of one page were read at different times
\* (unless a dropped error hid the completions).
NothingMissed ==
    \A c \in Clients : (Answered(cl[c]) /\ cl[c].ok /\ cl[c].page.next = <<>>) =>
        LET w       == cl[c]
            keys(e) == {ItemKey(w.n.ep, x) : x \in Reference(log[e], w.n)}
        IN  \A k \in keys(w.lo) :
                (\A e \in w.lo..w.hi : k \in keys(e)) => k \in w.seen

\* A 404 is true at some moment of the request: the bundle or the version
\* was unknown in one of the databases its queries saw, even when the bundle
\* moves between the override and the shared table meanwhile.
NotFoundIsTrue ==
    \A c \in Clients : (cl[c].pc = "notfound" /\ cl[c].q.server \in Servers) =>
        \E e \in cl[c].from..Len(log) : ~Known(log[e], cl[c].n)

\* An answer older than its request comes from the cache, and only when no
\* commit in between minted an asset id: the key holds MAX(id), which an
\* upsert or a commit of versions and completions alone leaves as it is.
StaleOnlyWithoutNewId ==
    \A c \in Clients : Answered(cl[c]) =>
        LatestAssetID(log[cl[c].asked]) <= LatestAssetID(log[cl[c].page.from])

\* An answer is one to the request that gets it: no two requests that ask
\* for different things share a cache key.
OwnAnswer == \A c \in Clients : Answered(cl[c]) => cl[c].page.n = cl[c].n

\* A cursor the API gave out is taken back, with one exception: bundle-files
\* wants it under "<bundle>/", and the only file of a bundle that is not
\* there is the one whose path is the bundle path.
OwnCursorAccepted ==
    \A c \in Clients : (cl[c].pc = "refused" /\ cl[c].raw # <<>>) =>
        cl[c].n.ep = "bundleFiles" /\ cl[c].raw = cl[c].n.prefix

\* Every walk ends, with its last page or an error: each page moves the
\* cursor on, and no chain of nextCursors goes round.
WalkEnds == \A c \in Clients : (cl[c].pc = "revision") ~> Finished(cl[c])

=============================================================================
