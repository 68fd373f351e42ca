------------------------------ MODULE ReadPath ------------------------------
(***************************************************************************)
(* The read path GET /sekai-{server}-assets/{path} (internal/httpapi):     *)
(* request goroutines that look a placement up in the LookupCache or, on a *)
(* miss, in SQLite with the separate queries of store.LookupPlacement, and *)
(* then fill the cache; against COMMIT transactions of AssetStore, whose   *)
(* session invalidates the changed paths after tx.Commit has returned.     *)
(*                                                                         *)
(* Bundle completions, which readers never see, are left to HipIngest; so  *)
(* is the object behind the storage key.                                   *)
(***************************************************************************)
EXTENDS AssetStore, LookupCache

CONSTANTS Readers,    \* request goroutines
          MaxCommits  \* bound: commits with changed paths

VARIABLES cache,    \* the lookup cache
          rd,       \* reader -> its request
          changed,  \* changedPaths of the session inside COMMIT
          unswept,  \* changed paths of sessions between tx.Commit and InvalidatePaths
          commits   \* commits so far

readVars == <<storeVars, cache, rd, changed, unswept, commits>>

ASSUME ReadersAssumption == MaxCommits \in Nat

Placement == [row : Row \cup {NoRow}, shared : BOOLEAN]
Entry == [key : Servers \X Paths, value : Placement, left : 0..Ttl, raced : BOOLEAN]

Idle == [op |-> "idle"]

\* seen is a history variable: every placement that SQLite held for the
\* request's key since its lookup began.
Request == [op : {"current", "shared", "legacyCurrent", "legacyShared"},
            s : Servers, p : Paths, seen : SUBSET Placement]
Answer == [op : {"set", "respond"},
           s : Servers, p : Paths, seen : SUBSET Placement, place : Placement]

Looking(r) == rd[r].op \notin {"idle", "respond"}

-----------------------------------------------------------------------------
(* One request.                                                            *)

ReaderFrame == UNCHANGED <<storeVars, changed, unswept, commits>>

Goto(r, q) == rd' = [rd EXCEPT ![r] = q]

Request0(s, p) == [op |-> "current", s |-> s, p |-> p, seen |-> {LookupPlacement(db, s, p)}]

\* The cache lookup of ServeHTTP.
ServeHTTP(r, s, p) ==
    /\ up /\ rd[r] = Idle
    /\ cache' = Get(cache, cacheKey(s, p))
    /\ IF Hit(cache, cacheKey(s, p))
       THEN Goto(r, [op |-> "respond", s |-> s, p |-> p, seen |-> {},
                     place |-> EntryOf(cache, cacheKey(s, p)).value])
       ELSE Goto(r, Request0(s, p))
    /\ ReaderFrame

Found(r, row, shared) ==
    Goto(r, [op |-> "set", s |-> rd[r].s, p |-> rd[r].p, seen |-> rd[r].seen,
             place |-> [row |-> row, shared |-> shared]])

Query(r, op) == up /\ rd[r].op = op /\ UNCHANGED cache /\ ReaderFrame

\* Mutant: a current row that is no override ends the lookup.
QueryCurrentStops(r) ==
    /\ Query(r, "current")
    /\ LET c == db.current[<<rd[r].s, rd[r].p>>]
       IN  IF c = NoRow THEN Goto(r, [rd[r] EXCEPT !.op = "shared"])
           ELSE IF c.override THEN Found(r, c, FALSE) ELSE Found(r, NoRow, FALSE)

\* The four queries of LookupPlacement, each on the database of its moment.
QueryCurrent(r) ==
    /\ Query(r, "current")
    /\ LET c == db.current[<<rd[r].s, rd[r].p>>]
       IN  IF IsOverride(c) THEN Found(r, c, FALSE)
           ELSE Goto(r, [rd[r] EXCEPT !.op = "shared"])

QueryShared(r) ==
    /\ Query(r, "shared")
    /\ LET c == db.currentShared[rd[r].p]
       IN  IF c # NoRow THEN Found(r, c, TRUE)
           ELSE Goto(r, [rd[r] EXCEPT !.op = "legacyCurrent"])

QueryLegacyCurrent(r) ==
    /\ Query(r, "legacyCurrent")
    /\ LET c == CurrentByServerPath(db, rd[r].s, rd[r].p)
       IN  IF IsOverride(c) THEN Found(r, c, FALSE)
           ELSE Goto(r, [rd[r] EXCEPT !.op = "legacyShared"])

QueryLegacyShared(r) ==
    /\ Query(r, "legacyShared")
    /\ LET c == CurrentSharedByPath(db, rd[r].p) IN Found(r, c, c # NoRow)

\* A query fails: 500, nothing is cached.
LookupFails(r) ==
    /\ up /\ Looking(r) /\ rd[r].op # "set"
    /\ Goto(r, Idle)
    /\ UNCHANGED cache
    /\ ReaderFrame

\* Mutant: the key forgets the region.
FillAnyServer(r) ==
    /\ up /\ rd[r].op = "set"
    /\ cache' = IF rd[r].place.row = NoRow THEN cache
                ELSE Set(cache, [key |-> cacheKey(CHOOSE s \in Servers : TRUE, rd[r].p),
                                 value |-> rd[r].place, left |-> Ttl,
                                 raced |-> rd[r].seen # {rd[r].place}])
    /\ Goto(r, [rd[r] EXCEPT !.op = "respond"])
    /\ ReaderFrame

\* Cache.Set; only found placements are cached.  raced is a history variable:
\* a commit moved the placement while the request was looking.
Fill(r) ==
    /\ up /\ rd[r].op = "set"
    /\ cache' = IF rd[r].place.row = NoRow THEN cache
                ELSE Set(cache, [key |-> cacheKey(rd[r].s, rd[r].p),
                                 value |-> rd[r].place, left |-> Ttl,
                                 raced |-> rd[r].seen # {rd[r].place}])
    /\ Goto(r, [rd[r] EXCEPT !.op = "respond"])
    /\ ReaderFrame

\* 404, 304, or the object: the rest of ServeHTTP changes no state here.
Respond(r) ==
    /\ up /\ rd[r].op = "respond"
    /\ Goto(r, Idle)
    /\ UNCHANGED cache
    /\ ReaderFrame

-----------------------------------------------------------------------------
(* COMMIT as readers see it, and the process.                              *)

BeginCommit(s, v, h) ==
    /\ commits < MaxCommits
    /\ Begin(s, v, h)
    /\ UNCHANGED <<cache, rd, changed, unswept, commits>>

PutRow(a) ==
    /\ Put(a) /\ HasRoom(a)
    /\ changed' = changed \cup {a.path}
    /\ UNCHANGED <<cache, rd, unswept, commits>>

\* tx.Commit returns; the session still has its paths to invalidate.
CommitReturns ==
    /\ CommitTx
    /\ changed' = {}
    /\ unswept' = IF changed = {} THEN unswept ELSE Append(unswept, changed)
    /\ rd' = [r \in Readers |->
                IF Looking(r)
                THEN [rd[r] EXCEPT !.seen = @ \cup {LookupPlacement(db', rd[r].s, rd[r].p)}]
                ELSE rd[r]]
    /\ commits' = commits + 1
    /\ UNCHANGED cache

RollbackCommit ==
    /\ Rollback
    /\ changed' = {}
    /\ UNCHANGED <<cache, rd, unswept, commits>>

Invalidate(i) ==
    /\ i \in DOMAIN unswept
    /\ cache' = InvalidatePaths(cache, unswept[i])
    /\ unswept' = SubSeq(unswept, 1, i - 1) \o SubSeq(unswept, i + 1, Len(unswept))
    /\ UNCHANGED <<storeVars, rd, changed, commits>>

Tick ==
    /\ \E i \in DOMAIN cache : cache[i].left > 0
    /\ cache' = Age(cache)
    /\ UNCHANGED <<storeVars, rd, changed, unswept, commits>>

StopProcess ==
    /\ Crash
    /\ cache' = <<>>
    /\ rd' = [r \in Readers |-> Idle]
    /\ changed' = {}
    /\ unswept' = <<>>
    /\ UNCHANGED commits

StartProcess == Boot /\ UNCHANGED <<cache, rd, changed, unswept, commits>>

ReadInit ==
    /\ StoreInit
    /\ cache = <<>>
    /\ rd = [r \in Readers |-> Idle]
    /\ changed = {}
    /\ unswept = <<>>
    /\ commits = 0

LookupStep(r) == QueryCurrent(r) \/ QueryShared(r) \/ QueryLegacyCurrent(r)
                 \/ QueryLegacyShared(r) \/ LookupFails(r) \/ Fill(r) \/ Respond(r)

ReadNext ==
    \/ \E r \in Readers, s \in Servers, p \in Paths : ServeHTTP(r, s, p)
    \/ \E r \in Readers : LookupStep(r)
    \/ \E s \in Servers, v \in Versions, h \in Hashes : BeginCommit(s, v, h)
    \/ \E a \in PutRows : PutRow(a)
    \/ CommitReturns
    \/ RollbackCommit
    \/ \E i \in DOMAIN unswept : Invalidate(i)
    \/ Tick
    \/ StopProcess
    \/ StartProcess

ReadSpec == ReadInit /\ [][ReadNext]_readVars

\* A request goroutine and a session past tx.Commit run on; time passes.
Fairness ==
    /\ \A r \in Readers : WF_readVars(LookupStep(r))
    /\ WF_readVars(\E i \in DOMAIN unswept : Invalidate(i))
    /\ WF_readVars(Tick)

FairReadSpec == ReadSpec /\ Fairness

-----------------------------------------------------------------------------
(* Properties.                                                             *)

CacheOK(c) ==
    /\ c \in Seq(Entry) /\ Len(c) <= MaxItems
    /\ \A i, j \in DOMAIN c : c[i].key = c[j].key => i = j
    /\ \A i \in DOMAIN c : c[i].value.row # NoRow

\* The cache is a list of found placements, at most maxItems of them and at
\* most one per key, however Get, Set, eviction and invalidation interleave.
ReadTypeOK ==
    /\ StoreTypeOK
    /\ CacheOK(cache)
    /\ rd \in [Readers -> {Idle} \cup Request \cup Answer]
    /\ changed \subseteq Paths
    /\ unswept \in Seq(SUBSET Paths)
    /\ commits \in 0..MaxCommits

Unswept == UNION {unswept[i] : i \in DOMAIN unswept}

Fresh1(e) == e.left > 0 => e.value = LookupPlacement(db, e.key[1], e.key[2])

\* Invalidation is complete: a cached answer that SQLite no longer gives is
\* either about to be invalidated or was put there by a request that a commit
\* overtook.  A commit of one region moves the shared baseline of all of them,
\* so InvalidatePaths has to drop every server's entry of a changed path.
StaleOnlyByRace ==
    \A i \in DOMAIN cache :
        \/ Fresh1(cache[i])
        \/ cache[i].key[2] \in Unswept
        \/ cache[i].raced

\* A stale answer does not stay: a hit does not renew an entry, so when
\* commits stop the cache ends up agreeing with SQLite for good.
StaleEnds == <>[](\A i \in DOMAIN cache : Fresh1(cache[i]))

\* No false 404: a request whose key had a placement all along finds one,
\* although its queries may straddle commits.
LookupFinds ==
    \A r \in Readers : rd[r].op = "set" /\ rd[r].place.row = NoRow =>
        \E x \in rd[r].seen : x.row = NoRow

\* A region is never answered with another region's override, from the cache
\* or from SQLite.
RegionIsolation ==
    \A r \in Readers : rd[r].op = "respond" /\ IsOverride(rd[r].place.row) =>
        rd[r].place.row.server = rd[r].s /\ ~rd[r].place.shared

-----------------------------------------------------------------------------
(* The inductive invariant behind the safety properties.                   *)

\* The rows of current_shared_assets are no overrides.
SharedPlain(d) == \A p \in Paths : ~IsOverride(d.currentShared[p])

\* The open transaction has touched the changed paths only, and taken no
\* baseline away.
ChangedOnly ==
    \A p \in Paths :
        /\ db.currentShared[p] # NoRow => work.currentShared[p] # NoRow
        /\ p \notin changed =>
              /\ work.currentShared[p] = db.currentShared[p]
              /\ \A s \in Servers : work.current[<<s, p>>] = db.current[<<s, p>>]

\* Placement x may answer region s.
IsolatedAnswer(x, s) == IsOverride(x.row) => x.row.server = s /\ ~x.shared

\* Request q has seen SQLite without a placement.
SawNothing(q) == \E x \in q.seen : x.row = NoRow

\* What holds of a request by the query it has reached.
LookupInv(q) ==
    /\ q.op \notin {"idle", "respond"} => LookupPlacement(db, q.s, q.p) \in q.seen
    /\ q.op = "shared" => SawNothing(q) \/ db.currentShared[q.p] # NoRow
    /\ q.op \in {"legacyCurrent", "legacyShared"} => SawNothing(q)
    /\ q.op = "set" /\ q.place.row = NoRow => SawNothing(q)
    /\ q.op \in {"set", "respond"} => IsolatedAnswer(q.place, q.s)

ReadInv ==
    /\ ReadTypeOK
    /\ ~up => cache = <<>> /\ unswept = <<>> /\ rd = [r \in Readers |-> Idle]
    /\ tx # NoTx => commits < MaxCommits /\ ChangedOnly
    /\ SharedPlain(db) /\ SharedPlain(work)
    /\ \A r \in Readers : LookupInv(rd[r])
    /\ \A i \in DOMAIN cache : IsolatedAnswer(cache[i].value, cache[i].key[1])
    /\ StaleOnlyByRace

=============================================================================
