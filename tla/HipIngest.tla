----------------------------- MODULE HipIngest ------------------------------
(***************************************************************************)
(* HIP/1 ingest sessions (internal/hipserver) over the metadata store of   *)
(* AssetStore and the SeaweedFS filer.  A session is one connection; its   *)
(* single reader goroutine handles one frame at a time, so a handler is a  *)
(* sequence of steps, cut where it touches state other sessions share: one *)
(* step per query of CheckBundle and CheckPath, per filer update and per   *)
(* statement of the COMMIT transaction.  job is the handler's continuation.*)
(*                                                                         *)
(* Clients are the environment: they send frames about the files they      *)
(* offer in any order, corrupt bytes, disconnect, and retry as another     *)
(* session.  A bundle's fingerprint is the fingerprint of its files, as    *)
(* the updater sends it.  Bytes are their hash.  Every SQL statement and   *)
(* filer call may fail.                                                    *)
(***************************************************************************)
EXTENDS AssetStore, FiniteSets

CONSTANTS Sessions,     \* connections
          Streams,      \* upload stream ids
          ServerOf,     \* session -> HELLO.region
          VersionOf,    \* session -> HELLO.asset_version
          HashOf,       \* session -> HELLO.asset_hash
          RunOf,        \* session -> HELLO.run_id
          Offers,       \* session -> the files its client has to publish
          Declared,     \* session -> COMMIT.completed_bundles
          MaxPending,   \* bound: rows a client stages that uploads files again and again
          MaxLeaks,     \* bound: tmp objects whose deletion failed
          MaxCrashes    \* bound: process crashes

VARIABLES state,      \* session -> protocol state
          job,        \* session -> continuation of the frame being handled
          uploads,    \* session -> stream -> in-flight upload
          pending,    \* session -> rows to insert on COMMIT
          sharedReuse,\* session -> cross-region reuse entries
          bundles,    \* session -> checked bundle entries
          filer,      \* storage key -> hash of the object, NoSha if absent
          client,     \* session -> what the acks told the client
          published,  \* region -> the last session whose complete offer committed
          leaked,     \* tmp keys a failed Delete left behind
          crashes     \* crashes so far

sessVars == <<state, job, uploads, pending, sharedReuse, bundles, client>>
hipVars == <<storeVars, sessVars, filer, leaked, published, crashes>>

File == [bundle : Bundles, path : Paths, fp : Fps, sha : Shas]
Item == [bundle : Bundles, fp : Fps]

ASSUME SessionsAssumption ==
    /\ ServerOf \in [Sessions -> Servers]
    /\ VersionOf \in [Sessions -> Versions]
    /\ HashOf \in [Sessions -> Hashes]
    /\ Offers \in [Sessions -> SUBSET File]
    /\ \A z \in Sessions : Declared[z] \subseteq
         [bundle : Bundles, fp : Fps, source : Sources]
    /\ MaxPending \in Nat /\ MaxLeaks \in Nat /\ MaxCrashes \in Nat

SharedKey(p) == <<"shared-assets", p>>
OverrideKey(s, p) == <<"overrides", s, p>>
TempKey(run, stream) == <<"tmp", run, stream>>

TempKeys == {TempKey(RunOf[z], m) : z \in Sessions, m \in Streams}

\* Rows point at final keys only; the filer also holds the tmp keys.
ASSUME KeysAssumption ==
    /\ \A p \in Paths : SharedKey(p) \in Keys
    /\ \A s \in Servers, p \in Paths : OverrideKey(s, p) \in Keys
    /\ Keys \cap TempKeys = {}
    /\ NoSha \notin Shas

NoUpload == [op |-> "none"]
Upload == [op : {"upload"}, file : File, placement : {"SHARED", "OVERRIDE"},
           sha : Shas \cup {NoSha}]

Idle == [op |-> "idle"]

BundleEntry == [bundle : Bundles, fp : Fps, source : Sources, reuse : BOOLEAN]
ReuseEntry == [bundle : Bundles, path : Paths, fp : Fps, key : Keys]

Items(z) == {[bundle |-> f.bundle, fp |-> f.fp] : f \in Offers[z]}

-----------------------------------------------------------------------------
(* Session memory.                                                         *)

\* Mutant: a later CHECK forgets that the bundle is a cross-region reuse.
rememberForgets(es, b, f, source, reuse) ==
    {e \in es : ~(e.bundle = b /\ e.fp = f)}
    \cup {[bundle |-> b, fp |-> f, source |-> source, reuse |-> FALSE]}

\* source is the source COMMIT will record: once a file of the bundle was
\* uploaded (the uploaded flag) it stays "uploaded".
rememberCheckedBundle(es, b, f, source, reuse) ==
    LET old == {e \in es : e.bundle = b /\ e.fp = f}
    IN  (es \ old) \cup
        {[bundle |-> b, fp |-> f,
          source |-> IF \E e \in old : e.source = "uploaded" THEN "uploaded" ELSE source,
          reuse  |-> reuse \/ \E e \in old : e.reuse]}

markBundleUploaded(es, b, f) ==
    LET old == {e \in es : e.bundle = b /\ e.fp = f}
    IN  (es \ old) \cup {[bundle |-> b, fp |-> f, source |-> "uploaded",
                          reuse |-> \E e \in old : e.reuse]}

rememberSharedReuse(rs, file, key) ==
    {r \in rs : ~(r.path = file.path /\ r.fp = file.fp)}
    \cup {[bundle |-> file.bundle, path |-> file.path, fp |-> file.fp, key |-> key]}

\* The key of the first pending row with these bytes, NoSha if there is none.
pendingStorageKeyBySHA(rows, sha) ==
    LET ids == {i \in DOMAIN rows : rows[i].sha = sha}
    IN  IF ids = {} THEN NoSha
        ELSE rows[CHOOSE i \in ids : \A j \in ids : i <= j].key

bundleCompletionSourceRank(source) ==
    CASE source = "uploaded" -> 3 [] source = "check_skip" -> 2 [] source = "zero_file" -> 1

\* mergeBundleCompletion keeps one completion per bundle, of highest rank; a
\* tie goes to the later one, and the client's own list comes last.  Entries of
\* one rank come in map order, so any of them may be the later one.
Merges(z) ==
    LET Best(cs, b) == {c \in cs : /\ c.bundle = b
                                   /\ \A o \in cs : o.bundle = b =>
                                        bundleCompletionSourceRank(o.source)
                                        <= bundleCompletionSourceRank(c.source)}
        own == {[bundle |-> e.bundle, fp |-> e.fp, source |-> e.source] : e \in bundles[z]}
        all == own \cup Declared[z]
        last(b) == IF Best(all, b) \cap Declared[z] # {}
                   THEN Best(all, b) \cap Declared[z] ELSE Best(all, b)
    IN  {C \in SUBSET all :
           \A b \in Bundles : IF last(b) = {} THEN C \cap {c \in all : c.bundle = b} = {}
                             ELSE \E c \in last(b) : {d \in C : d.bundle = b} = {c}}

completionOf(z, c) == [server |-> ServerOf[z], version |-> VersionOf[z], hash |-> HashOf[z],
                       bundle |-> c.bundle, fp |-> c.fp, source |-> c.source]

-----------------------------------------------------------------------------
(* What the steps share.                                                   *)

Ready(z) == up /\ job[z] = Idle

Uploading(z) == {m \in Streams : uploads[z][m] # NoUpload}

Continue(z, j) == job' = [job EXCEPT ![z] = j]

\* Delete of a tmp key that holds x in f; best effort, its error is dropped.
DeleteTmp(f, k, x) ==
    \/ /\ filer' = [f EXCEPT ![k] = NoSha]
       /\ leaked' = leaked \ {k}
    \/ /\ Cardinality(leaked) < MaxLeaks
       /\ filer' = [f EXCEPT ![k] = x]
       /\ leaked' = leaked \cup {k}

\* abort tears down the PUT of a stream, whose bytes never become an object,
\* and deletes its tmp key, at which another session of the run may have one;
\* best effort: the deletions in keys \ gone fail.
AbortTmp(keys) ==
    \E gone \in SUBSET keys :
        /\ filer' = [k \in DOMAIN filer |-> IF k \in gone THEN NoSha ELSE filer[k]]
        /\ leaked' = leaked \ gone

abortAllUploads(z) == AbortTmp({TempKey(RunOf[z], m) : m \in Uploading(z)})

\* The read loop ends: EOF, BYE, a fatal error of either side, a failed send,
\* or the watchdog closing the connection.  The session's memory is dropped.
Close(z) ==
    /\ abortAllUploads(z)
    /\ state' = [state EXCEPT ![z] = "closed"]
    /\ Continue(z, Idle)
    /\ uploads' = [uploads EXCEPT ![z] = [m \in Streams |-> NoUpload]]
    /\ pending' = [pending EXCEPT ![z] = <<>>]
    /\ sharedReuse' = [sharedReuse EXCEPT ![z] = {}]
    /\ bundles' = [bundles EXCEPT ![z] = {}]
    /\ client' = [client EXCEPT ![z] = [skip |-> {}, done |-> {}]]
    /\ UNCHANGED <<published, crashes>>

dropInflight(z, m) == uploads' = [uploads EXCEPT ![z][m] = NoUpload]

AckDone(z, file) == client' = [client EXCEPT ![z].done = @ \cup {file}]

-----------------------------------------------------------------------------
(* HELLO and CHECK_BATCH (one item; a batch is a run of items).            *)

handleHello(z) ==
    /\ Ready(z) /\ state[z] = "handshake"
    /\ state' = [state EXCEPT ![z] = "handshaked"]
    /\ UNCHANGED <<storeVars, job, uploads, pending, sharedReuse, bundles, client,
                   filer, leaked, published, crashes>>

Accepts(z) == Ready(z) /\ state[z] \in {"handshaked", "running"}

AnswerSkip(z, it, reuse) ==
    /\ bundles' = [bundles EXCEPT ![z] =
                      rememberCheckedBundle(@, it.bundle, it.fp, "check_skip", reuse)]
    /\ client' = [client EXCEPT ![z].skip = @ \cup {it}]
    /\ Continue(z, Idle)

AnswerUpload(z, it) ==
    /\ bundles' = [bundles EXCEPT ![z] =
                      rememberCheckedBundle(@, it.bundle, it.fp, "zero_file", FALSE)]
    /\ Continue(z, Idle)
    /\ UNCHANGED client

CheckFrame == UNCHANGED <<storeVars, uploads, pending, sharedReuse, filer, leaked, published,
                          crashes>>

\* One query of CheckBundle: SKIP when it finds something, else the next one.
CheckQuery(z, it, found, reuse, next) ==
    /\ IF found THEN AnswerSkip(z, it, reuse)
       ELSE Continue(z, [op |-> next, item |-> it]) /\ UNCHANGED <<bundles, client>>
    /\ CheckFrame

\* Its first query: has this region completed the bundle?
handleCheckBatch(z, it) ==
    /\ Accepts(z)
    /\ state' = [state EXCEPT ![z] = "running"]
    /\ CheckQuery(z, it, BundleCompleted(db, ServerOf[z], it.bundle, it.fp), FALSE, "checkServer")

\* Does this region, any region have rows of it, has any region completed it?
CheckServer(z) ==
    /\ up /\ job[z].op = "checkServer"
    /\ LET it == job[z].item
       IN  CheckQuery(z, it, SameServerHasBundle(db, ServerOf[z], it.bundle, it.fp), FALSE,
                      "checkAny")
    /\ UNCHANGED state

CheckAny(z) ==
    /\ up /\ job[z].op = "checkAny"
    /\ LET it == job[z].item
       IN  CheckQuery(z, it, AnyServerHasBundle(db, it.bundle, it.fp), TRUE, "checkCompleted")
    /\ UNCHANGED state

CheckCompleted(z) ==
    /\ up /\ job[z].op = "checkCompleted"
    /\ LET it == job[z].item
       IN  CheckQuery(z, it, AnyServerCompleted(db, it.bundle, it.fp), TRUE, "checkBaseline")
    /\ UNCHANGED state

\* The last query: the newest shared row of the bundle.
CheckBaseline(z) ==
    /\ up /\ job[z].op = "checkBaseline"
    /\ LET r == SharedBundleBaseline(db, job[z].item.bundle)
       IN  IF r # NoRow /\ r.fp = job[z].item.fp
           THEN AnswerSkip(z, job[z].item, FALSE)
           ELSE AnswerUpload(z, job[z].item)
    /\ CheckFrame
    /\ UNCHANGED state

-----------------------------------------------------------------------------
(* UPLOAD_BEGIN: CheckPath re-derives the placement, query by query.       *)

RejectPresent(z, file) == AckDone(z, file) /\ Continue(z, Idle) /\ UNCHANGED uploads

RejectReuse(z, file, key) ==
    /\ sharedReuse' = [sharedReuse EXCEPT ![z] = rememberSharedReuse(@, file, key)]
    /\ RejectPresent(z, file)

newInflight(z, m, file, placement) ==
    /\ uploads' = [uploads EXCEPT ![z][m] =
                      [op |-> "upload", file |-> file, placement |-> placement, sha |-> NoSha]]
    /\ Continue(z, Idle)
    /\ UNCHANGED <<sharedReuse, client>>

\* Mutant: the rows of the region itself are not looked at.
BeginForgetsOwn(z, m, file) ==
    /\ Accepts(z) /\ uploads[z][m] = NoUpload
    /\ state' = [state EXCEPT ![z] = "running"]
    /\ Continue(z, [op |-> "beginShared", stream |-> m, file |-> file])
    /\ UNCHANGED <<storeVars, uploads, client, pending, sharedReuse, bundles, filer, leaked,
                   published, crashes>>

handleUploadBegin(z, m, file) ==
    /\ Accepts(z) /\ uploads[z][m] = NoUpload
    /\ state' = [state EXCEPT ![z] = "running"]
    /\ IF SameServerHasPath(db, ServerOf[z], file.path, file.fp)
       THEN RejectPresent(z, file)
       ELSE /\ Continue(z, [op |-> "beginShared", stream |-> m, file |-> file])
            /\ UNCHANGED <<uploads, client>>
    /\ UNCHANGED <<storeVars, pending, sharedReuse, bundles, filer, leaked, published, crashes>>

BeginShared(z) ==
    /\ up /\ job[z].op = "beginShared"
    /\ LET j == job[z]
           r == SharedExactMatch(db, j.file.path, j.file.fp)
       IN  IF r # NoRow THEN RejectReuse(z, j.file, r.key)
           ELSE /\ Continue(z, [op |-> "beginBaseline", stream |-> j.stream, file |-> j.file])
                /\ UNCHANGED <<uploads, sharedReuse, client>>
    /\ UNCHANGED <<storeVars, state, pending, bundles, filer, leaked, published, crashes>>

\* Mutant: a different shared baseline does not force an override.
BeginAlwaysShared(z) ==
    /\ up /\ job[z].op = "beginBaseline"
    /\ newInflight(z, job[z].stream, job[z].file, "SHARED")
    /\ UNCHANGED <<storeVars, state, pending, bundles, filer, leaked, published, crashes>>

BeginBaseline(z) ==
    /\ up /\ job[z].op = "beginBaseline"
    /\ LET j == job[z]
           r == CurrentSharedByPath(db, j.file.path)
       IN  IF r = NoRow THEN newInflight(z, j.stream, j.file, "SHARED")
           ELSE IF r.fp = j.file.fp THEN RejectReuse(z, j.file, r.key)
           ELSE newInflight(z, j.stream, j.file, "OVERRIDE")
    /\ UNCHANGED <<storeVars, state, pending, bundles, filer, leaked, published, crashes>>

\* A query of CHECK or BEGIN fails: sendFatal ends the session.
QueryFails(z) ==
    /\ job[z].op \in {"checkServer", "checkAny", "checkCompleted", "checkBaseline",
                      "beginShared", "beginBaseline"}
    /\ Close(z)
    /\ UNCHANGED storeVars

-----------------------------------------------------------------------------
(* UPLOAD_CHUNK and UPLOAD_END.                                            *)

InFlight(z, m) == Ready(z) /\ state[z] = "running" /\ uploads[z][m] # NoUpload

\* The bytes received so far hash to x.
handleUploadChunk(z, m, x) ==
    /\ InFlight(z, m)
    /\ uploads' = [uploads EXCEPT ![z][m].sha = x]
    /\ UNCHANGED <<storeVars, state, job, pending, sharedReuse, bundles, client, filer, leaked,
                   published, crashes>>

\* The PUT breaks under a chunk or at the end: finishInflight aborts the
\* stream, deletes its tmp key and acks a rejection.
finishInflight(z, m) ==
    /\ InFlight(z, m)
    /\ AbortTmp({TempKey(RunOf[z], m)})
    /\ dropInflight(z, m)
    /\ UNCHANGED <<storeVars, state, job, pending, sharedReuse, bundles, client,
                   published, crashes>>

\* Mutant: the hash of the client is not compared.
verifyEndNoHash(u, declares) == u.sha # NoSha

\* A client may leave its own hash out of UPLOAD_END.
verifyEnd(u, declares) == u.sha # NoSha /\ (declares => u.sha = u.file.sha)

\* Mutant: the tmp object of a mismatched stream stays.
EndMismatchKeepsTmp(z, m) ==
    /\ InFlight(z, m)
    /\ ~verifyEnd(uploads[z][m], TRUE)
    /\ filer' = [filer EXCEPT ![TempKey(RunOf[z], m)] = uploads[z][m].sha]
    /\ UNCHANGED leaked
    /\ dropInflight(z, m)
    /\ UNCHANGED <<storeVars, state, job, pending, sharedReuse, bundles, client,
                   published, crashes>>

\* SHA_MISMATCH or SIZE_MISMATCH: the tmp object is deleted again.
EndMismatch(z, m) ==
    /\ InFlight(z, m)
    /\ ~verifyEnd(uploads[z][m], TRUE)
    /\ DeleteTmp(filer, TempKey(RunOf[z], m), uploads[z][m].sha)
    /\ dropInflight(z, m)
    /\ UNCHANGED <<storeVars, state, job, pending, sharedReuse, bundles, client,
                   published, crashes>>

\* The key of these bytes in this session or in a committed row.
ReusableKey(z, sha) ==
    IF pendingStorageKeyBySHA(pending[z], sha) # NoSha
    THEN pendingStorageKeyBySHA(pending[z], sha)
    ELSE IF ReusableAssetBySHA(db, sha) # NoRow THEN ReusableAssetBySHA(db, sha).key
    ELSE NoSha

\* The pending row, the bundle mark and the UPLOAD_ACK of a stored stream.
RecordPending(z, m, key) ==
    LET u == uploads[z][m] IN
    /\ pending' = [pending EXCEPT ![z] = Append(@,
          [server |-> ServerOf[z], bundle |-> u.file.bundle, path |-> u.file.path,
           version |-> VersionOf[z], fp |-> u.file.fp, sha |-> u.sha,
           override |-> (u.placement = "OVERRIDE"), key |-> key])]
    /\ bundles' = [bundles EXCEPT ![z] = markBundleUploaded(@, u.file.bundle, u.file.fp)]
    /\ dropInflight(z, m)
    /\ AckDone(z, u.file)
    /\ Continue(z, Idle)

\* finish, verifyEnd and the lookup of reusable bytes.  A reused key ends the
\* handler; otherwise the tmp object is to be copied.  A failed lookup of
\* committed rows is logged and counts as no match.
handleUploadEnd(z, m, declares) ==
    /\ InFlight(z, m)
    /\ verifyEnd(uploads[z][m], declares)
    /\ \/ LET key == ReusableKey(z, uploads[z][m].sha)
          IN  /\ key # NoSha
              /\ RecordPending(z, m, key)
              /\ DeleteTmp(filer, TempKey(RunOf[z], m), uploads[z][m].sha)
       \/ /\ pendingStorageKeyBySHA(pending[z], uploads[z][m].sha) = NoSha
          /\ Continue(z, [op |-> "copy", stream |-> m])
          /\ filer' = [filer EXCEPT ![TempKey(RunOf[z], m)] = uploads[z][m].sha]
          /\ UNCHANGED <<leaked, uploads, pending, bundles, client>>
    /\ UNCHANGED <<storeVars, state, sharedReuse, published, crashes>>

\* Mutant: the row keeps pointing at the tmp object.
FinalKeyTmp(z, u) == TempKey(RunOf[z], job[z].stream)

FinalKey(z, u) == IF u.placement = "OVERRIDE" THEN OverrideKey(ServerOf[z], u.file.path)
                  ELSE SharedKey(u.file.path)

\* Mutant: the row is recorded although the copy failed.
EndCopyIgnored(z) ==
    /\ up /\ job[z].op = "copy"
    /\ LET m == job[z].stream
       IN  /\ DeleteTmp(filer, TempKey(RunOf[z], m), filer[TempKey(RunOf[z], m)])
           /\ RecordPending(z, m, FinalKey(z, uploads[z][m]))
    /\ UNCHANGED <<storeVars, state, sharedReuse, published, crashes>>

\* storage.Copy of tmp to the final key, which may exist; then tmp goes.
EndCopy(z) ==
    /\ up /\ job[z].op = "copy"
    /\ LET m   == job[z].stream
           tmp == TempKey(RunOf[z], m)
           key == FinalKey(z, uploads[z][m])
       IN  /\ filer[tmp] # NoSha
           /\ DeleteTmp([filer EXCEPT ![key] = filer[tmp]], tmp, filer[tmp])
           /\ RecordPending(z, m, key)
    /\ UNCHANGED <<storeVars, state, sharedReuse, published, crashes>>

\* The copy fails (the filer, or a tmp object another session of the run took
\* away): the stream is rejected and the session goes on.
EndCopyFails(z) ==
    /\ up /\ job[z].op = "copy"
    /\ LET tmp == TempKey(RunOf[z], job[z].stream) IN DeleteTmp(filer, tmp, filer[tmp])
    /\ dropInflight(z, job[z].stream)
    /\ Continue(z, Idle)
    /\ UNCHANGED <<storeVars, state, pending, sharedReuse, bundles, client, published,
                   crashes>>

-----------------------------------------------------------------------------
(* COMMIT: one step per statement of the transaction.                      *)

CommitUnchanged ==
    UNCHANGED <<uploads, pending, sharedReuse, bundles, client, filer, leaked, crashes>>

\* BEGIN and InsertVersion, which takes the writer lock.  COMMIT with streams
\* in flight is a violation (EndSession).
handleCommit(z) ==
    /\ Accepts(z) /\ Uploading(z) = {}
    /\ Begin(ServerOf[z], VersionOf[z], HashOf[z])
    /\ state' = [state EXCEPT ![z] = "committing"]
    /\ \E C \in Merges(z) :
         Continue(z, [op |-> "commit", i |-> 1, rows |-> {}, comps |-> C,
                      clones |-> {e \in bundles[z] : e.reuse},
                      reuse |-> sharedReuse[z]])
    /\ UNCHANGED published
    /\ CommitUnchanged

\* The steps inside the transaction leave the session's protocol state alone.
InTx(z) ==
    /\ up /\ job[z].op = "commit"
    /\ UNCHANGED <<state, published>>
    /\ CommitUnchanged

PendingDone(z) == job[z].i > Len(pending[z])

\* Mutant: the row is written outside the transaction.
InsertPendingDirect(z) ==
    /\ InTx(z) /\ ~PendingDone(z)
    /\ db' = InsertAsset(db, pending[z][job[z].i])
    /\ UNCHANGED <<work, tx, up>>
    /\ Continue(z, [job[z] EXCEPT !.i = @ + 1])

InsertPending(z) ==
    /\ InTx(z) /\ ~PendingDone(z)
    /\ Put(pending[z][job[z].i])
    /\ Continue(z, [job[z] EXCEPT !.i = @ + 1])

Rebind(z, a) == [a EXCEPT !.server = ServerOf[z], !.version = VersionOf[z]]

\* The reusable rows of one bundle, as the transaction sees them.
LoadClones(z) ==
    /\ InTx(z) /\ PendingDone(z) /\ job[z].rows = {}
    /\ \E e \in job[z].clones :
         Continue(z, [job[z] EXCEPT !.clones = @ \ {e},
                        !.rows = {Rebind(z, a) : a \in ReusableBundleAssets(work, e.bundle, e.fp)}])
    /\ UNCHANGED storeVars

InsertClone(z) ==
    /\ InTx(z) /\ PendingDone(z)
    /\ \E a \in job[z].rows : Put(a) /\ Continue(z, [job[z] EXCEPT !.rows = @ \ {a}])

RowsDone(z) == PendingDone(z) /\ job[z].rows = {} /\ job[z].clones = {}

\* Cross-region reuse rows carry no hash.
ReuseRow(z, r) ==
    [server |-> ServerOf[z], bundle |-> r.bundle, path |-> r.path, version |-> VersionOf[z],
     fp |-> r.fp, sha |-> NoSha, override |-> FALSE, key |-> r.key]

\* Mutant: a reuse entry is consumed without a row.
InsertReuseSkips(z) ==
    /\ InTx(z) /\ RowsDone(z)
    /\ \E r \in job[z].reuse : Continue(z, [job[z] EXCEPT !.reuse = @ \ {r}])
    /\ UNCHANGED storeVars

InsertReuse(z) ==
    /\ InTx(z) /\ RowsDone(z)
    /\ \E r \in job[z].reuse :
         Put(ReuseRow(z, r)) /\ Continue(z, [job[z] EXCEPT !.reuse = @ \ {r}])

InsertCompletion(z) ==
    /\ InTx(z) /\ RowsDone(z) /\ job[z].reuse = {}
    /\ \E c \in job[z].comps :
         Complete(completionOf(z, c)) /\ Continue(z, [job[z] EXCEPT !.comps = @ \ {c}])

\* The client got SKIP or an ack for everything it offers.
OfferComplete(z) ==
    \A f \in Offers[z] : \/ f \in client[z].done
                         \/ [bundle |-> f.bundle, fp |-> f.fp] \in client[z].skip

\* MarkReadIndexCurrent and tx.Commit.  published is a history variable.
Publish(z) ==
    /\ up /\ job[z].op = "commit"
    /\ RowsDone(z) /\ job[z].reuse = {} /\ job[z].comps = {}
    /\ CommitTx
    /\ Continue(z, [op |-> "committed"])
    /\ published' = [published EXCEPT ![ServerOf[z]] =
                        {f \in @ : \A g \in Offers[z] : g.path # f.path}
                        \cup IF OfferComplete(z) THEN Offers[z] ELSE {}]
    /\ UNCHANGED state
    /\ CommitUnchanged

\* InvalidatePaths (modelled in ReadPath) and COMMIT_ACK.
Finalize(z) ==
    /\ up /\ job[z].op = "committed"
    /\ state' = [state EXCEPT ![z] = "finalized"]
    /\ Continue(z, Idle)
    /\ UNCHANGED <<storeVars, published>>
    /\ CommitUnchanged

\* A statement fails: rollback and a fatal error.
CommitFails(z) ==
    /\ up /\ job[z].op = "commit"
    /\ Rollback
    /\ Close(z)

-----------------------------------------------------------------------------
(* Between frames the session may end: BYE, EOF, a rejected HELLO, a frame *)
(* the state does not allow, a COMMIT that waits too long for the writer   *)
(* lock (_busy_timeout), a first query that fails, or the peer's fatal ERROR. *)

EndSession(z) ==
    /\ Ready(z) /\ state[z] # "closed"
    /\ Close(z)
    /\ UNCHANGED storeVars

Start == Boot /\ UNCHANGED <<sessVars, filer, leaked, published, crashes>>

\* The process dies: connections and session memory go, the filer stays.
Die ==
    /\ crashes < MaxCrashes
    /\ Crash
    /\ crashes' = crashes + 1
    /\ state' = [z \in Sessions |-> IF state[z] = "handshake" THEN "handshake" ELSE "closed"]
    /\ job' = [z \in Sessions |-> Idle]
    /\ uploads' = [z \in Sessions |-> [m \in Streams |-> NoUpload]]
    /\ pending' = [z \in Sessions |-> <<>>]
    /\ sharedReuse' = [z \in Sessions |-> {}]
    /\ bundles' = [z \in Sessions |-> {}]
    /\ client' = [z \in Sessions |-> [skip |-> {}, done |-> {}]]
    /\ UNCHANGED <<filer, leaked, published>>

HipInit ==
    /\ StoreInit /\ db = EmptyDb
    /\ state = [z \in Sessions |-> "handshake"]
    /\ job = [z \in Sessions |-> Idle]
    /\ uploads = [z \in Sessions |-> [m \in Streams |-> NoUpload]]
    /\ pending = [z \in Sessions |-> <<>>]
    /\ sharedReuse = [z \in Sessions |-> {}]
    /\ bundles = [z \in Sessions |-> {}]
    /\ filer = [k \in Keys \cup TempKeys |-> NoSha]
    /\ client = [z \in Sessions |-> [skip |-> {}, done |-> {}]]
    /\ published = [s \in Servers |-> {}]
    /\ leaked = {}
    /\ crashes = 0

\* Frames of any client.
AnyFrame(z) ==
    \/ \E m \in Streams, f \in Offers[z] :
         /\ Len(pending[z]) + Cardinality(Uploading(z)) < MaxPending
         /\ handleUploadBegin(z, m, f)
    \/ \E m \in Streams, declares \in BOOLEAN : handleUploadEnd(z, m, declares)
    \/ handleCommit(z)

\* Frames of an updater that sends a file again only after a rejection, always
\* with its hash (HELLO_ACK.sha256_required), and commits when all is acked.
UpdaterFrame(z) ==
    \/ \E m \in Streams, f \in Offers[z] \ client[z].done :
         /\ \A n \in Uploading(z) : uploads[z][n].file # f
         /\ handleUploadBegin(z, m, f)
    \/ \E m \in Streams : handleUploadEnd(z, m, TRUE)
    \/ OfferComplete(z) /\ handleCommit(z)

SessionStep(z) ==
    \/ \E it \in Items(z) : handleCheckBatch(z, it)
    \/ CheckServer(z)
    \/ CheckAny(z)
    \/ CheckCompleted(z)
    \/ CheckBaseline(z)
    \/ BeginShared(z)
    \/ BeginBaseline(z)
    \/ QueryFails(z)
    \/ \E m \in Streams, x \in Shas : handleUploadChunk(z, m, x)
    \/ \E m \in Streams : finishInflight(z, m)
    \/ \E m \in Streams : EndMismatch(z, m)
    \/ EndCopy(z)
    \/ EndCopyFails(z)
    \/ InsertPending(z)
    \/ LoadClones(z)
    \/ InsertClone(z)
    \/ InsertReuse(z)
    \/ InsertCompletion(z)
    \/ Publish(z)
    \/ Finalize(z)
    \/ CommitFails(z)
    \/ EndSession(z)

HipNext ==
    \/ \E z \in Sessions : handleHello(z) \/ AnyFrame(z) \/ SessionStep(z)
    \/ Start
    \/ Die

HipSpec == HipInit /\ [][HipNext]_hipVars

\* Concurrent updaters.
UpdaterNext ==
    \/ \E z \in Sessions : handleHello(z) \/ UpdaterFrame(z) \/ SessionStep(z)
    \/ Start
    \/ Die

UpdaterSpec == HipInit /\ [][UpdaterNext]_hipVars

\* Updaters that take turns: a session starts when the others have ended.
Alone(z) == \A y \in Sessions \ {z} : state[y] \in {"handshake", "closed"}

\* A client that lost COMMIT_ACK with its connection connects again with the
\* same HELLO, before anyone starts another update.
RetryCommit(z) ==
    /\ up /\ state[z] = "closed"
    /\ Offers[z] \subseteq published[ServerOf[z]]
    /\ \A y \in Sessions \ {z} : state[y] = "handshake"
    /\ state' = [state EXCEPT ![z] = "handshaked"]
    /\ UNCHANGED <<storeVars, job, uploads, pending, sharedReuse, bundles, client,
                   filer, leaked, published, crashes>>

SerialNext ==
    \/ \E z \in Sessions :
         (Alone(z) /\ (handleHello(z) \/ RetryCommit(z))) \/ UpdaterFrame(z) \/ SessionStep(z)
    \/ Start
    \/ Die

SerialSpec == HipInit /\ [][SerialNext]_hipVars

-----------------------------------------------------------------------------
(* Properties.                                                             *)

JobType ==
    {Idle, [op |-> "committed"]}
    \cup [op : {"checkServer", "checkAny", "checkCompleted", "checkBaseline"}, item : Item]
    \cup [op : {"beginShared", "beginBaseline"}, stream : Streams, file : File]
    \cup [op : {"copy"}, stream : Streams]
    \cup [op : {"commit"}, i : Nat \ {0}, rows : SUBSET Row, clones : SUBSET BundleEntry,
          reuse : SUBSET ReuseEntry,
          comps : SUBSET [bundle : Bundles, fp : Fps, source : Sources]]

\* Session memory is well-formed; rows waiting for COMMIT name final keys,
\* never a tmp key.
HipTypeOK ==
    /\ StoreTypeOK
    /\ state \in [Sessions -> {"handshake", "handshaked", "running", "committing",
                               "finalized", "closed"}]
    /\ job \in [Sessions -> JobType]
    /\ uploads \in [Sessions -> [Streams -> Upload \cup {NoUpload}]]
    /\ pending \in [Sessions -> Seq(Row)]
    /\ sharedReuse \in [Sessions -> SUBSET ReuseEntry]
    /\ bundles \in [Sessions -> SUBSET BundleEntry]
    /\ filer \in [Keys \cup TempKeys -> Shas \cup {NoSha}]
    /\ client \in [Sessions -> [skip : SUBSET Item, done : SUBSET File]]
    /\ published \in [Servers -> SUBSET File]
    /\ leaked \subseteq TempKeys
    /\ crashes \in 0..MaxCrashes

PendingRows == UNION {{pending[z][i] : i \in DOMAIN pending[z]} : z \in Sessions}

\* No dangling key: whatever a committed row, an open transaction, a pending
\* row or a reuse entry names exists in the filer (Copy before the row is
\* recorded; final keys are never deleted), so a placement is never a 502.
NoDanglingKey ==
    /\ \A r \in RowsOf(db) \cup RowsOf(work) \cup PendingRows : filer[r.key] # NoSha
    /\ \A z \in Sessions : \A r \in sharedReuse[z] : filer[r.key] # NoSha

\* Tmp objects belong to a stream in flight; only a crash or a Delete that
\* failed leaves one behind.
TmpClean ==
    crashes = 0 =>
        \A k \in TempKeys \ leaked : filer[k] # NoSha =>
            \E z \in Sessions, m \in Streams :
                k = TempKey(RunOf[z], m) /\ uploads[z][m] # NoUpload

\* Per-stream verification, and Copy only after it: whatever object a final
\* key holds is the content of a file that some client offered for that path;
\* corrupt bytes end with their tmp object.
FinalBytesVerified ==
    \A k \in Keys : filer[k] # NoSha =>
        \E z \in Sessions : \E f \in Offers[z] :
            f.sha = filer[k] /\ k \in {SharedKey(f.path), OverrideKey(ServerOf[z], f.path)}

\* Shared baselines are write-once: a row that points into /shared-assets/
\* keeps the bytes it was verified with, whatever later sessions upload, abort
\* or leave behind in a crash.  It needs FreshRows: a row that reuses the key of
\* a baseline is left behind when the baseline itself is rewritten as an
\* override, and the next SHARED upload of the path then overwrites the key.
SharedBytesFixed ==
    \A r \in RowsOf(db) \cup PendingRows :
        (r.key = SharedKey(r.path) /\ r.sha # NoSha) => filer[r.key] = r.sha

\* README on COMMIT: readers see either the old or the new full state.  The
\* bytes a reader is sent are those of the row that places them.
ServedBytesMatch ==
    \A s \in Servers, p \in Paths :
        LET r == LookupPlacement(db, s, p).row
        IN  (r # NoRow /\ r.sha # NoSha) => filer[r.key] = r.sha

\* The promise of a commit: after a session whose client was told SKIP or OK
\* for everything it offered, its region is served every offered path with
\* the offered fingerprint, until the region publishes the path again.
PublishedServed ==
    \A s \in Servers : \A f \in published[s] :
        LookupPlacement(db, s, f.path).row # NoRow
        /\ LookupPlacement(db, s, f.path).row.fp = f.fp

\* What was uploaded is recorded as uploaded: a commit leaves a completion with
\* source "uploaded" for every bundle it inserts a file of, although the client
\* may have checked the bundle again after the upload (the uploaded flag, and
\* the rank that decides between several entries of one bundle).
UploadedRecorded ==
    [][\A z \in Sessions :
         (job[z].op = "commit" /\ job'[z].op = "committed") =>
           \A i \in DOMAIN pending[z] : \E c \in db'.completions :
             /\ c.server = ServerOf[z] /\ c.version = VersionOf[z]
             /\ c.bundle = pending[z][i].bundle /\ c.source = "uploaded"]_hipVars

\* A repeated session changes nothing: when everything a session offers is what
\* its region published last, its COMMIT leaves every placement as it is, the
\* hash of its row included.
RetryChangesNothing ==
    [][\A z \in Sessions :
         /\ job[z].op = "commit" /\ job'[z].op = "committed"
         /\ Offers[z] \subseteq published[ServerOf[z]]
         => \A s \in Servers, p \in Paths :
              LookupPlacement(db', s, p) = LookupPlacement(db, s, p)]_hipVars

\* handleCommit leaves the hash of a reuse row blank because the "shared row
\* already has its sha": some committed shared row of this content has one.
ReuseBacked ==
    \A i \in DOMAIN db.assets : db.assets[i].sha = NoSha =>
        \E j \in DOMAIN db.assets :
            /\ db.assets[j].path = db.assets[i].path /\ db.assets[j].fp = db.assets[i].fp
            /\ db.assets[j].key = db.assets[i].key
            /\ ~db.assets[j].override /\ db.assets[j].sha # NoSha

\* README, CHECK rule 4: a path has one shared baseline; other fingerprints
\* of it are overrides.
OneSharedBaseline ==
    \A i, j \in DOMAIN db.assets :
        (/\ db.assets[i].path = db.assets[j].path
         /\ ~db.assets[i].override /\ ~db.assets[j].override)
        => db.assets[i].fp = db.assets[j].fp

-----------------------------------------------------------------------------
(* The inductive invariant behind HipTypeOK, NoDanglingKey, TmpClean and   *)
(* UploadedRecorded, whatever the clients send.                            *)

\* The steps the three kinds of clients have in common.
IngestStep ==
    \/ \E z \in Sessions :
         \/ handleHello(z)
         \/ RetryCommit(z)
         \/ \E m \in Streams, f \in Offers[z] : handleUploadBegin(z, m, f)
         \/ \E m \in Streams, declares \in BOOLEAN : handleUploadEnd(z, m, declares)
         \/ handleCommit(z)
         \/ SessionStep(z)
    \/ Start
    \/ Die

IngestRun == HipInit /\ [][IngestStep]_hipVars

Stored(k) == filer[k] # NoSha

\* Completion c of session z says that bundle b was uploaded.
SaysUploaded(z, c, b) ==
    /\ c.server = ServerOf[z] /\ c.version = VersionOf[z] /\ c.hash = HashOf[z]
    /\ c.bundle = b /\ c.source = "uploaded"

\* The bundle of a pending row is marked uploaded until COMMIT has recorded it.
UploadMarked(z, b) ==
    /\ \E e \in bundles[z] : e.bundle = b /\ e.source = "uploaded"
    /\ job[z].op = "commit" =>
          \/ \E c \in job[z].comps : c.bundle = b /\ c.source = "uploaded"
          \/ /\ \A c \in job[z].comps : c.bundle # b
             /\ \E c \in work.completions : SaysUploaded(z, c, b)

\* What holds of one session: a stream that waits for its copy is in flight,
\* with bytes; inside COMMIT the open transaction is the session's own, and
\* has one completion per bundle; every key the session holds has an object.
SessInv(z) ==
    /\ job[z].op = "copy" => /\ uploads[z][job[z].stream] # NoUpload
                            /\ uploads[z][job[z].stream].sha # NoSha
    /\ job[z].op = "commit" =>
          /\ tx = <<ServerOf[z], VersionOf[z], HashOf[z]>>
          /\ \A r \in job[z].rows \cup job[z].reuse : Stored(r.key)
          /\ \A c, d \in job[z].comps : c.bundle = d.bundle => c = d
    /\ \A i \in DOMAIN pending[z] : /\ Stored(pending[z][i].key)
                                   /\ UploadMarked(z, pending[z][i].bundle)
    /\ \A r \in sharedReuse[z] : Stored(r.key)

OneCommit ==
    \A y, z \in Sessions : job[y].op = "commit" /\ job[z].op = "commit" => y = z

RowsStored == \A r \in RowsOf(db) \cup RowsOf(work) : Stored(r.key)

\* Between two frames there are no tmp objects but the ones a Delete left.
TmpOwned ==
    crashes = 0 =>
        \A k \in TempKeys \ leaked : filer[k] # NoSha =>
            \E z \in Sessions : job[z].op = "copy" /\ k = TempKey(RunOf[z], job[z].stream)

HipInv ==
    /\ HipTypeOK
    /\ StoreInv
    /\ \A z \in Sessions : SessInv(z)
    /\ OneCommit
    /\ RowsStored
    /\ TmpOwned

-----------------------------------------------------------------------------
(* The invariants behind FinalBytesVerified, for updaters of different     *)
(* runs, and OneSharedBaseline, for updaters that take turns.              *)

\* Updaters that take turns are updaters; some of them retry.
UpdaterStep ==
    \/ \E z \in Sessions :
         handleHello(z) \/ RetryCommit(z) \/ UpdaterFrame(z) \/ SessionStep(z)
    \/ Start
    \/ Die

UpdaterRun == HipInit /\ [][UpdaterStep]_hipVars

RunsDiffer == \A y, z \in Sessions : RunOf[y] = RunOf[z] => y = z

\* A client has one file for a path.
OneFilePerPath == \A z \in Sessions : \A f, g \in Offers[z] : f.path = g.path => f = g

OfferedAs(z, r) == \E f \in Offers[z] : f.path = r.path /\ f.fp = r.fp

\* Whatever a session holds is about a file its client offers.
OnlyOffered(z) ==
    /\ job[z].op \in {"beginShared", "beginBaseline"} => job[z].file \in Offers[z]
    /\ \A m \in Streams : uploads[z][m] # NoUpload => uploads[z][m].file \in Offers[z]
    /\ \A i \in DOMAIN pending[z] : OfferedAs(z, pending[z][i])
    /\ \A r \in sharedReuse[z] : OfferedAs(z, r)

\* What waits to be copied, if it is still there, is what was verified.
CopyVerified(z) ==
    job[z].op = "copy" =>
        filer[TempKey(RunOf[z], job[z].stream)] \in {NoSha, uploads[z][job[z].stream].file.sha}

BytesInv ==
    /\ \A z \in Sessions : OnlyOffered(z) /\ CopyVerified(z)
    /\ FinalBytesVerified

\* Sessions that take turns: of two, one has not started or has ended, and
\* then it holds nothing.
Away(z) == state[z] \in {"handshake", "closed"}

TakeTurns ==
    /\ \A y, z \in Sessions : y = z \/ Away(y) \/ Away(z)
    /\ \A z \in Sessions : Away(z) =>
          /\ job[z] = Idle
          /\ uploads[z] = [m \in Streams |-> NoUpload]
          /\ pending[z] = <<>>
          /\ sharedReuse[z] = {}

\* A transaction that is open is that of some session's COMMIT.
TxOwned == IF tx = NoTx THEN work = db ELSE \E z \in Sessions : job[z].op = "commit"

\* Content f is a shared baseline of path p, or session z is about to make it
\* one.
IsBaseline(z, p, f) ==
    \/ \E r \in RowsOf(db) \cup RowsOf(work) : ~r.override /\ r.path = p /\ r.fp = f
    \/ \E i \in DOMAIN pending[z] :
          ~pending[z][i].override /\ pending[z][i].path = p /\ pending[z][i].fp = f
    \/ \E r \in sharedReuse[z] : r.path = p /\ r.fp = f
    \/ \E m \in Uploading(z) : /\ uploads[z][m].placement = "SHARED"
                               /\ uploads[z][m].file.path = p /\ uploads[z][m].file.fp = f
    \/ /\ job[z].op = "commit"
       /\ \/ \E r \in job[z].rows : ~r.override /\ r.path = p /\ r.fp = f
          \/ \E r \in job[z].reuse : r.path = p /\ r.fp = f

\* No path has two.
OneBaseline(z) ==
    \A p \in Paths : \A f, g \in Fps : IsBaseline(z, p, f) /\ IsBaseline(z, p, g) => f = g

TurnsInv ==
    /\ \A z \in Sessions : OnlyOffered(z)
    /\ TakeTurns
    /\ TxOwned
    /\ \A z \in Sessions : OneBaseline(z)
    /\ OneSharedBaseline

-----------------------------------------------------------------------------
(* The invariant behind SharedBytesFixed, for updaters that take turns while *)
(* FreshRows holds: a path that has a baseline keeps one.                  *)

HasBaseline(d, p) == \E r \in RowsOf(d) : ~r.override /\ r.path = p

\* A key in /shared-assets/ that is in use is that of a path with a baseline.
KeyBacked(d, k) == \A p \in Paths : k = SharedKey(p) => HasBaseline(d, p)

BytesAt(r) ==
    (r.sha # NoSha /\ \E p \in Paths : r.key = SharedKey(p)) => filer[r.key] = r.sha

\* The same of a row that waits for COMMIT: the path has its baseline or gets it
\* from this row or an earlier one.
PendingBacked(z, i) ==
    \A p \in Paths : pending[z][i].key = SharedKey(p) =>
        \/ HasBaseline(db, p)
        \/ \E j \in 1..i : /\ pending[z][j].path = p /\ ~pending[z][j].override
                           /\ pending[z][j].key = SharedKey(p)

OfferedBytes(z, r) == \E f \in Offers[z] : f.path = r.path /\ f.sha = r.sha

FixedIn(z) ==
    /\ \A i \in DOMAIN pending[z] : /\ BytesAt(pending[z][i]) /\ PendingBacked(z, i)
                                   /\ OfferedBytes(z, pending[z][i])
    /\ \A r \in sharedReuse[z] : KeyBacked(db, r.key)
    /\ \A m \in Uploading(z) :
          uploads[z][m].placement = "SHARED" => ~HasBaseline(db, uploads[z][m].file.path)
    /\ CopyVerified(z)
    /\ job[z].op = "copy" =>
          uploads[z][job[z].stream].sha = uploads[z][job[z].stream].file.sha
    /\ job[z].op = "commit" =>
          /\ Uploading(z) = {}
          /\ \A i \in DOMAIN pending[z] :
                i < job[z].i /\ ~pending[z][i].override => HasBaseline(work, pending[z][i].path)
          /\ \A r \in job[z].rows : KeyBacked(work, r.key) /\ BytesAt(r)
          /\ \A r \in job[z].reuse : KeyBacked(work, r.key)

FixedInv ==
    /\ \A r \in RowsOf(db) : KeyBacked(db, r.key) /\ BytesAt(r)
    /\ \A r \in RowsOf(work) : KeyBacked(work, r.key) /\ BytesAt(r)
    /\ \A p \in Paths : HasBaseline(db, p) => HasBaseline(work, p)
    /\ \A z \in Sessions : FixedIn(z)

-----------------------------------------------------------------------------
(* The invariant behind PublishedServed, RetryChangesNothing, ReuseBacked  *)
(* and FreshRows, for updaters that take turns and make regular updates.   *)

\* Row or completion r is one that session z writes.
RowOf(z, r) == r.server = ServerOf[z] /\ r.version = VersionOf[z]

IsFile(f, r) == r.bundle = f.bundle /\ r.path = f.path /\ r.fp = f.fp

OffersRow(z, r) == \E f \in Offers[z] : IsFile(f, r)

OffersItem(z, e) == \E f \in Offers[z] : f.bundle = e.bundle /\ f.fp = e.fp

\* A path is always of the same bundle, and the fingerprint of a bundle tells
\* its files.  A version of a region has one content, and a region does not
\* return to an earlier content of a path: a file that two of its updates have
\* in common is the only one of its path.  COMMIT lists bundles of the offer.
RegularUpdates ==
    /\ OneFilePerPath
    /\ \A y, z \in Sessions : \A f \in Offers[y], g \in Offers[z] :
          /\ (f.path = g.path => f.bundle = g.bundle)
          /\ (f.bundle = g.bundle /\ f.fp = g.fp => f \in Offers[z])
    /\ \A y, z \in Sessions : y # z /\ ServerOf[y] = ServerOf[z] =>
          /\ (VersionOf[y] = VersionOf[z] => Offers[y] = Offers[z])
          /\ \A f \in Offers[y] \cap Offers[z], x \in Sessions : ServerOf[x] = ServerOf[z] =>
                \A g \in Offers[x] : g.path = f.path => g = f
    /\ \A z \in Sessions : \A c \in Declared[z] : OffersItem(z, c)

\* A version of a region that session z would write has rows or completions.
Left(z) == \E r \in RowsOf(db) \cup db.completions : RowOf(z, r)

\* Region s has written rows of bundle b with fingerprint f, or completed it.
HasBundle(d, s, b, f) == SameServerHasBundle(d, s, b, f) \/ BundleCompleted(d, s, b, f)

HasFile(d, s, f) == \E r \in RowsOf(d) : r.server = s /\ IsFile(f, r)

\* The region of z has file f as its current row.
Has(z, f) ==
    /\ db.current[<<ServerOf[z], f.path>>] # NoRow
    /\ IsFile(f, db.current[<<ServerOf[z], f.path>>])

\* A committed shared row has the content of r, with its hash.
ShaBacked(r) ==
    \E x \in RowsOf(db) : /\ x.path = r.path /\ x.fp = r.fp /\ x.key = r.key
                          /\ ~x.override /\ x.sha # NoSha

\* The rows of current_shared_assets are shared rows of the table.
SharedRows(d) ==
    \A p \in Paths : d.currentShared[p] # NoRow =>
        /\ d.currentShared[p] \in RowsOf(d)
        /\ d.currentShared[p].path = p /\ ~d.currentShared[p].override

\* The committed database: every row and completion is that of a session, a
\* region has a bundle as a whole, and what was published last is current.
HistoryInv ==
    /\ db.meta = LatestAssetID(db)
    /\ \A r \in RowsOf(db) : \E z \in Sessions : RowOf(z, r) /\ OffersRow(z, r)
    /\ \A c \in db.completions : \E z \in Sessions : RowOf(z, c) /\ OffersItem(z, c)
    /\ \A s \in Servers, z \in Sessions : \A f \in Offers[z] :
          HasBundle(db, s, f.bundle, f.fp) => HasFile(db, s, f)
    /\ \A r \in RowsOf(db) : r.sha = NoSha => ShaBacked(r)
    /\ SharedRows(db)
    /\ \A s \in Servers : \A f \in published[s] :
          db.current[<<s, f.path>>] # NoRow /\ IsFile(f, db.current[<<s, f.path>>])

\* A version that is there before z has started was written by another session
\* of the same update, and is current.
StartsFresh(z) ==
    state[z] = "handshake" /\ Left(z) =>
        /\ Offers[z] \subseteq published[ServerOf[z]]
        /\ \E y \in Sessions \ {z} : ServerOf[y] = ServerOf[z] /\ VersionOf[y] = VersionOf[z]

InTurn(z) == state[z] \in {"handshaked", "running", "committing"} /\ job[z].op # "committed"

\* What a session holds is about bundles its client offers.
ItemsOffered(z) ==
    /\ job[z].op \in {"checkServer", "checkAny", "checkCompleted", "checkBaseline"} =>
          OffersItem(z, job[z].item)
    /\ \A e \in bundles[z] : OffersItem(z, e)
    /\ job[z].op = "commit" =>
          /\ OfferComplete(z)
          /\ \A c \in job[z].comps : OffersItem(z, c)
          /\ \A c \in work.completions : c \in db.completions \/ (RowOf(z, c) /\ OffersItem(z, c))

\* A session whose offer is what its region has is told so at every frame, and
\* writes no rows.
Repeats(z) ==
    /\ job[z].op \in {"idle", "checkServer", "commit"}
    /\ uploads[z] = [m \in Streams |-> NoUpload]
    /\ pending[z] = <<>> /\ sharedReuse[z] = {}
    /\ \A e \in bundles[z] : ~e.reuse
    /\ job[z].op = "commit" =>
          /\ job[z].rows = {} /\ job[z].clones = {} /\ job[z].reuse = {}
          /\ work.assets = db.assets
          /\ work.current = db.current /\ work.currentShared = db.currentShared

\* z may write row a: it gives no hash away that is not kept elsewhere, and
\* takes no shared row of its own back.
Fits(z, a) ==
    /\ RowOf(z, a) /\ OffersRow(z, a)
    /\ a.sha = NoSha => ShaBacked(a)
    /\ a.override => \A r \in RowsOf(work) : RowOf(z, r) /\ r.path = a.path => r.override

\* The path is current in the transaction of z by a row of z.
Placed(z, p) ==
    /\ work.current[<<ServerOf[z], p>>] # NoRow
    /\ RowOf(z, work.current[<<ServerOf[z], p>>])

\* The table in the transaction of z: the committed rows, then one row of z for
\* each path that z has written.
TableOf(z) ==
    LET t == work.assets IN
    /\ DOMAIN db.assets \subseteq DOMAIN t
    /\ \A k \in DOMAIN t :
          IF k \in DOMAIN db.assets THEN t[k] = db.assets[k]
          ELSE RowOf(z, t[k]) /\ OffersRow(z, t[k]) /\ (t[k].sha = NoSha => ShaBacked(t[k]))
    /\ \A j, k \in DOMAIN t : RowOf(z, t[j]) /\ RowOf(z, t[k]) /\ t[j].path = t[k].path => j = k
    /\ SharedRows(work)
    /\ \A p \in Paths :
          \/ work.current[<<ServerOf[z], p>>] = db.current[<<ServerOf[z], p>>]
          \/ Placed(z, p)

\* An answer that spares the client the upload of f is kept by a row of its
\* region, or will be by one that COMMIT is to write.
Answered(z, f) ==
    \/ Has(z, f)
    \/ \E i \in DOMAIN pending[z] : pending[z][i].path = f.path
    \/ \E r \in sharedReuse[z] : r.path = f.path
    \/ \E e \in bundles[z] : e.reuse /\ e.bundle = f.bundle /\ e.fp = f.fp

\* The same inside COMMIT, as far as it has come.
Due(z, f) ==
    \/ Has(z, f)
    \/ Placed(z, f.path)
    \/ \E i \in DOMAIN pending[z] : i >= job[z].i /\ pending[z][i].path = f.path
    \/ \E r \in job[z].rows \cup job[z].reuse : r.path = f.path
    \/ \E e \in job[z].clones : e.bundle = f.bundle /\ e.fp = f.fp

Reusable(b, f) == AnyServerHasBundle(db, b, f) \/ AnyServerCompleted(db, b, f)

\* A session that has something new.
Renews(z) ==
    /\ ~Left(z)
    /\ job[z].op \in {"checkCompleted", "checkBaseline"} =>
          ~AnyServerHasBundle(db, job[z].item.bundle, job[z].item.fp)
    /\ \A m \in Uploading(z) : uploads[z][m].placement = "OVERRIDE" <=>
                                 HasBaseline(db, uploads[z][m].file.path)
    /\ \A i \in DOMAIN pending[z] :
          /\ RowOf(z, pending[z][i]) /\ OffersRow(z, pending[z][i]) /\ pending[z][i].sha # NoSha
          /\ (pending[z][i].override <=> HasBaseline(db, pending[z][i].path))
    /\ \A r \in sharedReuse[z] : OffersRow(z, r) /\ ShaBacked(r)
    /\ \A e \in bundles[z] : e.reuse => Reusable(e.bundle, e.fp)
    /\ \A f \in Offers[z] :
          f \in client[z].done \/ [bundle |-> f.bundle, fp |-> f.fp] \in client[z].skip
          => Answered(z, f)

\* Its COMMIT.  The rows it has written before it clones bundles are uploads.
Commits(z) ==
    LET j == job[z] IN
    /\ TableOf(z)
    /\ ~PendingDone(z) => /\ j.rows = {}
                          /\ \A r \in RowsOf(work) : RowOf(z, r) =>
                                (r.override <=> HasBaseline(db, r.path))
    /\ \A a \in j.rows : Fits(z, a)
    /\ \A a, b \in j.rows : a.path = b.path => a = b
    /\ \A r \in j.reuse : OffersRow(z, r) /\ ShaBacked(r)
    /\ \A e \in j.clones : OffersItem(z, e) /\ Reusable(e.bundle, e.fp)
    /\ \A f \in Offers[z] : Due(z, f)

TurnInv(z) ==
    /\ ItemsOffered(z)
    /\ IF Offers[z] \subseteq published[ServerOf[z]] THEN Repeats(z)
       ELSE Renews(z) /\ (job[z].op = "commit" => Commits(z))

RegularIn(z) ==
    /\ StartsFresh(z)
    /\ Away(z) => bundles[z] = {} /\ client[z] = [skip |-> {}, done |-> {}]
    /\ InTurn(z) => TurnInv(z)

RegularInv == HistoryInv /\ \A z \in Sessions : RegularIn(z)

=============================================================================
