-------------------------- MODULE HipIngestProofs ---------------------------
(***************************************************************************)
(* Theorems about HipIngest: every set of sessions, streams and offers,    *)
(* whatever the clients send and in whatever order, with failing queries,  *)
(* failing filer calls and crashes.                                        *)
(***************************************************************************)
EXTENDS HipFixedProofs, HipPublishProofs, AssetStoreProofs

USE ZenonT(10), SMTT(30)

-----------------------------------------------------------------------------
(* What the sessions get from the store.                                   *)

\* A key that UPLOAD_END reuses for a sha256 is the key of a pending or a
\* committed row with the sha256.
LEMMA ReusesBytesIs == HipTypeOK => ReusesBytes
<1> SUFFICES ASSUME HipTypeOK, NEW z \in Sessions, NEW sha \in Shas, ReusableKey(z, sha) # NoSha
             PROVE  \/ \E i \in DOMAIN pending[z] :
                          pending[z][i].sha = sha /\ pending[z][i].key = ReusableKey(z, sha)
                    \/ \E r \in RowsOf(db) : r.sha = sha /\ r.key = ReusableKey(z, sha)
  BY DEF ReusesBytes
<1>0. pending[z] \in Seq(Row) /\ db.assets \in Seq(Row)
  BY Typed
<1>1. CASE pendingStorageKeyBySHA(pending[z], sha) # NoSha
  <2> DEFINE ids == {i \in DOMAIN pending[z] : pending[z][i].sha = sha}
  <2>1. ids # {} /\ ids \in SUBSET DOMAIN pending[z]
    BY <1>1 DEF pendingStorageKeyBySHA
  <2>2. \E i \in ids : pendingStorageKeyBySHA(pending[z], sha) = pending[z][i].key
    BY <1>0, <2>1, FirstOf DEF pendingStorageKeyBySHA
  <2> QED
    BY <1>1, <2>2 DEF ReusableKey
<1>2. CASE pendingStorageKeyBySHA(pending[z], sha) = NoSha
  BY <1>0, <1>2, ReusedRow DEF ReusableKey
<1> QED
  BY <1>1, <1>2

\* The queries of the sessions answer with rows, and with the right ones.
LEMMA StoreAnswers == HipTypeOK => QueriesAnswer /\ InsertsOnly /\ BaselineAnswers
<1> SUFFICES ASSUME HipTypeOK PROVE QueriesAnswer /\ InsertsOnly /\ BaselineAnswers
  OBVIOUS
<1>0. db.assets \in Seq(Row) /\ work.assets \in Seq(Row)
  BY Typed
<1>1. QueriesAnswer
  BY <1>0, QueriesAnswerRows, ReusesBytesIs DEF QueriesAnswer, ReusesBytes
<1>2. InsertsOnly
  BY InsertRows DEF InsertsOnly
<1>3. BaselineAnswers
  BY <1>0, BaselineOf DEF BaselineAnswers
<1> QED
  BY <1>1, <1>2, <1>3

\* An upsert that refreshes its path leaves every path its baseline.
LEMMA PutsKeepIs ==
    ASSUME HipTypeOK,
           [(\E a \in Row : Put(a)) => \E a \in Row : Put(a) /\ Refreshes(work, a)]_storeVars
    PROVE  PutsKeep
<1> SUFFICES ASSUME NEW a \in Row, Put(a)
             PROVE  /\ a \in RowsOf(InsertAsset(work, a))
                    /\ \A p \in Paths :
                          HasBaseline(work, p) => HasBaseline(InsertAsset(work, a), p)
  BY DEF PutsKeep
<1>0. work \in Db
  BY Typed
<1>1. a \in RowsOf(InsertAsset(work, a))
  BY <1>0, InsertHas
<1>2. CASE UNCHANGED storeVars
  <2>1. InsertAsset(work, a) = work
    BY <1>2 DEF Put, storeVars
  <2> QED
    BY <1>1, <2>1
<1>3. CASE \E y \in Row : Put(y) /\ Refreshes(work, y)
  <2>1. PICK y \in Row : Put(y) /\ Refreshes(work, y)
    BY <1>3
  <2>2. InsertAsset(work, a) = InsertAsset(work, y)
    BY <2>1 DEF Put
  <2>3. \A p \in Paths : HasBaseline(work, p) => HasBaseline(InsertAsset(work, y), p)
    BY <1>0, <2>1, RefreshKeeps DEF HasBaseline
  <2> QED
    BY <1>1, <2>2, <2>3
<1> QED
  BY <1>2, <1>3

-----------------------------------------------------------------------------
(* What the sessions do to the store.                                      *)

\* The rows of a COMMIT are rows of the assets table.
LEMMA CommitPuts ==
    ASSUME HipInv, NEW z \in Sessions, InsertPending(z) \/ InsertClone(z) \/ InsertReuse(z)
    PROVE  \E a \in Row : Put(a)
<1>0. HipTypeOK /\ job[z].op = "commit"
  BY DEF HipInv, InsertPending, InsertClone, InsertReuse, InTx
<1>1. /\ job[z].rows \subseteq Row /\ job[z].reuse \subseteq ReuseEntry
      /\ job[z].i \in Nat \ {0}
  BY <1>0, Typed, JobCases
<1>2. CASE InsertPending(z)
  <2>1. pending[z] \in Seq(Row) /\ DOMAIN pending[z] = 1..Len(pending[z])
        /\ Len(pending[z]) \in Nat
    BY <1>0, Typed, LenProperties
  <2>2. job[z].i \in DOMAIN pending[z]
    BY <1>1, <1>2, <2>1 DEF InsertPending, PendingDone
  <2> QED
    BY <1>0, <1>2, <2>2, Typed DEF InsertPending
<1>3. CASE InsertClone(z)
  BY <1>1, <1>3 DEF InsertClone
<1>4. CASE InsertReuse(z)
  <2>1. \A r \in ReuseEntry : ReuseRow(z, r) \in Row
    BY SessionsAssumption DEF ReuseRow, Row, ReuseEntry
  <2> QED
    BY <1>1, <1>4, <2>1 DEF InsertReuse
<1> QED
  BY <1>2, <1>3, <1>4

\* Every step of the sessions is a step of the store or leaves it alone.
LEMMA IngestStoreStep == HipInv /\ [IngestStep]_hipVars => [StoreStep]_storeVars
<1> SUFFICES ASSUME HipInv, [IngestStep]_hipVars PROVE [StoreStep]_storeVars
  OBVIOUS
<1>1. ASSUME NEW z \in Sessions, SessionStep(z) PROVE [StoreStep]_storeVars
  <2>1. CASE \/ \E it \in Items(z) : handleCheckBatch(z, it)
             \/ CheckServer(z) \/ CheckAny(z) \/ CheckCompleted(z) \/ CheckBaseline(z)
    BY <2>1, Zenon DEF handleCheckBatch, CheckServer, CheckAny, CheckCompleted, CheckBaseline,
                CheckQuery, CheckFrame
  <2>2. CASE BeginShared(z) \/ BeginBaseline(z)
    BY <2>2 DEF BeginShared, BeginBaseline
  <2>3. CASE QueryFails(z) \/ EndSession(z)
    BY <2>3 DEF QueryFails, EndSession
  <2>4. CASE CommitFails(z)
    BY <2>4 DEF CommitFails, StoreStep
  <2>5. CASE \/ \E m \in Streams, x \in Shas : handleUploadChunk(z, m, x)
             \/ \E m \in Streams : finishInflight(z, m)
             \/ \E m \in Streams : EndMismatch(z, m)
             \/ EndCopy(z) \/ EndCopyFails(z)
    BY <2>5, Zenon DEF handleUploadChunk, finishInflight, EndMismatch, EndCopy, EndCopyFails
  <2>6. CASE InsertPending(z) \/ InsertClone(z) \/ InsertReuse(z)
    BY <2>6, CommitPuts DEF StoreStep
  <2>7. CASE LoadClones(z) \/ Finalize(z)
    BY <2>7, Zenon DEF LoadClones, Finalize
  <2>8. CASE InsertCompletion(z)
    <3>1. job[z].comps \subseteq [bundle : Bundles, fp : Fps, source : Sources]
      BY <2>8, Typed, JobCases DEF HipInv, InsertCompletion, InTx
    <3>2. \A c \in [bundle : Bundles, fp : Fps, source : Sources] :
              completionOf(z, c) \in Completion
      BY SessionsAssumption DEF completionOf, Completion
    <3> QED
      BY <2>8, <3>1, <3>2 DEF InsertCompletion, StoreStep
  <2>9. CASE Publish(z)
    BY <2>9 DEF Publish, StoreStep
  <2> QED
    BY <1>1, <2>1, <2>2, <2>3, <2>4, <2>5, <2>6, <2>7, <2>8, <2>9 DEF SessionStep
<1>2. ASSUME NEW z \in Sessions,
             \/ handleHello(z) \/ RetryCommit(z)
             \/ \E m \in Streams, f \in Offers[z] : handleUploadBegin(z, m, f)
             \/ \E m \in Streams, declares \in BOOLEAN : handleUploadEnd(z, m, declares)
      PROVE  [StoreStep]_storeVars
  BY <1>2, Zenon DEF handleHello, RetryCommit, handleUploadBegin, handleUploadEnd
<1>3. ASSUME NEW z \in Sessions, handleCommit(z) PROVE [StoreStep]_storeVars
  BY <1>3, SessionsAssumption DEF handleCommit, StoreStep
<1>4. CASE Start \/ Die
  BY <1>4 DEF Start, Die, StoreStep
<1>5. CASE UNCHANGED hipVars
  BY <1>5 DEF hipVars
<1> QED
  BY <1>1, <1>2, <1>3, <1>4, <1>5 DEF IngestStep

LEMMA HipInitInv == HipInit => HipInv
<1> SUFFICES ASSUME HipInit PROVE HipInv
  OBVIOUS
<1>1. StoreInv /\ StoreTypeOK
  BY InitInv DEF HipInit, StoreInv
<1>2. RowsOf(db) = {} /\ RowsOf(work) = {}
  <2>1. db = EmptyDb /\ work = db
    BY DEF HipInit, StoreInit
  <2>2. db.assets = <<>>
    BY <2>1 DEF EmptyDb
  <2> QED
    BY <2>1, <2>2 DEF RowsOf
<1>3. Idle \in JobType /\ Idle.op = "idle" /\ <<>> \in Seq(Row)
  BY EmptySeq DEF Idle, JobType
<1>4. HipTypeOK
  <2>1. crashes \in 0..MaxCrashes
    BY SessionsAssumption DEF HipInit
  <2> QED
    BY <1>1, <1>3, <2>1 DEF HipInit, HipTypeOK
<1>5. \A z \in Sessions : SessInv(z)
  BY <1>3 DEF HipInit, SessInv
<1>6. OneCommit /\ RowsStored /\ TmpOwned
  BY <1>2, <1>3 DEF HipInit, OneCommit, RowsStored, TmpOwned
<1> QED
  BY <1>1, <1>4, <1>5, <1>6 DEF HipInv

\* Every step keeps the invariant.
LEMMA IngestStepInv == HipInv /\ [IngestStep]_hipVars => HipInv'
<1> SUFFICES ASSUME HipInv, [IngestStep]_hipVars PROVE HipInv'
  OBVIOUS
<1>1. StoreInv'
  BY IngestStoreStep, StepInv DEF HipInv
<1>2. QueriesAnswer /\ InsertsOnly
  BY StoreAnswers DEF HipInv
<1> QED
  BY <1>1, <1>2, StepGivenStore

-----------------------------------------------------------------------------
(* Theorems.                                                               *)

\* Whatever the clients are like, their sessions take the steps of IngestStep:
\* frames in any order (HipSpec), updaters that upload what is not acked
\* (UpdaterSpec), updaters that take turns and repeat a lost COMMIT (SerialSpec).
THEOREM ClientsIngest ==
    (HipSpec => IngestRun) /\ (UpdaterSpec => IngestRun) /\ (SerialSpec => IngestRun)
<1>1. [HipNext]_hipVars => [IngestStep]_hipVars
  BY DEF HipNext, IngestStep, AnyFrame
<1>2. [UpdaterNext]_hipVars => [IngestStep]_hipVars
  BY Zenon DEF UpdaterNext, IngestStep, UpdaterFrame
<1>3. [SerialNext]_hipVars => [IngestStep]_hipVars
  BY Zenon DEF SerialNext, IngestStep, UpdaterFrame
<1> QED
  BY <1>1, <1>2, <1>3, PTL DEF HipSpec, UpdaterSpec, SerialSpec, IngestRun

\* The inductive invariant of the ingest sessions.
THEOREM IngestInvariant == IngestRun => []HipInv
BY HipInitInv, IngestStepInv, PTL DEF IngestRun

\* Session memory stays well-formed, and rows waiting for COMMIT name final
\* keys, never a tmp key (session.go, upload.go).
THEOREM IngestTyped == IngestRun => []HipTypeOK
<1>1. HipInv => HipTypeOK
  BY DEF HipInv
<1> QED
  BY <1>1, IngestInvariant, PTL

\* No row and no reuse entry ever names a key without an object: Copy comes
\* before the pending row and final keys are never deleted, whichever sessions
\* race, abort or crash.
THEOREM IngestNoDanglingKey == IngestRun => []NoDanglingKey
<1>1. HipInv => NoDanglingKey
  BY DEF HipInv, NoDanglingKey, RowsStored, SessInv, PendingRows, Stored
<1> QED
  BY <1>1, IngestInvariant, PTL

\* Without a crash every tmp object belongs to a stream in flight or to a
\* Delete that failed.
THEOREM IngestTmpClean == IngestRun => []TmpClean
<1>1. HipInv => TmpClean
  <2> SUFFICES ASSUME HipInv, crashes = 0, NEW k \in TempKeys \ leaked, filer[k] # NoSha
               PROVE  \E z \in Sessions, m \in Streams :
                          k = TempKey(RunOf[z], m) /\ uploads[z][m] # NoUpload
    BY DEF TmpClean
  <2>1. PICK z \in Sessions : job[z].op = "copy" /\ k = TempKey(RunOf[z], job[z].stream)
    BY DEF HipInv, TmpOwned
  <2>2. job[z].stream \in Streams
    BY <2>1, Typed, JobCases DEF HipInv
  <2>3. uploads[z][job[z].stream] # NoUpload
    BY <2>1 DEF HipInv, SessInv
  <2> QED
    BY <2>1, <2>2, <2>3
<1> QED
  BY <1>1, IngestInvariant, PTL

\* What was uploaded is recorded as uploaded: rememberCheckedBundle keeps the
\* uploaded flag, the rank of mergeBundleCompletion prefers it, and no later
\* completion of the same COMMIT replaces it.
THEOREM IngestUploadedRecorded == IngestRun => UploadedRecorded
<1> DEFINE Recorded ==
      \A z \in Sessions :
        (job[z].op = "commit" /\ job'[z].op = "committed") =>
          \A i \in DOMAIN pending[z] : \E c \in db'.completions :
            /\ c.server = ServerOf[z] /\ c.version = VersionOf[z]
            /\ c.bundle = pending[z][i].bundle /\ c.source = "uploaded"
<1>1. HipInv /\ [IngestStep]_hipVars => [Recorded]_hipVars
  <2> SUFFICES ASSUME HipInv, [IngestStep]_hipVars, NEW z \in Sessions,
                      job[z].op = "commit", job'[z].op = "committed",
                      NEW i \in DOMAIN pending[z]
               PROVE  \E c \in db'.completions :
                        /\ c.server = ServerOf[z] /\ c.version = VersionOf[z]
                        /\ c.bundle = pending[z][i].bundle /\ c.source = "uploaded"
    OBVIOUS
  <2>1. job[z].comps = {} /\ db' = MarkReadIndexCurrent(work)
    BY OnlyPublish DEF Publish, CommitTx
  <2>2. UploadMarked(z, pending[z][i].bundle)
    BY DEF HipInv, SessInv
  <2>3. PICK c \in work.completions : SaysUploaded(z, c, pending[z][i].bundle)
    BY <2>1, <2>2 DEF UploadMarked
  <2>4. db'.completions = work.completions
    <3>1. work \in Db
      BY Typed DEF HipInv
    <3> QED
      BY <2>1, <3>1 DEF MarkReadIndexCurrent, Db
  <2> QED
    BY <2>3, <2>4 DEF SaysUploaded
<1> QED
  BY <1>1, IngestInvariant, PTL DEF IngestRun, UploadedRecorded

\* The sessions drive the metadata store through its own operations only:
\* rows of the table, inside the one transaction that holds the writer lock.
THEOREM IngestRunsStore == IngestRun => StoreRun
<1>1. HipInit => StoreInit
  BY DEF HipInit
<1> QED
  BY <1>1, IngestInvariant, IngestStoreStep, PTL DEF IngestRun, StoreRun

\* So whatever the sessions of any clients do, no region that committed a row
\* for a path gets a 404 for it,
THEOREM IngestNoFalse404 == IngestRun => []NoFalse404
BY IngestRunsStore, StoreNoFalse404, PTL

\* and commits are atomic for readers: the store under the sessions implements
\* Placements, in which a COMMIT publishes all placements of its region at once.
THEOREM IngestImplementsPlacements == IngestRun => ImplementsPlacements
BY IngestRunsStore, StoreImplementsPlacements, PTL

\* Updaters, also those that take turns, take the steps of UpdaterStep.
THEOREM UpdatersRun == (UpdaterSpec => UpdaterRun) /\ (SerialSpec => UpdaterRun)
<1>1. [UpdaterNext]_hipVars => [UpdaterStep]_hipVars
  BY Zenon DEF UpdaterNext, UpdaterStep
<1> QED
  BY <1>1, SerialUpdates, PTL DEF UpdaterSpec, SerialSpec, UpdaterRun

\* Concurrent updaters of different runs never put unverified bytes under a
\* final key: verifyEnd comes before Copy, and the tmp object that is copied is
\* the one that was verified, because no other session writes it.
THEOREM UpdaterFinalBytes == RunsDiffer => (UpdaterRun => []FinalBytesVerified)
<1> SUFFICES ASSUME RunsDiffer PROVE UpdaterRun => []FinalBytesVerified
  OBVIOUS
<1>1. HipInv /\ BytesInv /\ [UpdaterStep]_hipVars => HipInv' /\ BytesInv'
  <2>1. HipInv => BaselineAnswers
    BY StoreAnswers DEF HipInv
  <2> QED
    BY <2>1, UpdatersIngest, IngestStepInv, BytesStep
<1>2. BytesInv => FinalBytesVerified
  BY DEF BytesInv
<1> QED
  BY <1>1, <1>2, HipInitInv, UpdaterInit, PTL DEF UpdaterRun

\* When updaters take turns and a client has one file for a path, a path never
\* has two shared baselines: CheckPath sends every other content to an override,
\* and what a session is about to write agrees with what it has read.
THEOREM SerialOneBaseline == OneFilePerPath => (SerialSpec => []OneSharedBaseline)
<1> SUFFICES ASSUME OneFilePerPath PROVE SerialSpec => []OneSharedBaseline
  OBVIOUS
<1>1. HipInv /\ TurnsInv /\ [SerialNext]_hipVars => HipInv' /\ TurnsInv'
  <2> SUFFICES ASSUME HipInv, TurnsInv, [SerialNext]_hipVars PROVE HipInv' /\ TurnsInv'
    OBVIOUS
  <2>1. HipInv'
    BY SerialUpdates, UpdatersIngest, IngestStepInv
  <2>2. HipTypeOK /\ HipTypeOK'
    BY <2>1 DEF HipInv
  <2>3. QueriesAnswer /\ InsertsOnly /\ BaselineAnswers
    BY <2>2, StoreAnswers
  <2> QED
    BY <2>1, <2>2, <2>3, TurnsInvStep
<1>2. TurnsInv => OneSharedBaseline
  BY DEF TurnsInv
<1> QED
  BY <1>1, <1>2, HipInitInv, UpdaterInit, PTL DEF SerialSpec

\* When, besides, no commit publishes an older or the same version of a path
\* again (FreshRows), shared baselines are write-once: no later upload, abort or
\* crash changes the bytes under a key in /shared-assets/ that a row points to.
\* EnsureBaseline takes over a path with no baseline only, and a path that has a
\* baseline keeps one, so the keys that rows reuse are never written again.
THEOREM SerialSharedBytes == OneFilePerPath => (SerialSpec /\ FreshRows => []SharedBytesFixed)
<1> SUFFICES ASSUME OneFilePerPath PROVE SerialSpec /\ FreshRows => []SharedBytesFixed
  OBVIOUS
<1> DEFINE Fresh == (\E a \in Row : Put(a)) => \E a \in Row : Put(a) /\ Refreshes(work, a)
<1>1. HipInv /\ TurnsInv /\ FixedInv /\ [SerialNext]_hipVars /\ [Fresh]_storeVars =>
         HipInv' /\ TurnsInv' /\ FixedInv'
  <2> SUFFICES ASSUME HipInv, TurnsInv, FixedInv, [SerialNext]_hipVars, [Fresh]_storeVars
               PROVE  HipInv' /\ TurnsInv' /\ FixedInv'
    OBVIOUS
  <2>1. HipInv'
    BY SerialUpdates, UpdatersIngest, IngestStepInv
  <2>2. HipTypeOK /\ HipTypeOK'
    BY <2>1 DEF HipInv
  <2>3. QueriesAnswer /\ InsertsOnly /\ BaselineAnswers /\ ReusesBytes
    BY <2>2, StoreAnswers, ReusesBytesIs
  <2>4. TurnsInv' /\ TakeTurns'
    BY <2>1, <2>2, <2>3, TurnsInvStep DEF TurnsInv
  <2>5. PutsKeep
    BY <2>2, PutsKeepIs
  <2> QED
    BY <2>1, <2>3, <2>4, <2>5, FixedInvStep
<1>2. HipInv /\ FixedInv => SharedBytesFixed
  BY FixedBytes
<1> QED
  BY <1>1, <1>2, HipInitInv, UpdaterInit, FixedInit, PTL DEF SerialSpec, FreshRows

\* Under the same condition on commits, and whatever the sessions do, the index
\* that COMMIT maintains row by row is the one a rebuild at boot would make.
THEOREM IngestIncremental == IngestRun /\ FreshRows => []IncrementalIsRebuild
BY IngestRunsStore, StoreIncremental, PTL

=============================================================================
