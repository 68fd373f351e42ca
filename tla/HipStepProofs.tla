--------------------------- MODULE HipStepProofs ----------------------------
(***************************************************************************)
(* Proofs about HipIngest: every step keeps HipInv when the store keeps    *)
(* its own invariant and answers as QueriesAnswer and InsertsOnly say;     *)
(* every step of updaters keeps BytesInv, and every step of updaters that  *)
(* take turns keeps TurnsInv.                                              *)
(***************************************************************************)
EXTENDS HipIngest, SequenceTheorems, TLAPS

\* The obligations are large: the provers get time for them.
USE ZenonT(10), SMTT(30)

-----------------------------------------------------------------------------
(* What the handlers rely on in the store.                                 *)

\* The queries of UPLOAD_BEGIN and COMMIT answer rows of the table; a reusable
\* key of UPLOAD_END is the key of a pending or of a committed row.
QueriesAnswer ==
    /\ \A b, f : ReusableBundleAssets(work, b, f) \subseteq RowsOf(work)
    /\ \A p, f : SharedExactMatch(db, p, f) \in RowsOf(db) \cup {NoRow}
    /\ \A p : CurrentSharedByPath(db, p) \in RowsOf(db) \cup {NoRow}
    /\ \A z \in Sessions, sha \in Shas : ReusableKey(z, sha) # NoSha =>
          \/ \E i \in DOMAIN pending[z] : ReusableKey(z, sha) = pending[z][i].key
          \/ \E r \in RowsOf(db) : ReusableKey(z, sha) = r.key

\* InsertAsset adds its row and no other, and leaves the completions alone.
InsertsOnly ==
    \A d \in Db, a \in Row : /\ RowsOf(InsertAsset(d, a)) \subseteq RowsOf(d) \cup {a}
                             /\ InsertAsset(d, a).completions = d.completions

LEMMA StoreStays ==
    ASSUME StoreInv, UNCHANGED storeVars
    PROVE  StoreInv'
BY DEF storeVars, StoreInv, StoreTypeOK, OwnRowsOnly

LEMMA RowsTyped ==
    ASSUME NEW d, d.assets \in Seq(Row)
    PROVE  RowsOf(d) \subseteq Row
BY LenProperties DEF RowsOf

-----------------------------------------------------------------------------
(* One session moves, the others stay.                                     *)

\* A handler writes the memory of its own session only.
OnlySession(z) ==
    \A y \in Sessions \ {z} :
        /\ job'[y] = job[y]
        /\ uploads'[y] = uploads[y]
        /\ pending'[y] = pending[y]
        /\ sharedReuse'[y] = sharedReuse[y]
        /\ bundles'[y] = bundles[y]

\* Final keys are written and never deleted.
FinalKeysStay == \A k \in Keys : filer[k] # NoSha => filer'[k] # NoSha

\* A tmp object that no failed Delete left is that of the copy z waits for, or
\* was there before and not the one of z.
TmpStep(z) ==
    \A k \in TempKeys : filer'[k] # NoSha /\ k \notin leaked' =>
        \/ job'[z].op = "copy" /\ k = TempKey(RunOf[z], job'[z].stream)
        \/ /\ filer[k] # NoSha /\ k \notin leaked
           /\ ~(job[z].op = "copy" /\ k = TempKey(RunOf[z], job[z].stream))

\* What is known of a typed state, clause by clause.
LEMMA Typed ==
    ASSUME HipTypeOK
    PROVE  /\ db \in Db /\ work \in Db
           /\ db.assets \in Seq(Row) /\ work.assets \in Seq(Row)
           /\ RowsOf(db) \subseteq Row /\ RowsOf(work) \subseteq Row
           /\ \A z \in Sessions :
                 /\ job[z] \in JobType
                 /\ uploads[z] \in [Streams -> Upload \cup {NoUpload}]
                 /\ pending[z] \in Seq(Row)
                 /\ \A i \in DOMAIN pending[z] : pending[z][i] \in Row
                 /\ sharedReuse[z] \subseteq ReuseEntry
                 /\ bundles[z] \subseteq BundleEntry
                 /\ client[z] \in [skip : SUBSET Item, done : SUBSET File]
<1>1. db \in Db /\ work \in Db
  BY DEF HipTypeOK, StoreTypeOK
<1>2. db.assets \in Seq(Row) /\ work.assets \in Seq(Row)
  BY <1>1 DEF Db
<1>3. ASSUME NEW z \in Sessions
      PROVE  pending[z] \in Seq(Row) /\ \A i \in DOMAIN pending[z] : pending[z][i] \in Row
  <2>1. pending[z] \in Seq(Row)
    BY DEF HipTypeOK
  <2> QED
    BY <2>1, LenProperties
<1> QED
  BY <1>1, <1>2, <1>3, RowsTyped DEF HipTypeOK

\* The continuation of a handler, by its kind.
LEMMA JobCases ==
    ASSUME NEW j \in JobType
    PROVE  /\ j.op \in {"checkServer", "checkAny", "checkCompleted", "checkBaseline"} =>
                j.item \in Item
           /\ j.op \in {"beginShared", "beginBaseline"} =>
                j.stream \in Streams /\ j.file \in File
           /\ j.op = "copy" => j.stream \in Streams
           /\ j.op = "commit" =>
                /\ j \in [op : {"commit"}, i : Nat \ {0}, rows : SUBSET Row,
                           clones : SUBSET BundleEntry, reuse : SUBSET ReuseEntry,
                           comps : SUBSET [bundle : Bundles, fp : Fps, source : Sources]]
                /\ j.rows \subseteq Row /\ j.reuse \subseteq ReuseEntry
<1>1. CASE j \in {Idle, [op |-> "committed"]}
  BY <1>1 DEF Idle
<1>2. CASE j \in [op : {"checkServer", "checkAny", "checkCompleted", "checkBaseline"}, item : Item]
  BY <1>2
<1>3. CASE j \in [op : {"beginShared", "beginBaseline"}, stream : Streams, file : File]
  BY <1>3
<1>4. CASE j \in [op : {"copy"}, stream : Streams]
  BY <1>4
<1>5. CASE j \in [op : {"commit"}, i : Nat \ {0}, rows : SUBSET Row, clones : SUBSET BundleEntry,
                  reuse : SUBSET ReuseEntry,
                  comps : SUBSET [bundle : Bundles, fp : Fps, source : Sources]]
  BY <1>5
<1> QED
  BY <1>1, <1>2, <1>3, <1>4, <1>5 DEF JobType

\* A session that does not move keeps its invariant.
LEMMA StaysInv ==
    ASSUME HipTypeOK, NEW y \in Sessions, SessInv(y), FinalKeysStay,
           job'[y] = job[y], uploads'[y] = uploads[y], pending'[y] = pending[y],
           sharedReuse'[y] = sharedReuse[y], bundles'[y] = bundles[y],
           job[y].op = "commit" => UNCHANGED storeVars
    PROVE  SessInv(y)'
<1>1. ASSUME NEW r, r \in Row \/ r \in ReuseEntry, Stored(r.key) PROVE Stored(r.key)'
  BY <1>1 DEF FinalKeysStay, Stored, Row, ReuseEntry
<1>2. job[y].op = "commit" => job[y].rows \subseteq Row /\ job[y].reuse \subseteq ReuseEntry
  BY Typed, JobCases
<1>3. /\ job[y].op = "copy" => /\ uploads[y][job[y].stream] # NoUpload
                              /\ uploads[y][job[y].stream].sha # NoSha
      /\ job[y].op = "commit" =>
            /\ tx = <<ServerOf[y], VersionOf[y], HashOf[y]>>
            /\ \A r \in job[y].rows \cup job[y].reuse : Stored(r.key)
            /\ \A c, d \in job[y].comps : c.bundle = d.bundle => c = d
      /\ \A i \in DOMAIN pending[y] : /\ Stored(pending[y][i].key)
                                     /\ UploadMarked(y, pending[y][i].bundle)
      /\ \A r \in sharedReuse[y] : Stored(r.key)
  BY DEF SessInv
<1>4. \A b : UploadMarked(y, b) => UploadMarked(y, b)'
  BY DEF UploadMarked, storeVars
<1>5. ASSUME job[y].op = "commit"
      PROVE  (\A r \in job[y].rows \cup job[y].reuse : Stored(r.key))' /\ tx' = tx
  BY <1>1, <1>2, <1>3, <1>5 DEF storeVars
<1>6. (\A r \in sharedReuse[y] : Stored(r.key))'
  BY <1>1, <1>3, Typed
<1>7. (\A i \in DOMAIN pending[y] : Stored(pending[y][i].key)
                                   /\ UploadMarked(y, pending[y][i].bundle))'
  BY <1>1, <1>3, <1>4, Typed
<1> QED
  BY <1>3, <1>5, <1>6, <1>7 DEF SessInv

\* A step of session z keeps the invariant when it keeps it for z, for the
\* tables and for the tmp object of z.
LEMMA SessionMove ==
    ASSUME HipInv, NEW z \in Sessions, HipTypeOK', StoreInv',
           OnlySession(z), FinalKeysStay, TmpStep(z), crashes' = crashes,
           SessInv(z)', RowsStored',
           \/ UNCHANGED storeVars /\ (job'[z].op = "commit" => job[z].op = "commit")
           \/ \A y \in Sessions \ {z} : job[y].op # "commit"
    PROVE  HipInv'
<1>2. ASSUME NEW y \in Sessions PROVE SessInv(y)'
  <2>1. CASE y = z
    BY <2>1
  <2>2. CASE y # z
    BY <2>2, StaysInv DEF HipInv, OnlySession
  <2> QED
    BY <2>1, <2>2
<1>3. OneCommit'
  BY DEF HipInv, OneCommit, OnlySession
<1>4. TmpOwned'
  <2> SUFFICES ASSUME crashes = 0, NEW k \in TempKeys, k \notin leaked', filer'[k] # NoSha
               PROVE  \E y \in Sessions : job'[y].op = "copy" /\ k = TempKey(RunOf[y], job'[y].stream)
    BY DEF TmpOwned
  <2>1. CASE job'[z].op = "copy" /\ k = TempKey(RunOf[z], job'[z].stream)
    BY <2>1
  <2>2. CASE /\ filer[k] # NoSha /\ k \notin leaked
             /\ ~(job[z].op = "copy" /\ k = TempKey(RunOf[z], job[z].stream))
    <3>1. PICK y \in Sessions : job[y].op = "copy" /\ k = TempKey(RunOf[y], job[y].stream)
      BY <2>2 DEF HipInv, TmpOwned
    <3>2. y # z
      BY <2>2, <3>1
    <3> QED
      BY <3>1, <3>2 DEF OnlySession
  <2> QED
    BY <2>1, <2>2 DEF TmpStep
<1> QED
  BY <1>2, <1>3, <1>4 DEF HipInv

\* The same for a step that leaves the store alone.
LEMMA QuietMove ==
    ASSUME HipInv, NEW z \in Sessions, HipTypeOK', UNCHANGED storeVars,
           OnlySession(z), FinalKeysStay, TmpStep(z), crashes' = crashes,
           SessInv(z)', job'[z].op = "commit" => job[z].op = "commit"
    PROVE  HipInv'
<1>1. RowsStored'
  <2>1. db' = db /\ work' = work
    BY DEF storeVars
  <2>2. \A r \in RowsOf(db) \cup RowsOf(work) : r \in Row /\ Stored(r.key)
    BY Typed DEF HipInv, RowsStored
  <2>3. \A r \in Row : Stored(r.key) => Stored(r.key)'
    BY DEF FinalKeysStay, Stored, Row
  <2>4. RowsOf(db)' = RowsOf(db) /\ RowsOf(work)' = RowsOf(work)
    BY <2>1 DEF RowsOf
  <2> QED
    BY <2>2, <2>3, <2>4 DEF RowsStored
<1> QED
  BY <1>1, StoreStays, SessionMove DEF HipInv

\* The same for a step that leaves the filer alone as well.
LEMMA MemoryMove ==
    ASSUME HipInv, NEW z \in Sessions, HipTypeOK',
           UNCHANGED <<storeVars, filer, leaked, crashes>>,
           OnlySession(z), job[z].op # "copy", SessInv(z)',
           job'[z].op = "commit" => job[z].op = "commit"
    PROVE  HipInv'
<1>1. FinalKeysStay
  BY DEF FinalKeysStay
<1>2. TmpStep(z)
  BY DEF TmpStep
<1> QED
  BY <1>1, <1>2, QuietMove

\* Outside COMMIT a session keeps its invariant while the bundles it marked
\* uploaded stay marked.
LEMMA RestInv ==
    ASSUME HipTypeOK, NEW z \in Sessions, SessInv(z), FinalKeysStay,
           job'[z].op \notin {"copy", "commit"},
           pending'[z] = pending[z],
           \A r \in sharedReuse'[z] : r \in sharedReuse[z] \/ filer'[r.key] # NoSha,
           \A e \in bundles[z] : e.source = "uploaded" =>
               \E x \in bundles'[z] : x.bundle = e.bundle /\ x.source = "uploaded"
    PROVE  SessInv(z)'
<1>1. \A i \in DOMAIN pending[z] : /\ Stored(pending[z][i].key)
                                 /\ \E e \in bundles[z] : /\ e.bundle = pending[z][i].bundle
                                                         /\ e.source = "uploaded"
  BY DEF SessInv, UploadMarked
<1>2. \A r \in sharedReuse[z] : Stored(r.key)
  BY DEF SessInv
<1>3. \A i \in DOMAIN pending[z] : pending[z][i].key \in Keys
  BY Typed DEF Row
<1>4. \A r \in sharedReuse[z] : r.key \in Keys
  BY Typed DEF ReuseEntry
<1>5. (\A i \in DOMAIN pending[z] : UploadMarked(z, pending[z][i].bundle))'
  BY <1>1 DEF UploadMarked
<1>6. (\A i \in DOMAIN pending[z] : Stored(pending[z][i].key))'
  BY <1>1, <1>3 DEF FinalKeysStay, Stored
<1>7. (\A r \in sharedReuse[z] : Stored(r.key))'
  BY <1>2, <1>4 DEF FinalKeysStay, Stored
<1> QED
  BY <1>5, <1>6, <1>7 DEF SessInv

-----------------------------------------------------------------------------
(* HELLO and CHECK_BATCH.                                                  *)

\* rememberCheckedBundle never takes the uploaded mark from a bundle.
LEMMA RememberKeepsMarks ==
    ASSUME NEW es \in SUBSET BundleEntry, NEW b \in Bundles, NEW f \in Fps,
           NEW source \in Sources, NEW reuse \in BOOLEAN
    PROVE  /\ rememberCheckedBundle(es, b, f, source, reuse) \in SUBSET BundleEntry
           /\ \A e \in es : e.source = "uploaded" =>
                \E x \in rememberCheckedBundle(es, b, f, source, reuse) :
                    x.bundle = e.bundle /\ x.source = "uploaded"
<1> DEFINE old == {e \in es : e.bundle = b /\ e.fp = f}
           s == IF \E e \in old : e.source = "uploaded" THEN "uploaded" ELSE source
           q == reuse \/ \E e \in old : e.reuse
           n == [bundle |-> b, fp |-> f, source |-> s, reuse |-> q]
<1>1. s \in Sources
  BY DEF Sources
<1>2. q \in BOOLEAN
  OBVIOUS
<1>3. rememberCheckedBundle(es, b, f, source, reuse) = (es \ old) \cup {n}
  BY DEF rememberCheckedBundle
<1>4. (\E e \in old : e.source = "uploaded") => s = "uploaded"
  OBVIOUS
<1> HIDE DEF s, q
<1>5. n \in BundleEntry /\ n.bundle = b /\ n.source = s
  BY <1>1, <1>2 DEF BundleEntry
<1> QED
  BY <1>3, <1>4, <1>5

\* markBundleUploaded sets the mark of its bundle and takes none away.
LEMMA MarkSetsMark ==
    ASSUME NEW es \in SUBSET BundleEntry, NEW b \in Bundles, NEW f \in Fps
    PROVE  /\ markBundleUploaded(es, b, f) \in SUBSET BundleEntry
           /\ \A e \in es : e.source = "uploaded" =>
                \E x \in markBundleUploaded(es, b, f) :
                    x.bundle = e.bundle /\ x.source = "uploaded"
           /\ \E x \in markBundleUploaded(es, b, f) : x.bundle = b /\ x.source = "uploaded"
<1> DEFINE old == {e \in es : e.bundle = b /\ e.fp = f}
           q == \E e \in old : e.reuse
           n == [bundle |-> b, fp |-> f, source |-> "uploaded", reuse |-> q]
<1>1. q \in BOOLEAN
  OBVIOUS
<1>2. markBundleUploaded(es, b, f) = (es \ old) \cup {n}
  BY DEF markBundleUploaded
<1> HIDE DEF q
<1>3. n \in BundleEntry /\ n.bundle = b /\ n.source = "uploaded"
  BY <1>1 DEF BundleEntry, Sources
<1> QED
  BY <1>2, <1>3

States == {"handshake", "handshaked", "running", "committing", "finalized", "closed"}

LEMMA HelloInv ==
    ASSUME HipInv, NEW z \in Sessions, handleHello(z) \/ RetryCommit(z)
    PROVE  HipInv'
<1>1. /\ UNCHANGED <<storeVars, job, uploads, pending, sharedReuse, bundles, client,
                     filer, leaked, published, crashes>>
      /\ state' = [state EXCEPT ![z] = "handshaked"]
  BY DEF handleHello, RetryCommit
<1>2. HipTypeOK'
  BY <1>1 DEF HipInv, HipTypeOK, StoreTypeOK, storeVars
<1>3. StoreInv'
  BY <1>1, StoreStays DEF HipInv
<1>4. \A y \in Sessions : SessInv(y)'
  BY <1>1 DEF HipInv, SessInv, Stored, UploadMarked, storeVars
<1>5. OneCommit' /\ RowsStored' /\ TmpOwned'
  BY <1>1 DEF HipInv, OneCommit, RowsStored, TmpOwned, Stored, RowsOf, storeVars
<1> QED
  BY <1>2, <1>3, <1>4, <1>5 DEF HipInv

\* One query of CheckBundle, which answers or goes on to the next.
LEMMA CheckMove ==
    ASSUME HipInv, NEW z \in Sessions, NEW it \in Item, CheckFrame,
           job[z].op \notin {"copy", "commit"},
           NEW st \in States, state' = [state EXCEPT ![z] = st],
           \/ \E reuse \in BOOLEAN : AnswerSkip(z, it, reuse)
           \/ AnswerUpload(z, it)
           \/ \E next \in {"checkServer", "checkAny", "checkCompleted", "checkBaseline"} :
                Continue(z, [op |-> next, item |-> it]) /\ UNCHANGED <<bundles, client>>
    PROVE  HipInv'
<1> DEFINE Checks == {"checkServer", "checkAny", "checkCompleted", "checkBaseline"}
<1>0. it.bundle \in Bundles /\ it.fp \in Fps
  BY DEF Item
<1>1. PICK j \in JobType : job' = [job EXCEPT ![z] = j] /\ j.op \notin {"copy", "commit"}
  <2>1. Idle \in JobType /\ Idle.op \notin {"copy", "commit"}
    BY DEF JobType, Idle
  <2>2. \A next \in Checks : /\ [op |-> next, item |-> it] \in JobType
                             /\ [op |-> next, item |-> it].op \notin {"copy", "commit"}
    BY DEF JobType
  <2> QED
    BY <2>1, <2>2, Zenon DEF AnswerSkip, AnswerUpload, Continue
<1>2. PICK es \in SUBSET BundleEntry :
        /\ bundles' = [bundles EXCEPT ![z] = es]
        /\ \A e \in bundles[z] : e.source = "uploaded" =>
              \E x \in es : x.bundle = e.bundle /\ x.source = "uploaded"
  <2>1. bundles[z] \in SUBSET BundleEntry /\ bundles = [bundles EXCEPT ![z] = bundles[z]]
    BY Typed DEF HipInv, HipTypeOK
  <2>2. CASE \E reuse \in BOOLEAN : AnswerSkip(z, it, reuse)
    <3>1. "check_skip" \in Sources
      BY DEF Sources
    <3>2. PICK reuse \in BOOLEAN : AnswerSkip(z, it, reuse)
      BY <2>2
    <3> DEFINE es == rememberCheckedBundle(bundles[z], it.bundle, it.fp, "check_skip", reuse)
    <3>3. /\ es \in SUBSET BundleEntry
          /\ \A e \in bundles[z] : e.source = "uploaded" =>
                \E x \in es : x.bundle = e.bundle /\ x.source = "uploaded"
      BY <1>0, <2>1, <3>1, RememberKeepsMarks
    <3>4. bundles' = [bundles EXCEPT ![z] = es]
      BY <3>2 DEF AnswerSkip
    <3> QED
      BY <3>3, <3>4, Zenon
  <2>3. CASE AnswerUpload(z, it)
    <3>1. "zero_file" \in Sources
      BY DEF Sources
    <3>0. PICK no \in BOOLEAN : no = FALSE
      BY Zenon
    <3> DEFINE es == rememberCheckedBundle(bundles[z], it.bundle, it.fp, "zero_file", no)
    <3>2. /\ es \in SUBSET BundleEntry
          /\ \A e \in bundles[z] : e.source = "uploaded" =>
                \E x \in es : x.bundle = e.bundle /\ x.source = "uploaded"
      BY <1>0, <2>1, <3>1, RememberKeepsMarks
    <3>3. bundles' = [bundles EXCEPT ![z] = es]
      BY <2>3, <3>0, Zenon DEF AnswerUpload
    <3> QED
      BY <3>2, <3>3, Zenon
  <2>4. CASE UNCHANGED bundles
    BY <2>1, <2>4
  <2> QED
    BY <2>2, <2>3, <2>4
<1>3. client' \in [Sessions -> [skip : SUBSET Item, done : SUBSET File]]
  <2>1. client \in [Sessions -> [skip : SUBSET Item, done : SUBSET File]]
    BY DEF HipInv, HipTypeOK
  <2>2. CASE UNCHANGED client
    BY <2>1, <2>2
  <2>3. CASE client' = [client EXCEPT ![z].skip = @ \cup {it}]
    BY <2>1, <2>3
  <2> QED
    BY <2>2, <2>3, Zenon DEF AnswerSkip, AnswerUpload
<1>4. HipTypeOK'
  BY <1>1, <1>2, <1>3, Zenon DEF HipInv, HipTypeOK, StoreTypeOK, storeVars, CheckFrame, States
<1>5. UNCHANGED <<storeVars, filer, leaked, crashes, uploads, pending, sharedReuse>>
  BY DEF CheckFrame
<1>6. job'[z] = j /\ bundles'[z] = es /\ OnlySession(z)
  BY <1>1, <1>2, <1>5 DEF HipInv, HipTypeOK, OnlySession
<1>7. FinalKeysStay
  BY <1>5 DEF FinalKeysStay
<1>8. SessInv(z)'
  BY <1>1, <1>2, <1>5, <1>6, <1>7, RestInv DEF HipInv
<1> QED
  BY <1>1, <1>4, <1>5, <1>6, <1>8, MemoryMove

\* The queries of CHECK_BATCH.
LEMMA CheckInv ==
    ASSUME HipInv, NEW z \in Sessions,
           \/ \E it \in Items(z) : handleCheckBatch(z, it)
           \/ CheckServer(z)
           \/ CheckAny(z)
           \/ CheckCompleted(z)
           \/ CheckBaseline(z)
    PROVE  HipInv'
<1> DEFINE Checks == {"checkServer", "checkAny", "checkCompleted", "checkBaseline"}
<1>0. /\ state[z] \in States /\ "running" \in States
      /\ state = [state EXCEPT ![z] = state[z]]
  BY DEF HipInv, HipTypeOK, States
<1>1. job[z].op \in Checks => job[z].item \in Item
  BY Typed, JobCases DEF HipInv
<1>2. CASE \E it \in Items(z) : handleCheckBatch(z, it)
  <2>1. PICK it \in Items(z) : handleCheckBatch(z, it)
    BY <1>2
  <2>2. it \in Item
    BY SessionsAssumption DEF Items, Item, File
  <2>3. job[z].op \notin {"copy", "commit"}
    BY <2>1 DEF handleCheckBatch, Accepts, Ready, Idle
  <2>4. /\ state' = [state EXCEPT ![z] = "running"] /\ CheckFrame
        /\ \/ \E reuse \in BOOLEAN : AnswerSkip(z, it, reuse)
           \/ /\ Continue(z, [op |-> "checkServer", item |-> it])
              /\ UNCHANGED <<bundles, client>>
    BY <2>1, Zenon DEF handleCheckBatch, CheckQuery
  <2> QED
    BY <1>0, <2>2, <2>3, <2>4, CheckMove, Zenon
<1>3. CASE CheckServer(z)
  <2>1. job[z].op = "checkServer" /\ job[z].item \in Item
    BY <1>1, <1>3 DEF CheckServer
  <2>2. /\ state' = state /\ CheckFrame
        /\ \/ \E reuse \in BOOLEAN : AnswerSkip(z, job[z].item, reuse)
           \/ /\ Continue(z, [op |-> "checkAny", item |-> job[z].item])
              /\ UNCHANGED <<bundles, client>>
    BY <1>3, Zenon DEF CheckServer, CheckQuery
  <2> QED
    BY <1>0, <2>1, <2>2, CheckMove, Zenon
<1>4. CASE CheckAny(z)
  <2>1. job[z].op = "checkAny" /\ job[z].item \in Item
    BY <1>1, <1>4 DEF CheckAny
  <2>2. /\ state' = state /\ CheckFrame
        /\ \/ \E reuse \in BOOLEAN : AnswerSkip(z, job[z].item, reuse)
           \/ /\ Continue(z, [op |-> "checkCompleted", item |-> job[z].item])
              /\ UNCHANGED <<bundles, client>>
    BY <1>4, Zenon DEF CheckAny, CheckQuery
  <2> QED
    BY <1>0, <2>1, <2>2, CheckMove, Zenon
<1>5. CASE CheckCompleted(z)
  <2>1. job[z].op = "checkCompleted" /\ job[z].item \in Item
    BY <1>1, <1>5 DEF CheckCompleted
  <2>2. /\ state' = state /\ CheckFrame
        /\ \/ \E reuse \in BOOLEAN : AnswerSkip(z, job[z].item, reuse)
           \/ /\ Continue(z, [op |-> "checkBaseline", item |-> job[z].item])
              /\ UNCHANGED <<bundles, client>>
    BY <1>5, Zenon DEF CheckCompleted, CheckQuery
  <2> QED
    BY <1>0, <2>1, <2>2, CheckMove, Zenon
<1>6. CASE CheckBaseline(z)
  <2>1. job[z].op = "checkBaseline" /\ job[z].item \in Item
    BY <1>1, <1>6 DEF CheckBaseline
  <2>2. /\ state' = state /\ CheckFrame
        /\ \/ \E reuse \in BOOLEAN : AnswerSkip(z, job[z].item, reuse)
           \/ AnswerUpload(z, job[z].item)
    BY <1>6, Zenon DEF CheckBaseline
  <2> QED
    BY <1>0, <2>1, <2>2, CheckMove, Zenon
<1> QED
  BY <1>2, <1>3, <1>4, <1>5, <1>6

-----------------------------------------------------------------------------
(* UPLOAD_BEGIN and UPLOAD_CHUNK.                                          *)

\* One query of CheckPath, which answers or goes on to the next.
LEMMA BeginMove ==
    ASSUME HipInv, NEW z \in Sessions, NEW m \in Streams, NEW file \in File,
           job[z].op \notin {"copy", "commit"},
           UNCHANGED <<storeVars, pending, bundles, filer, leaked, published, crashes>>,
           NEW st \in States, state' = [state EXCEPT ![z] = st],
           \/ RejectPresent(z, file) /\ UNCHANGED sharedReuse
           \/ \E key \in Keys : Stored(key) /\ RejectReuse(z, file, key)
           \/ \E placement \in {"SHARED", "OVERRIDE"} : newInflight(z, m, file, placement)
           \/ \E next \in {"beginShared", "beginBaseline"} :
                /\ Continue(z, [op |-> next, stream |-> m, file |-> file])
                /\ UNCHANGED <<uploads, sharedReuse, client>>
    PROVE  HipInv'
<1>1. PICK j \in JobType : job' = [job EXCEPT ![z] = j] /\ j.op \notin {"copy", "commit"}
  <2>1. Idle \in JobType /\ Idle.op \notin {"copy", "commit"}
    BY DEF JobType, Idle
  <2>2. \A next \in {"beginShared", "beginBaseline"} :
            /\ [op |-> next, stream |-> m, file |-> file] \in JobType
            /\ [op |-> next, stream |-> m, file |-> file].op \notin {"copy", "commit"}
    BY DEF JobType
  <2> QED
    BY <2>1, <2>2 DEF RejectPresent, RejectReuse, newInflight, Continue
<1>2. PICK us \in [Streams -> Upload \cup {NoUpload}] : uploads' = [uploads EXCEPT ![z] = us]
  <2>1. uploads[z] \in [Streams -> Upload \cup {NoUpload}]
        /\ uploads = [uploads EXCEPT ![z] = uploads[z]]
    BY DEF HipInv, HipTypeOK
  <2>2. CASE UNCHANGED uploads
    BY <2>1, <2>2
  <2>3. ASSUME NEW placement \in {"SHARED", "OVERRIDE"}, newInflight(z, m, file, placement)
        PROVE  \E us \in [Streams -> Upload \cup {NoUpload}] :
                   uploads' = [uploads EXCEPT ![z] = us]
    <3> DEFINE u == [op |-> "upload", file |-> file, placement |-> placement, sha |-> NoSha]
    <3>1. u \in Upload
      BY DEF Upload
    <3>2. uploads' = [uploads EXCEPT ![z] = [uploads[z] EXCEPT ![m] = u]]
      BY <2>3 DEF newInflight, HipInv, HipTypeOK
    <3> HIDE DEF u
    <3>3. [uploads[z] EXCEPT ![m] = u] \in [Streams -> Upload \cup {NoUpload}]
      BY <2>1, <3>1
    <3> QED
      BY <3>2, <3>3, Zenon
  <2> QED
    BY <2>2, <2>3 DEF RejectPresent, RejectReuse
<1>3. PICK rs \in SUBSET ReuseEntry :
        /\ sharedReuse' = [sharedReuse EXCEPT ![z] = rs]
        /\ \A r \in rs : r \in sharedReuse[z] \/ Stored(r.key)
  <2>1. sharedReuse[z] \in SUBSET ReuseEntry
        /\ sharedReuse = [sharedReuse EXCEPT ![z] = sharedReuse[z]]
    BY DEF HipInv, HipTypeOK
  <2>2. CASE UNCHANGED sharedReuse
    BY <2>1, <2>2
  <2>3. ASSUME NEW key \in Keys, Stored(key), RejectReuse(z, file, key)
        PROVE  \E rs \in SUBSET ReuseEntry :
                 /\ sharedReuse' = [sharedReuse EXCEPT ![z] = rs]
                 /\ \A r \in rs : r \in sharedReuse[z] \/ Stored(r.key)
    <3> DEFINE rs == rememberSharedReuse(sharedReuse[z], file, key)
               e == [bundle |-> file.bundle, path |-> file.path, fp |-> file.fp, key |-> key]
    <3>1. e \in ReuseEntry /\ e.key = key
      BY DEF ReuseEntry, File
    <3>2. rs \in SUBSET ReuseEntry /\ \A r \in rs : r \in sharedReuse[z] \/ r = e
      BY <2>1, <3>1 DEF rememberSharedReuse
    <3>3. sharedReuse' = [sharedReuse EXCEPT ![z] = rs]
      BY <2>3 DEF RejectReuse
    <3> HIDE DEF rs, e
    <3> QED
      BY <2>3, <3>1, <3>2, <3>3, Zenon
  <2> QED
    BY <2>2, <2>3, Zenon DEF newInflight
<1>4. client' \in [Sessions -> [skip : SUBSET Item, done : SUBSET File]]
  <2>1. client \in [Sessions -> [skip : SUBSET Item, done : SUBSET File]]
    BY DEF HipInv, HipTypeOK
  <2>2. CASE UNCHANGED client
    BY <2>1, <2>2
  <2>3. CASE client' = [client EXCEPT ![z].done = @ \cup {file}]
    BY <2>1, <2>3
  <2> QED
    BY <2>2, <2>3 DEF RejectPresent, RejectReuse, newInflight, AckDone
<1>5. HipTypeOK'
  BY <1>1, <1>2, <1>3, <1>4, Zenon DEF HipInv, HipTypeOK, StoreTypeOK, storeVars, States
<1>6. job'[z] = j /\ sharedReuse'[z] = rs /\ OnlySession(z)
  BY <1>1, <1>2, <1>3 DEF HipInv, HipTypeOK, OnlySession
<1>7. FinalKeysStay
  BY DEF FinalKeysStay
<1>8. \A r \in sharedReuse'[z] : r \in sharedReuse[z] \/ filer'[r.key] # NoSha
  BY <1>3, <1>6 DEF Stored
<1>9. SessInv(z)'
  BY <1>1, <1>6, <1>7, <1>8, RestInv DEF HipInv
<1> QED
  BY <1>1, <1>5, <1>6, <1>9, MemoryMove

\* The queries of UPLOAD_BEGIN: a key that is reused is that of a committed row.
LEMMA BeginInv ==
    ASSUME HipInv, QueriesAnswer, NEW z \in Sessions,
           \/ \E m \in Streams, f \in Offers[z] : handleUploadBegin(z, m, f)
           \/ BeginShared(z)
           \/ BeginBaseline(z)
    PROVE  HipInv'
<1>0. /\ state[z] \in States /\ "running" \in States
      /\ state = [state EXCEPT ![z] = state[z]]
  BY DEF HipInv, HipTypeOK, States
<1>1. job[z].op \in {"beginShared", "beginBaseline"} =>
          job[z].stream \in Streams /\ job[z].file \in File
  BY Typed, JobCases DEF HipInv
<1>2. \A r \in RowsOf(db) : r.key \in Keys /\ Stored(r.key)
  BY Typed DEF HipInv, RowsStored, Row
<1>3. CASE \E m \in Streams, f \in Offers[z] : handleUploadBegin(z, m, f)
  <2>1. PICK m \in Streams, f \in Offers[z] : handleUploadBegin(z, m, f)
    BY <1>3
  <2>2. f \in File
    BY SessionsAssumption
  <2>3. job[z].op \notin {"copy", "commit"}
    BY <2>1 DEF handleUploadBegin, Accepts, Ready, Idle
  <2>4. /\ UNCHANGED <<storeVars, pending, bundles, filer, leaked, published, crashes>>
        /\ state' = [state EXCEPT ![z] = "running"]
        /\ \/ RejectPresent(z, f) /\ UNCHANGED sharedReuse
           \/ /\ Continue(z, [op |-> "beginShared", stream |-> m, file |-> f])
              /\ UNCHANGED <<uploads, sharedReuse, client>>
    BY <2>1 DEF handleUploadBegin
  <2> QED
    BY <1>0, <2>2, <2>3, <2>4, BeginMove, Zenon
<1>4. CASE BeginShared(z)
  <2> DEFINE j == job[z]
             r == SharedExactMatch(db, j.file.path, j.file.fp)
  <2>1. j.op = "beginShared" /\ j.stream \in Streams /\ j.file \in File
    BY <1>1, <1>4 DEF BeginShared
  <2>2. r # NoRow => r.key \in Keys /\ Stored(r.key)
    BY <1>2 DEF QueriesAnswer
  <2>3. /\ UNCHANGED <<storeVars, pending, bundles, filer, leaked, published, crashes>>
        /\ state' = state
        /\ \/ r # NoRow /\ RejectReuse(z, j.file, r.key)
           \/ /\ Continue(z, [op |-> "beginBaseline", stream |-> j.stream, file |-> j.file])
              /\ UNCHANGED <<uploads, sharedReuse, client>>
    BY <1>4 DEF BeginShared
  <2> HIDE DEF r
  <2>4. \/ \E key \in Keys : Stored(key) /\ RejectReuse(z, j.file, key)
        \/ /\ Continue(z, [op |-> "beginBaseline", stream |-> j.stream, file |-> j.file])
           /\ UNCHANGED <<uploads, sharedReuse, client>>
    BY <2>2, <2>3
  <2> QED
    BY <1>0, <2>1, <2>3, <2>4, BeginMove, Zenon
<1>5. CASE BeginBaseline(z)
  <2> DEFINE j == job[z]
             r == CurrentSharedByPath(db, j.file.path)
  <2>1. j.op = "beginBaseline" /\ j.stream \in Streams /\ j.file \in File
    BY <1>1, <1>5 DEF BeginBaseline
  <2>2. r # NoRow => r.key \in Keys /\ Stored(r.key)
    BY <1>2 DEF QueriesAnswer
  <2>3. /\ UNCHANGED <<storeVars, pending, bundles, filer, leaked, published, crashes>>
        /\ state' = state
        /\ \/ r # NoRow /\ RejectReuse(z, j.file, r.key)
           \/ newInflight(z, j.stream, j.file, "SHARED")
           \/ newInflight(z, j.stream, j.file, "OVERRIDE")
    BY <1>5 DEF BeginBaseline
  <2> HIDE DEF r
  <2>4. \/ \E key \in Keys : Stored(key) /\ RejectReuse(z, j.file, key)
        \/ \E placement \in {"SHARED", "OVERRIDE"} :
               newInflight(z, j.stream, j.file, placement)
    BY <2>2, <2>3
  <2> QED
    BY <1>0, <2>1, <2>3, <2>4, BeginMove, Zenon
<1> QED
  BY <1>3, <1>4, <1>5

LEMMA ChunkInv ==
    ASSUME HipInv, NEW z \in Sessions, NEW m \in Streams, NEW x \in Shas,
           handleUploadChunk(z, m, x)
    PROVE  HipInv'
<1> DEFINE u == [uploads[z][m] EXCEPT !.sha = x]
           us == [uploads[z] EXCEPT ![m] = u]
<1>1. /\ job[z] = Idle /\ uploads[z][m] # NoUpload
      /\ UNCHANGED <<storeVars, state, job, pending, sharedReuse, bundles, client, filer,
                     leaked, published, crashes>>
  BY DEF handleUploadChunk, InFlight, Ready
<1>2. uploads' = [uploads EXCEPT ![z] = us]
  BY DEF handleUploadChunk, HipInv, HipTypeOK
<1>3. uploads[z] \in [Streams -> Upload \cup {NoUpload}] /\ uploads[z][m] \in Upload
  BY <1>1, Typed DEF HipInv
<1>4. u \in Upload
  BY <1>3 DEF Upload
<1> HIDE DEF u
<1>5. us \in [Streams -> Upload \cup {NoUpload}]
  BY <1>3, <1>4
<1> HIDE DEF us
<1>6. HipTypeOK'
  BY <1>1, <1>2, <1>5 DEF HipInv, HipTypeOK, StoreTypeOK, storeVars
<1>7. OnlySession(z) /\ FinalKeysStay
  BY <1>1, <1>2 DEF HipInv, HipTypeOK, OnlySession, FinalKeysStay
<1>8. job[z].op \notin {"copy", "commit"} /\ job'[z].op \notin {"copy", "commit"}
  BY <1>1 DEF Idle
<1>9. SessInv(z)'
  BY <1>1, <1>7, <1>8, RestInv DEF HipInv
<1> QED
  BY <1>1, <1>6, <1>7, <1>8, <1>9, MemoryMove

-----------------------------------------------------------------------------
(* Tmp objects.                                                            *)

LEMMA TempKeyIs ==
    ASSUME NEW z \in Sessions, NEW m \in Streams
    PROVE  TempKey(RunOf[z], m) \in TempKeys
BY DEF TempKeys

\* An abort removes tmp objects and nothing else.
LEMMA AbortIs ==
    ASSUME HipTypeOK, NEW keys \in SUBSET TempKeys, AbortTmp(keys)
    PROVE  /\ filer' \in [Keys \cup TempKeys -> Shas \cup {NoSha}]
           /\ leaked' \subseteq TempKeys
           /\ FinalKeysStay
           /\ \A c \in TempKeys : filer'[c] # NoSha /\ c \notin leaked' =>
                filer[c] # NoSha /\ c \notin leaked
<1>1. filer \in [Keys \cup TempKeys -> Shas \cup {NoSha}] /\ leaked \subseteq TempKeys
  BY DEF HipTypeOK
<1>2. PICK gone \in SUBSET keys :
        /\ filer' = [k \in DOMAIN filer |-> IF k \in gone THEN NoSha ELSE filer[k]]
        /\ leaked' = leaked \ gone
  BY DEF AbortTmp
<1> QED
  BY <1>1, <1>2, KeysAssumption DEF FinalKeysStay

\* A deletion touches its key alone, and leaves an object there only as a leak.
LEMMA DeleteIs ==
    ASSUME HipTypeOK, NEW f \in [Keys \cup TempKeys -> Shas \cup {NoSha}],
           NEW k \in TempKeys, NEW x \in Shas \cup {NoSha}, DeleteTmp(f, k, x)
    PROVE  /\ filer' \in [Keys \cup TempKeys -> Shas \cup {NoSha}]
           /\ leaked' \subseteq TempKeys
           /\ \A c \in Keys : filer'[c] = f[c]
           /\ \A c \in TempKeys : filer'[c] # NoSha /\ c \notin leaked' =>
                c # k /\ f[c] # NoSha /\ c \notin leaked
<1>1. leaked \subseteq TempKeys
  BY DEF HipTypeOK
<1> QED
  BY <1>1, KeysAssumption DEF DeleteTmp

\* A stream is dropped, with or without its tmp object.
LEMMA DropMove ==
    ASSUME HipInv, NEW z \in Sessions, NEW m \in Streams, dropInflight(z, m),
           job[z].op # "commit", job' = [job EXCEPT ![z] = Idle],
           UNCHANGED <<storeVars, state, pending, sharedReuse, bundles, client, published,
                       crashes>>,
           filer' \in [Keys \cup TempKeys -> Shas \cup {NoSha}], leaked' \subseteq TempKeys,
           FinalKeysStay, TmpStep(z)
    PROVE  HipInv'
<1>1. Idle \in JobType /\ Idle.op \notin {"copy", "commit"}
  BY DEF Idle, JobType
<1>2. uploads' = [uploads EXCEPT ![z] = [uploads[z] EXCEPT ![m] = NoUpload]]
  BY DEF dropInflight, HipInv, HipTypeOK
<1>3. [uploads[z] EXCEPT ![m] = NoUpload] \in [Streams -> Upload \cup {NoUpload}]
  BY Typed DEF HipInv
<1>4. HipTypeOK'
  BY <1>1, <1>2, <1>3 DEF HipInv, HipTypeOK, StoreTypeOK, storeVars
<1>5. job'[z] = Idle /\ OnlySession(z)
  BY <1>2 DEF HipInv, HipTypeOK, OnlySession
<1>6. SessInv(z)'
  BY <1>1, <1>5, RestInv DEF HipInv
<1> QED
  BY <1>1, <1>4, <1>5, <1>6, QuietMove

\* The rejections of UPLOAD_END: a broken PUT, a mismatch, a failed copy.
LEMMA RejectInv ==
    ASSUME HipInv, NEW z \in Sessions,
           \/ \E m \in Streams : finishInflight(z, m)
           \/ \E m \in Streams : EndMismatch(z, m)
           \/ EndCopyFails(z)
    PROVE  HipInv'
<1>0. HipTypeOK /\ filer \in [Keys \cup TempKeys -> Shas \cup {NoSha}]
      /\ job \in [Sessions -> JobType]
  BY DEF HipInv, HipTypeOK
<1>1. CASE \E m \in Streams : finishInflight(z, m)
  <2>1. PICK m \in Streams : finishInflight(z, m)
    BY <1>1
  <2>2. job[z] = Idle /\ job[z].op = "idle"
    BY <2>1 DEF finishInflight, InFlight, Ready, Idle
  <2>3. {TempKey(RunOf[z], m)} \in SUBSET TempKeys
    BY TempKeyIs
  <2>4. AbortTmp({TempKey(RunOf[z], m)}) /\ dropInflight(z, m)
        /\ UNCHANGED <<storeVars, state, job, pending, sharedReuse, bundles, client,
                       published, crashes>>
    BY <2>1 DEF finishInflight
  <2>5. /\ filer' \in [Keys \cup TempKeys -> Shas \cup {NoSha}]
        /\ leaked' \subseteq TempKeys
        /\ FinalKeysStay
        /\ \A c \in TempKeys : filer'[c] # NoSha /\ c \notin leaked' =>
             filer[c] # NoSha /\ c \notin leaked
    BY <1>0, <2>3, <2>4, AbortIs
  <2>6. TmpStep(z)
    BY <2>2, <2>5 DEF TmpStep
  <2>7. job' = [job EXCEPT ![z] = Idle]
    BY <1>0, <2>2, <2>4
  <2> QED
    BY <2>2, <2>4, <2>5, <2>6, <2>7, DropMove, Zenon
<1>2. CASE \E m \in Streams : EndMismatch(z, m)
  <2>1. PICK m \in Streams : EndMismatch(z, m)
    BY <1>2
  <2>2. job[z] = Idle /\ job[z].op = "idle" /\ uploads[z][m] # NoUpload
    BY <2>1 DEF EndMismatch, InFlight, Ready, Idle
  <2>3. uploads[z][m].sha \in Shas \cup {NoSha}
    BY <1>0, <2>2, Typed DEF Upload
  <2>4. DeleteTmp(filer, TempKey(RunOf[z], m), uploads[z][m].sha) /\ dropInflight(z, m)
        /\ UNCHANGED <<storeVars, state, job, pending, sharedReuse, bundles, client,
                       published, crashes>>
    BY <2>1 DEF EndMismatch
  <2>5. /\ filer' \in [Keys \cup TempKeys -> Shas \cup {NoSha}]
        /\ leaked' \subseteq TempKeys
        /\ \A c \in Keys : filer'[c] = filer[c]
        /\ \A c \in TempKeys : filer'[c] # NoSha /\ c \notin leaked' =>
             filer[c] # NoSha /\ c \notin leaked
    BY <1>0, <2>3, <2>4, TempKeyIs, DeleteIs
  <2>6. TmpStep(z) /\ FinalKeysStay
    BY <2>2, <2>5 DEF TmpStep, FinalKeysStay
  <2>7. job' = [job EXCEPT ![z] = Idle]
    BY <1>0, <2>2, <2>4
  <2> QED
    BY <2>2, <2>4, <2>5, <2>6, <2>7, DropMove, Zenon
<1>3. CASE EndCopyFails(z)
  <2> DEFINE m == job[z].stream
             k == TempKey(RunOf[z], m)
  <2>1. job[z].op = "copy" /\ m \in Streams
    BY <1>0, <1>3, JobCases DEF EndCopyFails
  <2>2. k \in TempKeys /\ filer[k] \in Shas \cup {NoSha}
    BY <1>0, <2>1, TempKeyIs
  <2>3. DeleteTmp(filer, k, filer[k]) /\ dropInflight(z, m)
        /\ job' = [job EXCEPT ![z] = Idle]
        /\ UNCHANGED <<storeVars, state, pending, sharedReuse, bundles, client, published,
                       crashes>>
    BY <1>3 DEF EndCopyFails, Continue
  <2>4. /\ filer' \in [Keys \cup TempKeys -> Shas \cup {NoSha}]
        /\ leaked' \subseteq TempKeys
        /\ \A c \in Keys : filer'[c] = filer[c]
        /\ \A c \in TempKeys : filer'[c] # NoSha /\ c \notin leaked' =>
             c # k /\ filer[c] # NoSha /\ c \notin leaked
    BY <1>0, <2>2, <2>3, DeleteIs
  <2>5. TmpStep(z) /\ FinalKeysStay
    BY <2>4 DEF TmpStep, FinalKeysStay
  <2> HIDE DEF m
  <2> QED
    BY <2>1, <2>3, <2>4, <2>5, DropMove, Zenon
<1> QED
  BY <1>1, <1>2, <1>3

-----------------------------------------------------------------------------
(* UPLOAD_END.                                                             *)

\* A stored stream becomes a pending row whose key has an object.
LEMMA RecordMove ==
    ASSUME HipInv, NEW z \in Sessions, NEW m \in Streams, uploads[z][m] # NoUpload,
           NEW key \in Keys, filer'[key] # NoSha, RecordPending(z, m, key),
           job[z].op # "commit",
           UNCHANGED <<storeVars, state, sharedReuse, published, crashes>>,
           filer' \in [Keys \cup TempKeys -> Shas \cup {NoSha}], leaked' \subseteq TempKeys,
           FinalKeysStay,
           \A c \in TempKeys : filer'[c] # NoSha /\ c \notin leaked' =>
               /\ filer[c] # NoSha /\ c \notin leaked
               /\ ~(job[z].op = "copy" /\ c = TempKey(RunOf[z], job[z].stream))
    PROVE  HipInv'
<1> DEFINE u == uploads[z][m]
           row == [server |-> ServerOf[z], bundle |-> u.file.bundle, path |-> u.file.path,
                   version |-> VersionOf[z], fp |-> u.file.fp, sha |-> u.sha,
                   override |-> (u.placement = "OVERRIDE"), key |-> key]
           ps == Append(pending[z], row)
           es == markBundleUploaded(bundles[z], u.file.bundle, u.file.fp)
<1>1. /\ Idle \in JobType /\ Idle.op \notin {"copy", "commit"}
      /\ job' = [job EXCEPT ![z] = Idle]
  BY DEF Idle, JobType, RecordPending, Continue
<1>2. u \in Upload /\ u.file \in File /\ u.file.bundle \in Bundles /\ u.file.fp \in Fps
      /\ u.file.path \in Paths /\ u.sha \in Shas \cup {NoSha}
  BY Typed DEF HipInv, Upload, File
<1>3. row \in Row /\ row.key = key /\ row.bundle = u.file.bundle
  BY <1>2, SessionsAssumption DEF Row
<1>4. /\ pending' = [pending EXCEPT ![z] = ps]
      /\ bundles' = [bundles EXCEPT ![z] = es]
      /\ dropInflight(z, m)
      /\ client' = [client EXCEPT ![z].done = @ \cup {u.file}]
  BY DEF RecordPending, AckDone
<1>5. /\ es \in SUBSET BundleEntry
      /\ \A e \in bundles[z] : e.source = "uploaded" =>
            \E x \in es : x.bundle = e.bundle /\ x.source = "uploaded"
      /\ \E x \in es : x.bundle = u.file.bundle /\ x.source = "uploaded"
  <2>1. bundles[z] \in SUBSET BundleEntry
    BY Typed DEF HipInv
  <2> HIDE DEF u
  <2> QED
    BY <1>2, <2>1, MarkSetsMark
<1> HIDE DEF row, es
<1>6. /\ ps \in Seq(Row)
      /\ DOMAIN ps = DOMAIN pending[z] \cup {Len(pending[z]) + 1}
      /\ \A i \in DOMAIN pending[z] : ps[i] = pending[z][i]
      /\ ps[Len(pending[z]) + 1] = row
  <2>1. pending[z] \in Seq(Row)
    BY Typed DEF HipInv
  <2>2. /\ ps \in Seq(Row) /\ Len(ps) = Len(pending[z]) + 1
        /\ \A i \in 1..Len(pending[z]) : ps[i] = pending[z][i]
        /\ ps[Len(pending[z]) + 1] = row
    BY <1>3, <2>1, AppendProperties
  <2>3. DOMAIN ps = 1..Len(ps) /\ DOMAIN pending[z] = 1..Len(pending[z])
        /\ Len(pending[z]) \in Nat
    BY <2>1, <2>2, LenProperties
  <2> HIDE DEF ps
  <2>4. 1..(Len(pending[z]) + 1) = 1..Len(pending[z]) \cup {Len(pending[z]) + 1}
    BY <2>3
  <2> QED
    BY <2>2, <2>3, <2>4
<1> HIDE DEF ps
<1>7. HipTypeOK'
  <2>1. uploads' = [uploads EXCEPT ![z] = [uploads[z] EXCEPT ![m] = NoUpload]]
    BY <1>4 DEF dropInflight, HipInv, HipTypeOK
  <2>2. [uploads[z] EXCEPT ![m] = NoUpload] \in [Streams -> Upload \cup {NoUpload}]
    BY Typed DEF HipInv
  <2>3. client' \in [Sessions -> [skip : SUBSET Item, done : SUBSET File]]
    BY <1>2, <1>4, Zenon DEF HipInv, HipTypeOK
  <2> HIDE DEF u
  <2> QED
    BY <1>1, <1>4, <1>5, <1>6, <2>1, <2>2, <2>3, Zenon DEF HipInv, HipTypeOK, StoreTypeOK, storeVars
<1>8. job'[z] = Idle /\ pending'[z] = ps /\ bundles'[z] = es /\ OnlySession(z)
  BY <1>1, <1>4 DEF HipInv, HipTypeOK, OnlySession, dropInflight
<1>9. TmpStep(z)
  BY DEF TmpStep
<1>10. SessInv(z)'
  <2>1. \A i \in DOMAIN pending[z] : /\ Stored(pending[z][i].key)
                                   /\ pending[z][i].key \in Keys
                                   /\ \E e \in bundles[z] : /\ e.bundle = pending[z][i].bundle
                                                           /\ e.source = "uploaded"
    <3>1. \A i \in DOMAIN pending[z] : pending[z][i].key \in Keys
      BY Typed DEF HipInv, Row
    <3>2. SessInv(z)
      BY DEF HipInv
    <3> QED
      BY <3>1, <3>2 DEF SessInv, UploadMarked
  <2>2. \A i \in DOMAIN ps : /\ filer'[ps[i].key] # NoSha
                           /\ \E x \in es : x.bundle = ps[i].bundle /\ x.source = "uploaded"
    BY <1>3, <1>5, <1>6, <2>1 DEF FinalKeysStay, Stored
  <2>3. \A r \in sharedReuse[z] : r.key \in Keys /\ Stored(r.key)
    BY Typed DEF HipInv, SessInv, ReuseEntry
  <2> QED
    BY <1>1, <1>8, <2>2, <2>3 DEF SessInv, UploadMarked, Stored, FinalKeysStay
<1> QED
  BY <1>1, <1>7, <1>8, <1>9, <1>10, QuietMove

\* UPLOAD_END: a reused key is that of a pending or committed row, which has an
\* object; a copied one has the object the copy wrote.
LEMMA EndInv ==
    ASSUME HipInv, QueriesAnswer, NEW z \in Sessions,
           \/ \E m \in Streams, declares \in BOOLEAN : handleUploadEnd(z, m, declares)
           \/ EndCopy(z)
    PROVE  HipInv'
<1>0. HipTypeOK /\ SessInv(z) /\ filer \in [Keys \cup TempKeys -> Shas \cup {NoSha}]
      /\ job \in [Sessions -> JobType]
  BY DEF HipInv, HipTypeOK
<1>1. ASSUME NEW m \in Streams, NEW declares \in BOOLEAN, handleUploadEnd(z, m, declares)
      PROVE  HipInv'
  <2> DEFINE u == uploads[z][m]
             k == TempKey(RunOf[z], m)
  <2>1. /\ job[z] = Idle /\ job[z].op = "idle" /\ u # NoUpload /\ u.sha # NoSha
        /\ UNCHANGED <<storeVars, state, sharedReuse, published, crashes>>
    BY <1>1 DEF handleUploadEnd, InFlight, Ready, Idle, verifyEnd
  <2>2. k \in TempKeys /\ u.sha \in Shas
    BY <1>0, <2>1, Typed, TempKeyIs DEF Upload
  <2>3. CASE /\ ReusableKey(z, u.sha) # NoSha
             /\ RecordPending(z, m, ReusableKey(z, u.sha))
             /\ DeleteTmp(filer, k, u.sha)
    <3> DEFINE key == ReusableKey(z, u.sha)
    <3>1. key \in Keys /\ filer[key] # NoSha
      <4>1. \/ \E i \in DOMAIN pending[z] : key = pending[z][i].key
            \/ \E r \in RowsOf(db) : key = r.key
        BY <2>2, <2>3 DEF QueriesAnswer
      <4>2. \A i \in DOMAIN pending[z] : pending[z][i].key \in Keys
        BY <1>0, Typed DEF Row
      <4>3. \A i \in DOMAIN pending[z] : filer[pending[z][i].key] # NoSha
        BY <1>0 DEF SessInv, Stored
      <4>4. \A r \in RowsOf(db) : r.key \in Keys /\ filer[r.key] # NoSha
        BY Typed DEF HipInv, RowsStored, Stored, Row
      <4> HIDE DEF key
      <4> QED
        BY <4>1, <4>2, <4>3, <4>4
    <3>2. /\ filer' \in [Keys \cup TempKeys -> Shas \cup {NoSha}]
          /\ leaked' \subseteq TempKeys
          /\ \A c \in Keys : filer'[c] = filer[c]
          /\ \A c \in TempKeys : filer'[c] # NoSha /\ c \notin leaked' =>
               filer[c] # NoSha /\ c \notin leaked
      BY <1>0, <2>2, <2>3, DeleteIs
    <3>3. FinalKeysStay
      BY <3>2 DEF FinalKeysStay
    <3>4. RecordPending(z, m, key)
      BY <2>3
    <3> HIDE DEF key
    <3> QED
      BY <2>1, <3>1, <3>2, <3>3, <3>4, RecordMove
  <2>4. CASE /\ Continue(z, [op |-> "copy", stream |-> m])
             /\ filer' = [filer EXCEPT ![k] = u.sha]
             /\ UNCHANGED <<leaked, uploads, pending, bundles, client>>
    <3> DEFINE j == [op |-> "copy", stream |-> m]
    <3>1. j \in JobType /\ j.op = "copy" /\ j.stream = m
      BY DEF JobType
    <3> HIDE DEF j
    <3>2. job' = [job EXCEPT ![z] = j] /\ job'[z] = j
      BY <1>0, <2>4 DEF Continue, j
    <3>3. /\ filer' \in [Keys \cup TempKeys -> Shas \cup {NoSha}]
          /\ FinalKeysStay /\ (\A c \in TempKeys \ {k} : filer'[c] = filer[c])
      BY <1>0, <2>2, <2>4, KeysAssumption DEF FinalKeysStay
    <3>4. HipTypeOK'
      BY <1>0, <2>1, <2>4, <3>1, <3>2, <3>3 DEF HipTypeOK, StoreTypeOK, storeVars
    <3>5. OnlySession(z)
      BY <1>0, <2>1, <2>4, <3>2 DEF OnlySession
    <3>6. TmpStep(z)
      BY <2>1, <2>4, <3>1, <3>2, <3>3 DEF TmpStep
    <3>7. SessInv(z)'
      <4>1. \A i \in DOMAIN pending[z] : Stored(pending[z][i].key)'
        <5>1. \A i \in DOMAIN pending[z] : pending[z][i].key \in Keys
          BY <1>0, Typed DEF Row
        <5> QED
          BY <1>0, <2>4, <3>3, <5>1 DEF SessInv, Stored, FinalKeysStay
      <4>2. \A r \in sharedReuse[z] : Stored(r.key)'
        <5>1. \A r \in sharedReuse[z] : r.key \in Keys
          BY <1>0, Typed DEF ReuseEntry
        <5> QED
          BY <1>0, <3>3, <5>1 DEF SessInv, Stored, FinalKeysStay
      <4>3. \A i \in DOMAIN pending[z] : UploadMarked(z, pending[z][i].bundle)'
        BY <1>0, <2>4, <3>1, <3>2 DEF SessInv, UploadMarked
      <4> QED
        BY <2>1, <2>4, <3>1, <3>2, <4>1, <4>2, <4>3 DEF SessInv
    <3> QED
      BY <2>1, <3>1, <3>2, <3>3, <3>4, <3>5, <3>6, <3>7, QuietMove
  <2> QED
    BY <1>1, <2>3, <2>4 DEF handleUploadEnd
<1>2. CASE EndCopy(z)
  <2> DEFINE m == job[z].stream
             k == TempKey(RunOf[z], m)
             key == FinalKey(z, uploads[z][m])
             f == [filer EXCEPT ![key] = filer[k]]
  <2>1. job[z].op = "copy" /\ m \in Streams /\ uploads[z][m] # NoUpload
    BY <1>0, <1>2, JobCases DEF EndCopy, SessInv
  <2>2. key \in Keys
    <3>1. uploads[z][m].file.path \in Paths /\ ServerOf[z] \in Servers
      BY <1>0, <2>1, Typed, SessionsAssumption DEF Upload, File
    <3> QED
      BY <3>1, KeysAssumption DEF FinalKey
  <2>3. k \in TempKeys /\ filer[k] \in Shas \cup {NoSha}
    BY <1>0, <2>1, TempKeyIs
  <2>4. /\ filer[k] # NoSha /\ DeleteTmp(f, k, filer[k]) /\ RecordPending(z, m, key)
        /\ UNCHANGED <<storeVars, state, sharedReuse, published, crashes>>
    BY <1>2 DEF EndCopy
  <2> HIDE DEF m, k, key
  <2>5. f \in [Keys \cup TempKeys -> Shas \cup {NoSha}] /\ f[key] # NoSha
        /\ (\A c \in Keys : filer[c] # NoSha => f[c] # NoSha)
        /\ (\A c \in TempKeys : f[c] = filer[c])
    BY <1>0, <2>2, <2>3, <2>4, KeysAssumption
  <2> HIDE DEF f
  <2>6. /\ filer' \in [Keys \cup TempKeys -> Shas \cup {NoSha}]
        /\ leaked' \subseteq TempKeys
        /\ \A c \in Keys : filer'[c] = f[c]
        /\ \A c \in TempKeys : filer'[c] # NoSha /\ c \notin leaked' =>
             c # k /\ f[c] # NoSha /\ c \notin leaked
    BY <1>0, <2>3, <2>4, <2>5, DeleteIs
  <2>7. FinalKeysStay /\ filer'[key] # NoSha
    BY <2>2, <2>5, <2>6 DEF FinalKeysStay
  <2>8. \A c \in TempKeys : filer'[c] # NoSha /\ c \notin leaked' =>
            /\ filer[c] # NoSha /\ c \notin leaked
            /\ ~(job[z].op = "copy" /\ c = TempKey(RunOf[z], job[z].stream))
    BY <2>5, <2>6 DEF k, m
  <2> QED
    BY <2>1, <2>2, <2>4, <2>6, <2>7, <2>8, RecordMove
<1> QED
  BY <1>1, <1>2

-----------------------------------------------------------------------------
(* A session ends.                                                         *)

LEMMA CloseMove ==
    ASSUME HipInv, StoreInv', NEW z \in Sessions, Close(z), job[z].op # "copy",
           UNCHANGED storeVars \/ (Rollback /\ job[z].op = "commit")
    PROVE  HipInv'
<1>0. HipTypeOK
  BY DEF HipInv
<1>2. StoreTypeOK'
  BY DEF StoreInv
<1>3. /\ filer' \in [Keys \cup TempKeys -> Shas \cup {NoSha}]
      /\ leaked' \subseteq TempKeys
      /\ FinalKeysStay
      /\ \A c \in TempKeys : filer'[c] # NoSha /\ c \notin leaked' =>
           filer[c] # NoSha /\ c \notin leaked
  <2> DEFINE keys == {TempKey(RunOf[z], m) : m \in Uploading(z)}
  <2>1. keys \in SUBSET TempKeys
    BY TempKeyIs DEF Uploading
  <2>2. AbortTmp(keys)
    BY DEF Close, abortAllUploads
  <2> HIDE DEF keys
  <2> QED
    BY <1>0, <2>1, <2>2, AbortIs
<1>4. /\ state' = [state EXCEPT ![z] = "closed"]
      /\ job' = [job EXCEPT ![z] = Idle]
      /\ uploads' = [uploads EXCEPT ![z] = [m \in Streams |-> NoUpload]]
      /\ pending' = [pending EXCEPT ![z] = <<>>]
      /\ sharedReuse' = [sharedReuse EXCEPT ![z] = {}]
      /\ bundles' = [bundles EXCEPT ![z] = {}]
      /\ client' = [client EXCEPT ![z] = [skip |-> {}, done |-> {}]]
      /\ UNCHANGED <<published, crashes>>
  BY DEF Close, Continue
<1>5. Idle \in JobType /\ Idle.op = "idle"
  BY DEF Idle, JobType
<1>6. [m \in Streams |-> NoUpload] \in [Streams -> Upload \cup {NoUpload}] /\ <<>> \in Seq(Row)
  BY EmptySeq
<1>7. HipTypeOK'
  BY <1>0, <1>2, <1>3, <1>4, <1>5, <1>6 DEF HipTypeOK
<1>8. /\ job'[z] = Idle /\ pending'[z] = <<>> /\ sharedReuse'[z] = {} /\ OnlySession(z)
  BY <1>0, <1>4 DEF HipTypeOK, OnlySession
<1>9. TmpStep(z)
  BY <1>3 DEF TmpStep
<1>10. SessInv(z)'
  BY <1>5, <1>8 DEF SessInv
<1>11. RowsStored'
  <2>1. db' = db /\ work' \in {work, db}
    BY DEF storeVars, Rollback
  <2>2. \A r \in RowsOf(db') \cup RowsOf(work') : r \in RowsOf(db) \cup RowsOf(work)
    BY <2>1
  <2>3. \A r \in RowsOf(db) \cup RowsOf(work) : r.key \in Keys /\ Stored(r.key)
    BY Typed DEF HipInv, RowsStored, Row
  <2>4. \A r \in RowsOf(db') \cup RowsOf(work') : filer'[r.key] # NoSha
    BY <1>3, <2>2, <2>3 DEF FinalKeysStay, Stored
  <2> QED
    BY <2>4 DEF RowsStored, Stored, RowsOf
<1>12. job[z].op = "commit" => \A y \in Sessions \ {z} : job[y].op # "commit"
  BY DEF HipInv, OneCommit
<1> QED
  BY <1>3, <1>4, <1>5, <1>7, <1>8, <1>9, <1>10, <1>11, <1>12, SessionMove

LEMMA CloseInv ==
    ASSUME HipInv, StoreInv', NEW z \in Sessions, QueryFails(z) \/ EndSession(z) \/ CommitFails(z)
    PROVE  HipInv'
<1>1. CASE QueryFails(z)
  BY <1>1, CloseMove DEF QueryFails
<1>2. CASE EndSession(z)
  BY <1>2, CloseMove DEF EndSession, Ready, Idle
<1>3. CASE CommitFails(z)
  BY <1>3, CloseMove DEF CommitFails
<1> QED
  BY <1>1, <1>2, <1>3

-----------------------------------------------------------------------------
(* COMMIT.                                                                 *)

\* mergeBundleCompletion keeps one completion per bundle, and "uploaded" has
\* the highest rank: what the session uploaded is completed as uploaded.
LEMMA MergesIs ==
    ASSUME HipTypeOK, NEW z \in Sessions, NEW C \in Merges(z)
    PROVE  /\ C \in SUBSET [bundle : Bundles, fp : Fps, source : Sources]
           /\ \A c, d \in C : c.bundle = d.bundle => c = d
           /\ \A e \in bundles[z] : e.source = "uploaded" =>
                \E c \in C : c.bundle = e.bundle /\ c.source = "uploaded"
<1> DEFINE T == [bundle : Bundles, fp : Fps, source : Sources]
           own == {[bundle |-> e.bundle, fp |-> e.fp, source |-> e.source] : e \in bundles[z]}
           all == own \cup Declared[z]
           rank(c) == bundleCompletionSourceRank(c.source)
           Best(b) == {c \in all : /\ c.bundle = b
                                   /\ \A o \in all : o.bundle = b => rank(o) <= rank(c)}
           last(b) == IF Best(b) \cap Declared[z] # {}
                      THEN Best(b) \cap Declared[z] ELSE Best(b)
<1>1. all \subseteq T
  BY Typed, SessionsAssumption DEF BundleEntry
<1>2. C \in SUBSET all /\ \A b \in Bundles :
          IF last(b) = {} THEN C \cap {c \in all : c.bundle = b} = {}
          ELSE \E c \in last(b) : {d \in C : d.bundle = b} = {c}
  BY DEF Merges
<1>3. \A b : last(b) \subseteq Best(b) /\ (Best(b) # {} => last(b) # {})
  OBVIOUS
<1>4. \A c \in T : rank(c) \in 1..3 /\ (rank(c) = 3 => c.source = "uploaded")
                   /\ (c.source = "uploaded" => rank(c) = 3)
  BY DEF bundleCompletionSourceRank, Sources
<1>5. \A e \in bundles[z] : /\ e.bundle \in Bundles
                            /\ \E o \in all : o.bundle = e.bundle /\ o.source = e.source
  <2> SUFFICES ASSUME NEW e \in bundles[z]
               PROVE  /\ e.bundle \in Bundles
                      /\ \E o \in all : o.bundle = e.bundle /\ o.source = e.source
    OBVIOUS
  <2>1. e.bundle \in Bundles
    BY Typed DEF BundleEntry
  <2> DEFINE o == [bundle |-> e.bundle, fp |-> e.fp, source |-> e.source]
  <2>2. o \in own /\ o.bundle = e.bundle /\ o.source = e.source
    OBVIOUS
  <2> QED
    BY <2>1, <2>2
<1> HIDE DEF last, all, T
<1>6. ASSUME NEW c \in C, NEW d \in C, c.bundle = d.bundle PROVE c = d
  <2>1. c \in all /\ c.bundle \in Bundles
    BY <1>1, <1>2 DEF T
  <2>2. last(c.bundle) # {}
    BY <1>2, <2>1
  <2>3. PICK w \in last(c.bundle) : {x \in C : x.bundle = c.bundle} = {w}
    BY <1>2, <2>1, <2>2
  <2> QED
    BY <1>6, <2>3
<1>7. ASSUME NEW e \in bundles[z], e.source = "uploaded"
      PROVE  \E c \in C : c.bundle = e.bundle /\ c.source = "uploaded"
  <2>1. PICK o \in all : o.bundle = e.bundle /\ o.source = "uploaded"
    BY <1>5, <1>7
  <2>2. rank(o) = 3 /\ \A x \in all : rank(x) \in 1..3
    BY <1>1, <1>4, <2>1
  <2> HIDE DEF rank
  <2>3. o \in Best(e.bundle)
    BY <2>1, <2>2
  <2>4. \A c \in Best(e.bundle) : c.bundle = e.bundle /\ rank(c) = 3 /\ c \in T
    BY <1>1, <2>1, <2>2
  <2>5. \A c \in Best(e.bundle) : c.bundle = e.bundle /\ c.source = "uploaded"
    BY <1>4, <2>4 DEF rank
  <2>6. PICK c \in last(e.bundle) : {d \in C : d.bundle = e.bundle} = {c}
    BY <1>2, <1>3, <1>5, <2>3
  <2>7. c \in C /\ c \in Best(e.bundle)
    BY <1>3, <2>6
  <2> QED
    BY <2>5, <2>7
<1> QED
  BY <1>1, <1>2, <1>6, <1>7 DEF T

\* A step of the COMMIT of z keeps the invariant when it keeps it for z and for
\* the tables: no other session is inside COMMIT.
LEMMA CommitMove ==
    ASSUME HipInv, NEW z \in Sessions, CommitUnchanged, StoreInv',
           tx = NoTx \/ job[z].op = "commit", job[z].op # "copy",
           NEW j \in JobType, job' = [job EXCEPT ![z] = j], j.op # "copy",
           state' \in [Sessions -> States], published' \in [Servers -> SUBSET File],
           RowsStored', SessInv(z)'
    PROVE  HipInv'
<1>1. StoreTypeOK'
  BY DEF StoreInv
<1>2. HipTypeOK'
  BY <1>1, Zenon DEF HipInv, HipTypeOK, CommitUnchanged, States
<1>3. OnlySession(z) /\ job'[z] = j
  BY DEF HipInv, HipTypeOK, CommitUnchanged, OnlySession
<1>4. FinalKeysStay /\ TmpStep(z) /\ crashes' = crashes
  BY DEF CommitUnchanged, FinalKeysStay, TmpStep
<1>5. \A y \in Sessions \ {z} : job[y].op # "commit"
  <2>1. \A y \in Sessions : job[y].op = "commit" => tx # NoTx
    BY DEF HipInv, SessInv, NoTx
  <2> QED
    BY <2>1 DEF HipInv, OneCommit
<1> QED
  BY <1>2, <1>3, <1>4, <1>5, SessionMove

LEMMA BeginCommitInv ==
    ASSUME HipInv, StoreInv', NEW z \in Sessions, handleCommit(z)
    PROVE  HipInv'
<1>0. HipTypeOK /\ SessInv(z)
  BY DEF HipInv
<1>1. /\ job[z] = Idle /\ job[z].op = "idle"
      /\ Begin(ServerOf[z], VersionOf[z], HashOf[z])
      /\ state' = [state EXCEPT ![z] = "committing"]
      /\ UNCHANGED published /\ CommitUnchanged
  BY DEF handleCommit, Accepts, Ready, Idle
<1>2. /\ ServerOf[z] \in Servers /\ VersionOf[z] \in Versions /\ HashOf[z] \in Hashes
  BY SessionsAssumption
<1>3. PICK C \in Merges(z) :
        job' = [job EXCEPT ![z] = [op |-> "commit", i |-> 1, rows |-> {}, comps |-> C,
                                   clones |-> {e \in bundles[z] : e.reuse},
                                   reuse |-> sharedReuse[z]]]
  BY Zenon DEF handleCommit, Continue
<1> DEFINE j == [op |-> "commit", i |-> 1, rows |-> {}, comps |-> C,
                 clones |-> {e \in bundles[z] : e.reuse}, reuse |-> sharedReuse[z]]
<1>4. /\ C \in SUBSET [bundle : Bundles, fp : Fps, source : Sources]
      /\ \A c, d \in C : c.bundle = d.bundle => c = d
      /\ \A e \in bundles[z] : e.source = "uploaded" =>
           \E c \in C : c.bundle = e.bundle /\ c.source = "uploaded"
  BY <1>0, MergesIs
<1>5. j \in JobType
  <2>1. {e \in bundles[z] : e.reuse} \in SUBSET BundleEntry
        /\ sharedReuse[z] \in SUBSET ReuseEntry
    BY <1>0, Typed
  <2> QED
    BY <1>4, <2>1 DEF JobType
<1>6. j.op = "commit" /\ j.rows = {} /\ j.reuse = sharedReuse[z] /\ j.comps = C
  OBVIOUS
<1>7. job' = [job EXCEPT ![z] = j] /\ job'[z] = j
  BY <1>0, <1>3 DEF HipTypeOK
<1> HIDE DEF j
<1>8. tx = NoTx /\ db' = db
      /\ tx' = <<ServerOf[z], VersionOf[z], HashOf[z]>>
      /\ work' = InsertVersion(db, ServerOf[z], VersionOf[z], HashOf[z])
  BY <1>1 DEF Begin
<1>9. state' \in [Sessions -> States] /\ published' \in [Servers -> SUBSET File]
  BY <1>0, <1>1 DEF HipTypeOK, States
<1>10. RowsStored'
  <2>1. work'.assets = db.assets
    BY <1>0, <1>8, Typed DEF InsertVersion, Db
  <2>2. RowsOf(work') = RowsOf(db) /\ RowsOf(db') = RowsOf(db) /\ filer' = filer
    BY <1>1, <1>8, <2>1 DEF RowsOf, CommitUnchanged
  <2>3. \A r \in RowsOf(db') \cup RowsOf(work') : filer'[r.key] # NoSha
    BY <2>2 DEF HipInv, RowsStored, Stored
  <2> QED
    BY <2>3 DEF RowsStored, Stored, RowsOf
<1>11. SessInv(z)'
  <2>1. UNCHANGED <<pending, sharedReuse, bundles, filer>>
    BY <1>1 DEF CommitUnchanged
  <2>2. \A r \in sharedReuse[z] : Stored(r.key)
    BY <1>0 DEF SessInv
  <2>3. \A i \in DOMAIN pending[z] : /\ Stored(pending[z][i].key)
                                   /\ \E e \in bundles[z] : /\ e.bundle = pending[z][i].bundle
                                                           /\ e.source = "uploaded"
    BY <1>0 DEF SessInv, UploadMarked
  <2>4. \A i \in DOMAIN pending[z] : UploadMarked(z, pending[z][i].bundle)'
    BY <1>4, <1>6, <1>7, <2>1, <2>3 DEF UploadMarked
  <2> QED
    BY <1>4, <1>6, <1>7, <1>8, <2>1, <2>2, <2>3, <2>4 DEF SessInv, Stored
<1> QED
  BY <1>1, <1>5, <1>6, <1>7, <1>8, <1>9, <1>10, <1>11, CommitMove, Zenon

\* A row inside the transaction: its key has an object, and what is left to
\* insert becomes less.
LEMMA PutMove ==
    ASSUME HipInv, StoreInv', InsertsOnly, NEW z \in Sessions, InTx(z),
           NEW a \in Row, Stored(a.key), Put(a),
           NEW j \in JobType, job' = [job EXCEPT ![z] = j], j.op = "commit",
           j.rows \subseteq job[z].rows, j.reuse \subseteq job[z].reuse,
           j.comps = job[z].comps
    PROVE  HipInv'
<1>0. HipTypeOK /\ SessInv(z) /\ job[z].op = "commit" /\ job'[z] = j
      /\ CommitUnchanged /\ UNCHANGED <<state, published>>
  BY DEF HipInv, HipTypeOK, InTx
<1>1. work' = InsertAsset(work, a) /\ db' = db /\ tx' = tx
  BY DEF Put
<1>2. RowsOf(work') \subseteq RowsOf(work) \cup {a} /\ work'.completions = work.completions
  BY <1>0, <1>1, Typed DEF InsertsOnly
<1>3. UNCHANGED <<uploads, pending, sharedReuse, bundles, filer>>
  BY <1>0 DEF CommitUnchanged
<1>4. RowsStored'
  <2>1. \A r \in RowsOf(db') \cup RowsOf(work') : filer'[r.key] # NoSha
    BY <1>1, <1>2, <1>3 DEF HipInv, RowsStored, Stored
  <2> QED
    BY <2>1 DEF RowsStored, Stored, RowsOf
<1>5. SessInv(z)'
  <2>1. /\ tx = <<ServerOf[z], VersionOf[z], HashOf[z]>>
        /\ \A r \in job[z].rows \cup job[z].reuse : Stored(r.key)
        /\ \A c, d \in job[z].comps : c.bundle = d.bundle => c = d
        /\ \A i \in DOMAIN pending[z] : /\ Stored(pending[z][i].key)
                                       /\ UploadMarked(z, pending[z][i].bundle)
        /\ \A r \in sharedReuse[z] : Stored(r.key)
    BY <1>0 DEF SessInv
  <2>2. \A b : UploadMarked(z, b) => UploadMarked(z, b)'
    BY <1>0, <1>2, <1>3 DEF UploadMarked
  <2>3. \A k : Stored(k) => Stored(k)'
    BY <1>3 DEF Stored
  <2> QED
    BY <1>0, <1>1, <1>3, <2>1, <2>2, <2>3 DEF SessInv
<1>6. state' \in [Sessions -> States] /\ published' \in [Servers -> SUBSET File]
  BY <1>0 DEF HipTypeOK, States
<1> QED
  BY <1>0, <1>1, <1>4, <1>5, <1>6, CommitMove, Zenon

\* The rows of a COMMIT: pending rows, clones and reuse rows.
LEMMA InsertRowInv ==
    ASSUME HipInv, StoreInv', InsertsOnly, NEW z \in Sessions,
           InsertPending(z) \/ InsertClone(z) \/ InsertReuse(z)
    PROVE  HipInv'
<1> DEFINE CommitJob == [op : {"commit"}, i : Nat \ {0}, rows : SUBSET Row,
                         clones : SUBSET BundleEntry, reuse : SUBSET ReuseEntry,
                         comps : SUBSET [bundle : Bundles, fp : Fps, source : Sources]]
<1>0. HipTypeOK /\ SessInv(z) /\ job[z].op = "commit" /\ InTx(z)
  BY DEF HipInv, InsertPending, InsertClone, InsertReuse, InTx
<1>1. job[z] \in CommitJob
  BY <1>0, Typed, JobCases
<1>2. CommitJob \subseteq JobType
  BY DEF JobType
<1>3. \A r \in job[z].rows \cup job[z].reuse : Stored(r.key)
  BY <1>0 DEF SessInv
<1>4. CASE InsertPending(z)
  <2> DEFINE a == pending[z][job[z].i]
             j == [job[z] EXCEPT !.i = @ + 1]
  <2>1. job[z].i \in DOMAIN pending[z]
    <3>1. pending[z] \in Seq(Row) /\ DOMAIN pending[z] = 1..Len(pending[z])
          /\ Len(pending[z]) \in Nat
      BY <1>0, Typed, LenProperties
    <3> QED
      BY <1>1, <1>4, <3>1 DEF InsertPending, PendingDone
  <2>2. a \in Row /\ Stored(a.key)
    BY <1>0, <2>1, Typed DEF SessInv
  <2>3. j \in CommitJob /\ j.op = "commit" /\ j.rows = job[z].rows /\ j.reuse = job[z].reuse
        /\ j.comps = job[z].comps
    BY <1>1
  <2>4. Put(a) /\ job' = [job EXCEPT ![z] = j]
    BY <1>4 DEF InsertPending, Continue
  <2> HIDE DEF a, j, CommitJob
  <2> QED
    BY <1>0, <1>2, <2>2, <2>3, <2>4, PutMove, Zenon
<1>5. CASE InsertClone(z)
  <2>1. PICK a \in job[z].rows : Put(a) /\ job' = [job EXCEPT ![z] = [job[z] EXCEPT !.rows = @ \ {a}]]
    BY <1>5, Zenon DEF InsertClone, Continue
  <2> DEFINE j == [job[z] EXCEPT !.rows = @ \ {a}]
  <2>2. a \in Row /\ Stored(a.key)
    BY <1>1, <1>3
  <2>3. j \in CommitJob /\ j.op = "commit" /\ j.rows \subseteq job[z].rows
        /\ j.reuse = job[z].reuse /\ j.comps = job[z].comps
    BY <1>1
  <2> HIDE DEF CommitJob
  <2> QED
    BY <1>0, <1>2, <2>1, <2>2, <2>3, PutMove, Zenon
<1>6. CASE InsertReuse(z)
  <2>1. PICK r \in job[z].reuse :
          /\ Put(ReuseRow(z, r))
          /\ job' = [job EXCEPT ![z] = [job[z] EXCEPT !.reuse = @ \ {r}]]
    BY <1>6, Zenon DEF InsertReuse, Continue
  <2> DEFINE j == [job[z] EXCEPT !.reuse = @ \ {r}]
  <2>2. ReuseRow(z, r) \in Row /\ ReuseRow(z, r).key = r.key /\ Stored(r.key)
    BY <1>1, <1>3, SessionsAssumption DEF ReuseRow, Row, ReuseEntry
  <2>3. j \in CommitJob /\ j.op = "commit" /\ j.rows = job[z].rows
        /\ j.reuse \subseteq job[z].reuse /\ j.comps = job[z].comps
    BY <1>1
  <2> HIDE DEF CommitJob
  <2> QED
    BY <1>0, <1>2, <2>1, <2>2, <2>3, PutMove, Zenon
<1> QED
  BY <1>4, <1>5, <1>6

LEMMA LoadClonesInv ==
    ASSUME HipInv, QueriesAnswer, NEW z \in Sessions, LoadClones(z)
    PROVE  HipInv'
<1>0. HipTypeOK /\ SessInv(z) /\ job[z].op = "commit" /\ UNCHANGED storeVars
      /\ CommitUnchanged /\ UNCHANGED <<state, published>>
  BY DEF HipInv, LoadClones, InTx
<1>1. PICK e \in job[z].clones :
        job' = [job EXCEPT ![z] = [job[z] EXCEPT !.clones = @ \ {e},
                  !.rows = {Rebind(z, a) : a \in ReusableBundleAssets(work, e.bundle, e.fp)}]]
  BY Zenon DEF LoadClones, Continue
<1> DEFINE R == {Rebind(z, a) : a \in ReusableBundleAssets(work, e.bundle, e.fp)}
           j == [job[z] EXCEPT !.clones = @ \ {e}, !.rows = R]
<1>2. \A r \in R : r \in Row /\ Stored(r.key)
  <2>1. \A a \in RowsOf(work) : a \in Row /\ Stored(a.key)
    BY Typed DEF HipInv, RowsStored
  <2>2. \A a \in Row : Rebind(z, a) \in Row /\ Rebind(z, a).key = a.key
    BY SessionsAssumption, Zenon DEF Rebind, Row
  <2>3. ReusableBundleAssets(work, e.bundle, e.fp) \subseteq RowsOf(work)
    BY DEF QueriesAnswer
  <2> QED
    BY <2>1, <2>2, <2>3
<1> HIDE DEF R
<1>3. /\ j \in JobType /\ j.op = "commit" /\ j.rows = R /\ j.reuse = job[z].reuse
      /\ j.comps = job[z].comps
  <2>1. job[z] \in [op : {"commit"}, i : Nat \ {0}, rows : SUBSET Row,
                    clones : SUBSET BundleEntry, reuse : SUBSET ReuseEntry,
                    comps : SUBSET [bundle : Bundles, fp : Fps, source : Sources]]
    BY <1>0, Typed, JobCases
  <2> QED
    BY <1>2, <2>1, Zenon DEF JobType
<1>4. job' = [job EXCEPT ![z] = j] /\ job'[z] = j
  BY <1>0, <1>1 DEF R, HipTypeOK
<1> HIDE DEF j
<1>5. UNCHANGED <<uploads, pending, sharedReuse, bundles, filer, db, work, tx>>
  BY <1>0 DEF CommitUnchanged, storeVars
<1>6. SessInv(z)'
  <2>1. /\ tx = <<ServerOf[z], VersionOf[z], HashOf[z]>>
        /\ \A r \in job[z].rows \cup job[z].reuse : Stored(r.key)
        /\ \A c, d \in job[z].comps : c.bundle = d.bundle => c = d
        /\ \A i \in DOMAIN pending[z] : /\ Stored(pending[z][i].key)
                                       /\ UploadMarked(z, pending[z][i].bundle)
        /\ \A r \in sharedReuse[z] : Stored(r.key)
    BY <1>0 DEF SessInv
  <2>2. \A b : UploadMarked(z, b) => UploadMarked(z, b)'
    BY <1>0, <1>3, <1>4, <1>5 DEF UploadMarked
  <2>3. \A k : Stored(k) => Stored(k)'
    BY <1>5 DEF Stored
  <2> QED
    BY <1>2, <1>3, <1>4, <1>5, <2>1, <2>2, <2>3 DEF SessInv
<1>7. RowsStored'
  BY <1>5 DEF HipInv, RowsStored, Stored, RowsOf
<1>8. state' \in [Sessions -> States] /\ published' \in [Servers -> SUBSET File]
  BY <1>0 DEF HipTypeOK, States
<1>9. StoreInv'
  BY <1>0, StoreStays DEF HipInv
<1> QED
  BY <1>0, <1>3, <1>4, <1>6, <1>7, <1>8, <1>9, CommitMove, Zenon

\* A completion is recorded once per bundle, so none of this COMMIT's own
\* completions replaces another.
LEMMA InsertCompletionInv ==
    ASSUME HipInv, StoreInv', NEW z \in Sessions, InsertCompletion(z)
    PROVE  HipInv'
<1>0. HipTypeOK /\ SessInv(z) /\ job[z].op = "commit"
      /\ CommitUnchanged /\ UNCHANGED <<state, published>>
  BY DEF HipInv, InsertCompletion, InTx
<1>1. PICK c \in job[z].comps :
        /\ Complete(completionOf(z, c))
        /\ job' = [job EXCEPT ![z] = [job[z] EXCEPT !.comps = @ \ {c}]]
  BY Zenon DEF InsertCompletion, Continue
<1> DEFINE j == [job[z] EXCEPT !.comps = @ \ {c}]
           n == completionOf(z, c)
<1>2. /\ j \in JobType /\ j.op = "commit" /\ j.rows = job[z].rows /\ j.reuse = job[z].reuse
      /\ j.comps = job[z].comps \ {c}
      /\ c \in [bundle : Bundles, fp : Fps, source : Sources]
  <2>1. job[z] \in [op : {"commit"}, i : Nat \ {0}, rows : SUBSET Row,
                    clones : SUBSET BundleEntry, reuse : SUBSET ReuseEntry,
                    comps : SUBSET [bundle : Bundles, fp : Fps, source : Sources]]
    BY <1>0, Typed, JobCases
  <2> QED
    BY <2>1 DEF JobType
<1>3. job' = [job EXCEPT ![z] = j] /\ job'[z] = j
  BY <1>0, <1>1 DEF HipTypeOK
<1>4. /\ n \in Completion /\ n.server = ServerOf[z] /\ n.version = VersionOf[z]
      /\ n.hash = HashOf[z] /\ n.bundle = c.bundle /\ n.source = c.source
  BY <1>2, SessionsAssumption DEF completionOf, Completion
<1>5. db' = db /\ tx' = tx /\ work' = InsertBundleCompletion(work, n)
  BY <1>1 DEF Complete
<1> HIDE DEF j, n
<1>6. /\ work'.assets = work.assets
      /\ work'.completions = {x \in work.completions : ~(/\ x.server = n.server
                                                        /\ x.version = n.version
                                                        /\ x.hash = n.hash
                                                        /\ x.bundle = n.bundle)} \cup {n}
  BY <1>0, <1>5, Typed DEF InsertBundleCompletion, Db
<1>7. UNCHANGED <<uploads, pending, sharedReuse, bundles, filer>>
  BY <1>0 DEF CommitUnchanged
<1>8. RowsStored'
  <2>1. RowsOf(work') = RowsOf(work)
    BY <1>6 DEF RowsOf
  <2>2. \A r \in RowsOf(db') \cup RowsOf(work') : filer'[r.key] # NoSha
    BY <1>5, <1>7, <2>1 DEF HipInv, RowsStored, Stored
  <2> QED
    BY <2>2 DEF RowsStored, Stored, RowsOf
<1>9. SessInv(z)'
  <2>1. /\ tx = <<ServerOf[z], VersionOf[z], HashOf[z]>>
        /\ \A r \in job[z].rows \cup job[z].reuse : Stored(r.key)
        /\ \A x, y \in job[z].comps : x.bundle = y.bundle => x = y
        /\ \A i \in DOMAIN pending[z] : /\ Stored(pending[z][i].key)
                                       /\ UploadMarked(z, pending[z][i].bundle)
        /\ \A r \in sharedReuse[z] : Stored(r.key)
    BY <1>0 DEF SessInv
  <2>2. ASSUME NEW b, UploadMarked(z, b) PROVE UploadMarked(z, b)'
    <3>1. \E e \in bundles'[z] : e.bundle = b /\ e.source = "uploaded"
      BY <1>7, <2>2 DEF UploadMarked
    <3>2. CASE \E x \in job[z].comps \ {c} : x.bundle = b /\ x.source = "uploaded"
      BY <1>2, <1>3, <3>1, <3>2 DEF UploadMarked
    <3>3. CASE c.bundle = b /\ c.source = "uploaded"
      <4>1. \A x \in job'[z].comps : x.bundle # b
        BY <1>2, <1>3, <2>1, <3>3
      <4>2. n \in work'.completions /\ SaysUploaded(z, n, b)
        BY <1>4, <1>6, <3>3 DEF SaysUploaded
      <4> QED
        BY <3>1, <4>1, <4>2 DEF UploadMarked
    <3>4. CASE /\ \A x \in job[z].comps : x.bundle # b
               /\ \E x \in work.completions : SaysUploaded(z, x, b)
      <4>1. PICK x \in work.completions : SaysUploaded(z, x, b)
        BY <3>4
      <4>2. x.bundle # n.bundle
        BY <1>4, <3>4, <4>1 DEF SaysUploaded
      <4>3. x \in work'.completions
        BY <1>6, <4>2
      <4>4. \A w \in job'[z].comps : w.bundle # b
        BY <1>2, <1>3, <3>4
      <4> QED
        BY <3>1, <4>1, <4>3, <4>4 DEF UploadMarked
    <3> QED
      BY <1>0, <2>2, <3>2, <3>3, <3>4 DEF UploadMarked
  <2>3. \A k : Stored(k) => Stored(k)'
    BY <1>7 DEF Stored
  <2>4. \A i \in DOMAIN pending'[z] : /\ Stored(pending[z][i].key)'
                                    /\ UploadMarked(z, pending[z][i].bundle)'
    BY <1>7, <2>1, <2>2, <2>3
  <2> QED
    BY <1>2, <1>3, <1>5, <1>7, <2>1, <2>3, <2>4 DEF SessInv
<1>10. state' \in [Sessions -> States] /\ published' \in [Servers -> SUBSET File]
  BY <1>0 DEF HipTypeOK, States
<1> QED
  BY <1>0, <1>2, <1>3, <1>5, <1>8, <1>9, <1>10, CommitMove, Zenon

LEMMA PublishInv ==
    ASSUME HipInv, StoreInv', NEW z \in Sessions, Publish(z)
    PROVE  HipInv'
<1> DEFINE j == [op |-> "committed"]
<1>0. /\ HipTypeOK /\ SessInv(z) /\ job[z].op = "commit" /\ CommitTx
      /\ job' = [job EXCEPT ![z] = j] /\ CommitUnchanged /\ UNCHANGED state
  BY DEF HipInv, Publish, Continue
<1>1. j \in JobType /\ j.op = "committed"
  BY DEF JobType
<1> HIDE DEF j
<1>2. work' = MarkReadIndexCurrent(work) /\ db' = work'
  BY <1>0 DEF CommitTx
<1>3. UNCHANGED <<uploads, pending, sharedReuse, bundles, filer>> /\ job'[z] = j
  BY <1>0 DEF CommitUnchanged, HipTypeOK
<1>4. RowsStored'
  <2>1. work'.assets = work.assets
    BY <1>0, <1>2, Typed DEF MarkReadIndexCurrent, Db
  <2>2. RowsOf(work') = RowsOf(work) /\ RowsOf(db') = RowsOf(work)
    BY <1>2, <2>1 DEF RowsOf
  <2>3. \A r \in RowsOf(db') \cup RowsOf(work') : filer'[r.key] # NoSha
    BY <1>3, <2>2 DEF HipInv, RowsStored, Stored
  <2> QED
    BY <2>3 DEF RowsStored, Stored, RowsOf
<1>5. SessInv(z)'
  <2>1. FinalKeysStay
    BY <1>3 DEF FinalKeysStay
  <2> QED
    BY <1>0, <1>1, <1>3, <2>1, RestInv
<1>6. state' \in [Sessions -> States]
  BY <1>0 DEF HipTypeOK, States
<1>7. published' \in [Servers -> SUBSET File]
  <2> DEFINE P == {f \in published[ServerOf[z]] : \A g \in Offers[z] : g.path # f.path}
                  \cup IF OfferComplete(z) THEN Offers[z] ELSE {}
  <2>1. published \in [Servers -> SUBSET File] /\ ServerOf[z] \in Servers
        /\ Offers[z] \subseteq File
    BY <1>0, SessionsAssumption, Zenon DEF HipTypeOK
  <2>2. P \in SUBSET File
    BY <2>1
  <2>3. published' = [published EXCEPT ![ServerOf[z]] = P]
    BY DEF Publish
  <2> HIDE DEF P
  <2> QED
    BY <2>1, <2>2, <2>3
<1> QED
  BY <1>0, <1>1, <1>2, <1>4, <1>5, <1>6, <1>7, CommitMove, Zenon

LEMMA FinalizeInv ==
    ASSUME HipInv, NEW z \in Sessions, Finalize(z)
    PROVE  HipInv'
<1>0. /\ HipTypeOK /\ SessInv(z) /\ job[z].op = "committed" /\ CommitUnchanged
      /\ state' = [state EXCEPT ![z] = "finalized"]
      /\ job' = [job EXCEPT ![z] = Idle] /\ UNCHANGED <<storeVars, published>>
  BY DEF HipInv, Finalize, Continue
<1>1. Idle \in JobType /\ Idle.op = "idle"
  BY DEF Idle, JobType
<1>2. UNCHANGED <<uploads, pending, sharedReuse, bundles, filer, leaked, crashes, client>>
      /\ job'[z] = Idle
  BY <1>0 DEF CommitUnchanged, HipTypeOK
<1>3. HipTypeOK'
  BY <1>0, <1>1, <1>2 DEF HipTypeOK, StoreTypeOK, storeVars
<1>4. FinalKeysStay /\ OnlySession(z)
  BY <1>0, <1>2 DEF FinalKeysStay, OnlySession, HipTypeOK
<1>5. SessInv(z)'
  BY <1>0, <1>1, <1>2, <1>4, RestInv
<1> QED
  BY <1>0, <1>1, <1>2, <1>3, <1>4, <1>5, MemoryMove

-----------------------------------------------------------------------------
(* The process.                                                            *)

\* EnsureReadIndexes writes the derived tables only.
LEMMA StartInv ==
    ASSUME HipInv, StoreInv', Start
    PROVE  HipInv'
<1>0. HipTypeOK /\ Boot /\ UNCHANGED <<sessVars, filer, leaked, published, crashes>>
  BY DEF HipInv, Start
<1>2. StoreTypeOK'
  BY DEF StoreInv
<1>3. HipTypeOK'
  BY <1>0, <1>2 DEF HipTypeOK, sessVars
<1>4. db' = EnsureReadIndexes(db) /\ work' = db' /\ tx' = tx /\ ~up
  BY <1>0 DEF Boot
<1>5. tx = NoTx
  BY <1>4 DEF HipInv, StoreInv
<1>6. \A z \in Sessions : job[z].op # "commit"
  BY <1>5 DEF HipInv, SessInv, NoTx
<1>7. FinalKeysStay
  BY <1>0 DEF FinalKeysStay
<1>8. \A z \in Sessions : SessInv(z)'
  BY <1>0, <1>6, <1>7, StaysInv DEF HipInv, sessVars
<1>9. OneCommit' /\ TmpOwned'
  BY <1>0 DEF HipInv, OneCommit, TmpOwned, sessVars
<1>10. RowsStored'
  <2>1. db'.assets = db.assets
    BY <1>0, <1>4, Typed DEF EnsureReadIndexes, Db
  <2>2. RowsOf(db') = RowsOf(db) /\ RowsOf(work') = RowsOf(db)
    BY <1>4, <2>1 DEF RowsOf
  <2>3. \A r \in RowsOf(db') \cup RowsOf(work') : filer'[r.key] # NoSha
    BY <1>0, <2>2 DEF HipInv, RowsStored, Stored
  <2> QED
    BY <2>3 DEF RowsStored, Stored, RowsOf
<1> QED
  BY <1>3, <1>8, <1>9, <1>10 DEF HipInv

\* A crash loses the sessions and the open transaction, not the filer.
LEMMA DieInv ==
    ASSUME HipInv, StoreInv', Die
    PROVE  HipInv'
<1>0. HipTypeOK /\ Crash /\ UNCHANGED <<filer, leaked, published>>
      /\ crashes < MaxCrashes /\ crashes' = crashes + 1
  BY DEF HipInv, Die
<1>2. StoreTypeOK'
  BY DEF StoreInv
<1>3. /\ job' = [z \in Sessions |-> Idle]
      /\ pending' = [z \in Sessions |-> <<>>]
      /\ sharedReuse' = [z \in Sessions |-> {}]
  BY DEF Die
<1>4. Idle \in JobType /\ Idle.op = "idle" /\ <<>> \in Seq(Row)
  BY EmptySeq DEF Idle, JobType
<1>5. crashes' \in 0..MaxCrashes /\ crashes' # 0
  BY <1>0, SessionsAssumption DEF HipTypeOK
<1>6. HipTypeOK'
  <2>1. state' \in [Sessions -> States]
    BY <1>0 DEF Die, HipTypeOK, States
  <2>2. /\ uploads' \in [Sessions -> [Streams -> Upload \cup {NoUpload}]]
        /\ bundles' \in [Sessions -> SUBSET BundleEntry]
        /\ client' \in [Sessions -> [skip : SUBSET Item, done : SUBSET File]]
    BY DEF Die
  <2> QED
    BY <1>0, <1>2, <1>3, <1>4, <1>5, <2>1, <2>2 DEF HipTypeOK, States
<1>7. (\A z \in Sessions : SessInv(z))'
  BY <1>3, <1>4 DEF SessInv
<1>8. OneCommit' /\ TmpOwned'
  BY <1>3, <1>4, <1>5 DEF OneCommit, TmpOwned
<1>9. RowsStored'
  BY <1>0 DEF Crash, HipInv, RowsStored, Stored, RowsOf
<1> QED
  BY <1>6, <1>7, <1>8, <1>9 DEF HipInv

\* Every step keeps the invariant, given the store.
LEMMA StepGivenStore ==
    ASSUME HipInv, StoreInv', QueriesAnswer, InsertsOnly, [IngestStep]_hipVars
    PROVE  HipInv'
<1>1. ASSUME NEW z \in Sessions, SessionStep(z) PROVE HipInv'
  <2>1. CASE \/ \E it \in Items(z) : handleCheckBatch(z, it)
             \/ CheckServer(z) \/ CheckAny(z) \/ CheckCompleted(z) \/ CheckBaseline(z)
    BY <2>1, CheckInv
  <2>2. CASE BeginShared(z) \/ BeginBaseline(z)
    BY <2>2, BeginInv
  <2>3. CASE QueryFails(z) \/ EndSession(z) \/ CommitFails(z)
    BY <2>3, CloseInv
  <2>4. CASE \E m \in Streams, x \in Shas : handleUploadChunk(z, m, x)
    BY <2>4, ChunkInv
  <2>5. CASE \/ \E m \in Streams : finishInflight(z, m)
             \/ \E m \in Streams : EndMismatch(z, m)
             \/ EndCopyFails(z)
    BY <2>5, RejectInv
  <2>6. CASE EndCopy(z)
    BY <2>6, EndInv
  <2>7. CASE InsertPending(z) \/ InsertClone(z) \/ InsertReuse(z)
    BY <2>7, InsertRowInv
  <2>8. CASE LoadClones(z)
    BY <2>8, LoadClonesInv
  <2>9. CASE InsertCompletion(z)
    BY <2>9, InsertCompletionInv
  <2>10. CASE Publish(z)
    BY <2>10, PublishInv
  <2>11. CASE Finalize(z)
    BY <2>11, FinalizeInv
  <2> QED
    BY <1>1, <2>1, <2>2, <2>3, <2>4, <2>5, <2>6, <2>7, <2>8, <2>9, <2>10, <2>11
       DEF SessionStep
<1>2. ASSUME NEW z \in Sessions, handleHello(z) \/ RetryCommit(z) PROVE HipInv'
  BY <1>2, HelloInv
<1>3. ASSUME NEW z \in Sessions, \E m \in Streams, f \in Offers[z] : handleUploadBegin(z, m, f)
      PROVE  HipInv'
  BY <1>3, BeginInv
<1>4. ASSUME NEW z \in Sessions,
             \E m \in Streams, declares \in BOOLEAN : handleUploadEnd(z, m, declares)
      PROVE  HipInv'
  BY <1>4, EndInv
<1>5. ASSUME NEW z \in Sessions, handleCommit(z) PROVE HipInv'
  BY <1>5, BeginCommitInv
<1>6. CASE Start
  BY <1>6, StartInv
<1>7. CASE Die
  BY <1>7, DieInv
<1>8. CASE UNCHANGED hipVars
  <2>1. UNCHANGED <<db, work, tx, up, state, job, uploads, pending, sharedReuse, bundles,
                    client, filer, leaked, published, crashes>>
    BY <1>8 DEF hipVars, storeVars, sessVars
  <2>3. HipTypeOK'
    BY <2>1 DEF HipInv, HipTypeOK, StoreTypeOK
  <2>4. \A z \in Sessions : SessInv(z)'
    <3> SUFFICES ASSUME NEW z \in Sessions PROVE SessInv(z)'
      OBVIOUS
    <3>1. HipTypeOK /\ SessInv(z)
      BY DEF HipInv
    <3>2. FinalKeysStay
      BY <2>1 DEF FinalKeysStay
    <3>3. UNCHANGED storeVars
      BY <2>1 DEF storeVars
    <3> QED
      BY <2>1, <3>1, <3>2, <3>3, StaysInv
  <2>5. OneCommit' /\ RowsStored' /\ TmpOwned'
    BY <2>1 DEF HipInv, OneCommit, RowsStored, TmpOwned, Stored, RowsOf
  <2> QED
    BY <2>3, <2>4, <2>5 DEF HipInv
<1> QED
  BY <1>1, <1>2, <1>3, <1>4, <1>5, <1>6, <1>7, <1>8 DEF IngestStep

-----------------------------------------------------------------------------
(* What a step of one session does to the memory of sessions.              *)

CheckAct(z) ==
    \/ \E it \in Items(z) : handleCheckBatch(z, it)
    \/ CheckServer(z)
    \/ CheckAny(z)
    \/ CheckCompleted(z)
    \/ CheckBaseline(z)

BeginAct(z) ==
    \/ \E m \in Streams, f \in Offers[z] : handleUploadBegin(z, m, f)
    \/ BeginShared(z)
    \/ BeginBaseline(z)

\* UPLOAD_CHUNK, and every way to reject a stream.
StreamAct(z) ==
    \/ \E m \in Streams, x \in Shas : handleUploadChunk(z, m, x)
    \/ \E m \in Streams : finishInflight(z, m)
    \/ \E m \in Streams : EndMismatch(z, m)
    \/ EndCopyFails(z)

\* UPLOAD_END of an updater, which always has its hash.
EndAct(z) ==
    \/ \E m \in Streams : handleUploadEnd(z, m, TRUE)
    \/ EndCopy(z)

CommitAct(z) ==
    \/ handleCommit(z)
    \/ InsertPending(z)
    \/ LoadClones(z)
    \/ InsertClone(z)
    \/ InsertReuse(z)
    \/ InsertCompletion(z)
    \/ Publish(z)
    \/ Finalize(z)

CloseAct(z) == QueryFails(z) \/ CommitFails(z) \/ EndSession(z)

LEMMA UpdaterCases ==
    ASSUME UpdaterStep
    PROVE  \/ \E z \in Sessions : \/ handleHello(z) \/ RetryCommit(z)
                                  \/ CheckAct(z) \/ BeginAct(z) \/ StreamAct(z) \/ EndAct(z)
                                  \/ CommitAct(z) \/ CloseAct(z)
           \/ Start
           \/ Die
BY DEF UpdaterStep, UpdaterFrame, SessionStep, CheckAct, BeginAct, StreamAct, EndAct, CommitAct,
       CloseAct

\* The memory of the sessions but z.
OthersStay(z) ==
    \A y \in Sessions \ {z} :
        /\ state'[y] = state[y]
        /\ job'[y] = job[y]
        /\ uploads'[y] = uploads[y]
        /\ pending'[y] = pending[y]
        /\ sharedReuse'[y] = sharedReuse[y]

LEMMA OffersTyped ==
    ASSUME NEW z \in Sessions, NEW f \in Offers[z]
    PROVE  f \in File
BY SessionsAssumption

Begins == {"beginShared", "beginBaseline"}

LEMMA QuietFrame ==
    ASSUME HipTypeOK, NEW z \in Sessions, UNCHANGED <<uploads, pending, sharedReuse>>,
           NEW st, state' = [state EXCEPT ![z] = st], NEW j, job' = [job EXCEPT ![z] = j]
    PROVE  OthersStay(z) /\ state'[z] = st /\ job'[z] = j
BY DEF HipTypeOK, OthersStay

LEMMA CheckIsQuiet ==
    ASSUME HipInv, NEW z \in Sessions, CheckAct(z)
    PROVE  /\ UNCHANGED <<storeVars, uploads, pending, sharedReuse, filer>>
           /\ OthersStay(z)
           /\ state'[z] \in {state[z], "running"}
           /\ job'[z].op \notin {"beginShared", "beginBaseline", "copy", "commit"}
<1> USE DEF CheckAct
<1> DEFINE Checks == {"checkServer", "checkAny", "checkCompleted", "checkBaseline"}
           Others == {"beginShared", "beginBaseline", "copy", "commit"}
<1>0. /\ HipTypeOK
      /\ state = [state EXCEPT ![z] = state[z]]
  BY DEF HipInv, HipTypeOK
<1>1. CheckFrame
  BY DEF handleCheckBatch, CheckServer, CheckAny, CheckCompleted, CheckBaseline, CheckQuery
<1>2. UNCHANGED <<storeVars, uploads, pending, sharedReuse, filer>>
  BY <1>1 DEF CheckFrame
<1>3. PICK st \in {state[z], "running"} : state' = [state EXCEPT ![z] = st]
  BY <1>0 DEF handleCheckBatch, CheckServer, CheckAny, CheckCompleted, CheckBaseline
<1>4. ASSUME NEW it, NEW found, NEW reuse, NEW next \in Checks, CheckQuery(z, it, found, reuse, next)
      PROVE  \/ job' = [job EXCEPT ![z] = Idle]
             \/ job' = [job EXCEPT ![z] = [op |-> next, item |-> it]]
  BY <1>4 DEF CheckQuery, AnswerSkip, Continue
<1>5. \/ job' = [job EXCEPT ![z] = Idle]
      \/ \E it : \E next \in Checks : job' = [job EXCEPT ![z] = [op |-> next, item |-> it]]
  <2>1. CASE \E it \in Items(z) : handleCheckBatch(z, it)
    BY <1>4, <2>1 DEF handleCheckBatch
  <2>2. CASE CheckServer(z)
    BY <1>4, <2>2 DEF CheckServer
  <2>3. CASE CheckAny(z)
    BY <1>4, <2>3 DEF CheckAny
  <2>4. CASE CheckCompleted(z)
    BY <1>4, <2>4 DEF CheckCompleted
  <2>5. CASE CheckBaseline(z)
    BY <2>5 DEF CheckBaseline, AnswerSkip, AnswerUpload, Continue
  <2> QED
    BY <2>1, <2>2, <2>3, <2>4, <2>5
<1>6. Idle.op \notin Others /\ \A it : \A next \in Checks : [op |-> next, item |-> it].op \notin Others
  BY DEF Idle
<1>7. PICK j : job' = [job EXCEPT ![z] = j] /\ j.op \notin Others
  BY <1>5, <1>6
<1> QED
  BY <1>0, <1>2, <1>3, <1>7, QuietFrame

LEMMA CommitIsQuiet ==
    ASSUME HipInv, NEW z \in Sessions, CommitAct(z)
    PROVE  /\ UNCHANGED <<uploads, pending, sharedReuse, filer>>
           /\ OthersStay(z)
           /\ state'[z] \in {state[z], "committing", "finalized"}
           /\ job'[z].op \in {"commit", "committed", "idle"}
<1> USE DEF CommitAct
<1> DEFINE ops == {"commit", "committed", "idle"}
<1>0. /\ HipTypeOK /\ job \in [Sessions -> JobType]
      /\ state = [state EXCEPT ![z] = state[z]]
  BY DEF HipInv, HipTypeOK
<1>1. CommitUnchanged
  BY DEF handleCommit, InsertPending, LoadClones, InsertClone, InsertReuse, InsertCompletion,
         InTx, Publish, Finalize
<1>2. UNCHANGED <<uploads, pending, sharedReuse, filer>>
  BY <1>1 DEF CommitUnchanged
<1>3. PICK st \in {state[z], "committing", "finalized"} : state' = [state EXCEPT ![z] = st]
  BY <1>0 DEF handleCommit, InsertPending, LoadClones, InsertClone, InsertReuse,
              InsertCompletion, InTx, Publish, Finalize
<1>4. (\A y \in Sessions \ {z} : job'[y] = job[y]) /\ job'[z].op \in ops
  <2>1. CASE handleCommit(z)
    <3>1. PICK C \in Merges(z) :
              job' = [job EXCEPT ![z] = [op |-> "commit", i |-> 1, rows |-> {}, comps |-> C,
                                         clones |-> {e \in bundles[z] : e.reuse},
                                         reuse |-> sharedReuse[z]]]
      BY <2>1 DEF handleCommit, Continue
    <3> QED
      BY <1>0, <3>1
  <2>2. CASE Publish(z)
    <3>1. job' = [job EXCEPT ![z] = [op |-> "committed"]]
      BY <2>2 DEF Publish, Continue
    <3> QED
      BY <1>0, <3>1
  <2>3. CASE Finalize(z)
    BY <1>0, <2>3 DEF Finalize, Continue, Idle
  <2>4. CASE InTx(z)
    <3>1. job[z] \in [op : {"commit"}, i : Nat \ {0}, rows : SUBSET Row,
                      clones : SUBSET BundleEntry, reuse : SUBSET ReuseEntry,
                      comps : SUBSET [bundle : Bundles, fp : Fps, source : Sources]]
      BY <1>0, <2>4, JobCases DEF InTx
    <3>2. CASE InsertPending(z)
      BY <1>0, <3>1, <3>2 DEF InsertPending, Continue
    <3>3. CASE LoadClones(z)
      <4>1. PICK e \in job[z].clones :
                job' = [job EXCEPT ![z] = [job[z] EXCEPT !.clones = @ \ {e},
                          !.rows = {Rebind(z, a) : a \in ReusableBundleAssets(work, e.bundle, e.fp)}]]
        BY <3>3 DEF LoadClones, Continue
      <4> DEFINE rows == {Rebind(z, a) : a \in ReusableBundleAssets(work, e.bundle, e.fp)}
      <4>2. job' = [job EXCEPT ![z] = [job[z] EXCEPT !.clones = @ \ {e}, !.rows = rows]]
        BY <4>1
      <4> HIDE DEF rows
      <4> QED
        BY <1>0, <3>1, <4>2
    <3>4. CASE InsertClone(z)
      BY <1>0, <3>1, <3>4 DEF InsertClone, Continue
    <3>5. CASE InsertReuse(z)
      BY <1>0, <3>1, <3>5 DEF InsertReuse, Continue
    <3>6. CASE InsertCompletion(z)
      BY <1>0, <3>1, <3>6 DEF InsertCompletion, Continue
    <3> QED
      BY <2>1, <2>2, <2>3, <3>2, <3>3, <3>4, <3>5, <3>6
  <2> QED
    BY <2>1, <2>2, <2>3, <2>4 DEF InsertPending, LoadClones, InsertClone, InsertReuse,
                                  InsertCompletion
<1> QED
  BY <1>0, <1>2, <1>3, <1>4 DEF OthersStay, HipTypeOK

\* The queries of UPLOAD_BEGIN: a new stream or reuse entry is that of the
\* offered file.  An upload becomes SHARED only when its path has no shared row,
\* and a reuse entry repeats a shared row.
BeginsFile(z, file) ==
    /\ job'[z].op \in Begins => job'[z].file = file
    /\ \A m \in Streams :
          \/ uploads'[z][m] = uploads[z][m]
          \/ /\ job[z].op = "beginBaseline"
             /\ uploads'[z][m] # NoUpload /\ uploads'[z][m].file = file
             /\ uploads'[z][m].placement = "SHARED" => CurrentSharedByPath(db, file.path) = NoRow
    /\ \A r \in sharedReuse'[z] :
          \/ r \in sharedReuse[z]
          \/ /\ r.path = file.path /\ r.fp = file.fp
             /\ \E x \in RowsOf(db) : ~x.override /\ x.path = r.path /\ x.fp = r.fp

LEMMA SharedRowFound ==
    ASSUME NEW d, NEW p, NEW f, SharedExactMatch(d, p, f) # NoRow
    PROVE  \E x \in RowsOf(d) : ~x.override /\ x.path = p /\ x.fp = f
<1> DEFINE S == {i \in SharedIdsAt(d, p) : d.assets[i].fp = f}
<1>1. SharedExactMatch(d, p, f) = OldestOf(d, S)
  BY DEF SharedExactMatch
<1>2. S # {}
  BY <1>1 DEF OldestOf
<1> QED
  BY <1>2 DEF SharedIdsAt, RowsOf

\* CurrentSharedByPath answers a shared row of the path, if there is one.
BaselineAnswers ==
    \A p \in Paths :
        /\ CurrentSharedByPath(db, p) # NoRow =>
              \E x \in RowsOf(db) : /\ ~x.override /\ x.path = p
                                    /\ x.fp = CurrentSharedByPath(db, p).fp
        /\ CurrentSharedByPath(db, p) = NoRow =>
              \A x \in RowsOf(db) : x.path = p => x.override

LEMMA BeginIs ==
    ASSUME HipInv, BaselineAnswers, NEW z \in Sessions, OnlyOffered(z), BeginAct(z)
    PROVE  /\ UNCHANGED <<storeVars, pending, filer>>
           /\ OthersStay(z)
           /\ state'[z] \in {state[z], "running"}
           /\ job'[z].op \in Begins \cup {"idle"}
           /\ \E file \in Offers[z] : BeginsFile(z, file)
<1> USE DEF BeginAct
<1>0. /\ HipTypeOK /\ job \in [Sessions -> JobType] /\ db.assets \in Seq(Row)
      /\ uploads \in [Sessions -> [Streams -> Upload \cup {NoUpload}]]
      /\ state = [state EXCEPT ![z] = state[z]]
      /\ sharedReuse \in [Sessions -> SUBSET ReuseEntry]
  BY Typed DEF HipInv, HipTypeOK
<1>1. UNCHANGED <<storeVars, pending, filer>>
  BY DEF handleUploadBegin, BeginShared, BeginBaseline
<1>2. PICK st \in {state[z], "running"} : state' = [state EXCEPT ![z] = st]
  BY <1>0 DEF handleUploadBegin, BeginShared, BeginBaseline
<1> DEFINE Goal(file) == /\ \A y \in Sessions \ {z} : /\ job'[y] = job[y]
                                                      /\ uploads'[y] = uploads[y]
                                                      /\ sharedReuse'[y] = sharedReuse[y]
                         /\ job'[z].op \in Begins \cup {"idle"}
                         /\ BeginsFile(z, file)
<1>3. ASSUME NEW file, RejectPresent(z, file), UNCHANGED sharedReuse PROVE Goal(file)
  BY <1>0, <1>3 DEF RejectPresent, Continue, Idle, Begins, BeginsFile
<1>4. ASSUME NEW file, NEW key, RejectReuse(z, file, key),
             \E x \in RowsOf(db) : ~x.override /\ x.path = file.path /\ x.fp = file.fp
      PROVE  Goal(file)
  <2>1. /\ job' = [job EXCEPT ![z] = Idle] /\ UNCHANGED uploads
        /\ sharedReuse' = [sharedReuse EXCEPT ![z] = rememberSharedReuse(@, file, key)]
    BY <1>4 DEF RejectReuse, RejectPresent, Continue
  <2>2. \A r \in sharedReuse'[z] : r \in sharedReuse[z] \/ (r.path = file.path /\ r.fp = file.fp)
    BY <1>0, <2>1 DEF rememberSharedReuse
  <2> QED
    BY <1>0, <1>4, <2>1, <2>2 DEF Idle, Begins, BeginsFile
<1>5. ASSUME NEW m \in Streams, NEW file, NEW next \in Begins,
             Continue(z, [op |-> next, stream |-> m, file |-> file]),
             UNCHANGED <<uploads, sharedReuse>>
      PROVE  Goal(file)
  BY <1>0, <1>5 DEF Continue, Begins, BeginsFile
<1>6. ASSUME NEW m \in Streams, NEW file, NEW placement, newInflight(z, m, file, placement),
             job[z].op = "beginBaseline",
             placement = "SHARED" => CurrentSharedByPath(db, file.path) = NoRow
      PROVE  Goal(file)
  <2> DEFINE u == [op |-> "upload", file |-> file, placement |-> placement, sha |-> NoSha]
  <2>1. /\ job' = [job EXCEPT ![z] = Idle] /\ UNCHANGED sharedReuse
        /\ uploads' = [uploads EXCEPT ![z][m] = u]
    BY <1>6 DEF newInflight, Continue
  <2>2. u # NoUpload /\ u.file = file /\ u.placement = placement
    BY DEF NoUpload
  <2> HIDE DEF u
  <2> QED
    BY <1>0, <1>6, <2>1, <2>2 DEF Idle, Begins, BeginsFile
<1>7. \E file \in Offers[z] : Goal(file)
  <2>1. ASSUME NEW m \in Streams, NEW f \in Offers[z], handleUploadBegin(z, m, f)
        PROVE  Goal(f)
    BY <1>3, <1>5, <2>1 DEF handleUploadBegin, Begins
  <2>2. CASE BeginShared(z)
    <3>1. job[z].stream \in Streams /\ job[z].file \in Offers[z]
      BY <1>0, <2>2, JobCases DEF BeginShared, OnlyOffered
    <3>2. CASE SharedExactMatch(db, job[z].file.path, job[z].file.fp) # NoRow
      BY <1>0, <1>4, <2>2, <3>1, <3>2, SharedRowFound DEF BeginShared
    <3>3. CASE SharedExactMatch(db, job[z].file.path, job[z].file.fp) = NoRow
      BY <1>5, <2>2, <3>1, <3>3 DEF BeginShared, Begins
    <3> QED
      BY <3>2, <3>3
  <2>3. CASE BeginBaseline(z)
    <3> DEFINE r == CurrentSharedByPath(db, job[z].file.path)
    <3>1. job[z].op = "beginBaseline" /\ job[z].stream \in Streams /\ job[z].file \in Offers[z]
      BY <1>0, <2>3, JobCases DEF BeginBaseline, OnlyOffered
    <3>2. CASE r = NoRow
      BY <1>6, <2>3, <3>1, <3>2 DEF BeginBaseline
    <3>3. CASE r # NoRow /\ r.fp = job[z].file.fp
      <4>1. RejectReuse(z, job[z].file, r.key)
        BY <2>3, <3>3 DEF BeginBaseline
      <4>2. \E x \in RowsOf(db) : ~x.override /\ x.path = job[z].file.path /\ x.fp = job[z].file.fp
        BY <3>1, <3>3, OffersTyped DEF BaselineAnswers, File
      <4> QED
        BY <1>4, <3>1, <4>1, <4>2
    <3>4. CASE r # NoRow /\ r.fp # job[z].file.fp
      BY <1>6, <2>3, <3>1, <3>4 DEF BeginBaseline
    <3> QED
      BY <3>2, <3>3, <3>4
  <2> QED
    BY <2>1, <2>2, <2>3
<1>8. PICK file \in Offers[z] : Goal(file)
  BY <1>7
<1> QED
  BY <1>0, <1>1, <1>2, <1>8 DEF OthersStay, HipTypeOK

\* What may become of the streams of z: each ends or stays that of its file.
StreamsEnd(z) ==
    \A m \in Streams :
        uploads'[z][m] # NoUpload =>
            /\ uploads[z][m] # NoUpload
            /\ uploads'[z][m].file = uploads[z][m].file
            /\ uploads'[z][m].placement = uploads[z][m].placement

LEMMA StreamIs ==
    ASSUME HipInv, NEW z \in Sessions, StreamAct(z)
    PROVE  /\ UNCHANGED <<storeVars, state, pending, sharedReuse>>
           /\ OthersStay(z)
           /\ job'[z] = Idle
           /\ StreamsEnd(z)
<1> USE DEF StreamAct
<1>0. /\ job \in [Sessions -> JobType]
      /\ uploads \in [Sessions -> [Streams -> Upload \cup {NoUpload}]]
  BY DEF HipInv, HipTypeOK
<1>1. UNCHANGED <<storeVars, state, pending, sharedReuse>>
  BY DEF handleUploadChunk, finishInflight, EndMismatch, EndCopyFails
<1>2. job'[z] = Idle /\ \A y \in Sessions \ {z} : job'[y] = job[y]
  BY <1>0 DEF handleUploadChunk, finishInflight, EndMismatch, EndCopyFails, InFlight, Ready, Continue
<1>3. (\A y \in Sessions \ {z} : uploads'[y] = uploads[y]) /\ StreamsEnd(z)
  <2>1. ASSUME NEW m \in Streams, dropInflight(z, m)
        PROVE  (\A y \in Sessions \ {z} : uploads'[y] = uploads[y]) /\ StreamsEnd(z)
    BY <1>0, <2>1 DEF dropInflight, StreamsEnd
  <2>2. ASSUME NEW m \in Streams, NEW x \in Shas, handleUploadChunk(z, m, x)
        PROVE  (\A y \in Sessions \ {z} : uploads'[y] = uploads[y]) /\ StreamsEnd(z)
    <3> DEFINE u == [uploads[z][m] EXCEPT !.sha = x]
    <3>1. uploads[z][m] # NoUpload /\ uploads' = [uploads EXCEPT ![z][m] = u]
      BY <2>2 DEF handleUploadChunk, InFlight
    <3>2. uploads[z][m] \in Upload
      BY <1>0, <3>1
    <3>3. u.file = uploads[z][m].file /\ u.placement = uploads[z][m].placement
      BY <3>2 DEF Upload
    <3> HIDE DEF u
    <3> QED
      BY <1>0, <3>1, <3>3 DEF StreamsEnd
  <2>3. CASE EndCopyFails(z)
    <3>1. job[z].stream \in Streams
      BY <1>0, <2>3, JobCases DEF EndCopyFails
    <3> QED
      BY <2>1, <2>3, <3>1 DEF EndCopyFails
  <2> QED
    BY <2>1, <2>2, <2>3 DEF finishInflight, EndMismatch
<1> QED
  BY <1>1, <1>2, <1>3 DEF OthersStay

\* A pending row is that of a stream of its session.
RowOfStream(z, r) ==
    \E m \in Streams :
        /\ uploads[z][m] # NoUpload
        /\ r.path = uploads[z][m].file.path /\ r.fp = uploads[z][m].file.fp
        /\ ~r.override => uploads[z][m].placement = "SHARED"

\* UPLOAD_END: the stream goes on to its copy, or ends and leaves its row.
LEMMA EndIs ==
    ASSUME HipInv, NEW z \in Sessions, EndAct(z)
    PROVE  /\ UNCHANGED <<storeVars, state, sharedReuse>>
           /\ OthersStay(z)
           /\ job'[z].op \in {"idle", "copy"}
           /\ StreamsEnd(z)
           /\ \A i \in DOMAIN pending'[z] :
                 \/ i \in DOMAIN pending[z] /\ pending'[z][i] = pending[z][i]
                 \/ RowOfStream(z, pending'[z][i])
<1> USE DEF EndAct
<1>0. /\ job \in [Sessions -> JobType]
      /\ uploads \in [Sessions -> [Streams -> Upload \cup {NoUpload}]]
      /\ pending \in [Sessions -> Seq(Row)]
  BY DEF HipInv, HipTypeOK
<1>1. UNCHANGED <<storeVars, state, sharedReuse>>
  BY DEF handleUploadEnd, EndCopy
<1> DEFINE Goal == /\ \A y \in Sessions \ {z} : /\ job'[y] = job[y]
                                               /\ uploads'[y] = uploads[y]
                                               /\ pending'[y] = pending[y]
                   /\ job'[z].op \in {"idle", "copy"}
                   /\ StreamsEnd(z)
                   /\ \A i \in DOMAIN pending'[z] :
                         \/ i \in DOMAIN pending[z] /\ pending'[z][i] = pending[z][i]
                         \/ RowOfStream(z, pending'[z][i])
<1>2. ASSUME NEW m \in Streams, NEW key, uploads[z][m] # NoUpload, RecordPending(z, m, key)
      PROVE  Goal
  <2> DEFINE u == uploads[z][m]
             r == [server |-> ServerOf[z], bundle |-> u.file.bundle, path |-> u.file.path,
                   version |-> VersionOf[z], fp |-> u.file.fp, sha |-> u.sha,
                   override |-> (u.placement = "OVERRIDE"), key |-> key]
  <2>1. /\ pending' = [pending EXCEPT ![z] = Append(@, r)]
        /\ job' = [job EXCEPT ![z] = Idle]
        /\ uploads' = [uploads EXCEPT ![z][m] = NoUpload]
    BY <1>2 DEF RecordPending, Continue, dropInflight
  <2>2. u \in Upload
    BY <1>0, <1>2
  <2>3. r.path = u.file.path /\ r.fp = u.file.fp /\ (~r.override => u.placement = "SHARED")
    BY <2>2 DEF Upload
  <2>4. RowOfStream(z, r)
    BY <1>2, <2>3 DEF RowOfStream
  <2> HIDE DEF r
  <2>5. pending'[z] = Append(pending[z], r) /\ pending[z] \in Seq(Row)
    BY <1>0, <2>1
  <2>6. \A i \in DOMAIN pending'[z] :
           \/ i \in DOMAIN pending[z] /\ pending'[z][i] = pending[z][i]
           \/ pending'[z][i] = r
    BY <2>5
  <2>7. StreamsEnd(z)
    BY <1>0, <2>1 DEF StreamsEnd
  <2> QED
    BY <1>0, <2>1, <2>4, <2>6, <2>7 DEF Idle
<1>3. Goal
  <2>1. ASSUME NEW m \in Streams, handleUploadEnd(z, m, TRUE)
        PROVE  Goal
    <3>1. uploads[z][m] # NoUpload
      BY <2>1 DEF handleUploadEnd, InFlight
    <3>2. CASE RecordPending(z, m, ReusableKey(z, uploads[z][m].sha))
      BY <1>2, <3>1, <3>2
    <3>3. CASE Continue(z, [op |-> "copy", stream |-> m]) /\ UNCHANGED <<uploads, pending>>
      BY <1>0, <3>3 DEF Continue, StreamsEnd
    <3> QED
      BY <2>1, <3>2, <3>3 DEF handleUploadEnd
  <2>2. CASE EndCopy(z)
    <3>1. job[z].stream \in Streams /\ uploads[z][job[z].stream] # NoUpload
      BY <1>0, <2>2, JobCases DEF EndCopy, HipInv, SessInv
    <3> QED
      BY <1>2, <2>2, <3>1 DEF EndCopy
  <2> QED
    BY <2>1, <2>2
<1> QED
  BY <1>1, <1>3 DEF OthersStay

\* The end of a session.
LEMMA CloseIs ==
    ASSUME HipInv, NEW z \in Sessions, Close(z)
    PROVE  /\ OthersStay(z)
           /\ state'[z] = "closed"
           /\ job'[z] = Idle
           /\ uploads'[z] = [m \in Streams |-> NoUpload]
           /\ pending'[z] = <<>>
           /\ sharedReuse'[z] = {}
BY DEF HipInv, HipTypeOK, Close, Continue, OthersStay

-----------------------------------------------------------------------------
(* OnlyOffered.                                                            *)

LEMMA OfferedStays ==
    ASSUME NEW y \in Sessions, OnlyOffered(y), job'[y] = job[y], uploads'[y] = uploads[y],
           pending'[y] = pending[y], sharedReuse'[y] = sharedReuse[y]
    PROVE  OnlyOffered(y)'
BY DEF OnlyOffered, OfferedAs

\* A session that ended holds nothing.
LEMMA OfferedGone ==
    ASSUME NEW y \in Sessions, job'[y] = Idle, uploads'[y] = [m \in Streams |-> NoUpload],
           pending'[y] = <<>>, sharedReuse'[y] = {}
    PROVE  OnlyOffered(y)'
<1>1. job'[y].op = "idle"
  BY DEF Idle
<1>2. \A m \in Streams : uploads'[y][m] = NoUpload
  OBVIOUS
<1>3. DOMAIN pending'[y] = {}
  OBVIOUS
<1> QED
  BY <1>1, <1>2, <1>3 DEF OnlyOffered

\* A step of one session keeps what it and the others hold to offered files.
LEMMA OfferedMove ==
    ASSUME HipInv, BaselineAnswers, NEW z \in Sessions, OnlyOffered(z),
           \/ CheckAct(z) \/ BeginAct(z) \/ StreamAct(z) \/ EndAct(z) \/ CommitAct(z)
           \/ CloseAct(z)
    PROVE  OnlyOffered(z)' /\ OthersStay(z)
<1>1. CASE CheckAct(z)
  <2>1. /\ UNCHANGED <<uploads, pending, sharedReuse>> /\ OthersStay(z)
        /\ job'[z].op \notin {"beginShared", "beginBaseline"}
    BY <1>1, CheckIsQuiet
  <2> QED
    BY <2>1 DEF OnlyOffered, OfferedAs
<1>2. CASE CommitAct(z)
  <2>1. /\ UNCHANGED <<uploads, pending, sharedReuse>> /\ OthersStay(z)
        /\ job'[z].op \notin {"beginShared", "beginBaseline"}
    BY <1>2, CommitIsQuiet
  <2> QED
    BY <2>1 DEF OnlyOffered, OfferedAs
<1>3. CASE BeginAct(z)
  <2>1. /\ OthersStay(z) /\ UNCHANGED pending
        /\ \E file \in Offers[z] : BeginsFile(z, file)
    BY <1>3, BeginIs
  <2>2. PICK file \in Offers[z] : BeginsFile(z, file)
    BY <2>1
  <2>3. job'[z].op \in {"beginShared", "beginBaseline"} => job'[z].file \in Offers[z]
    BY <2>2 DEF BeginsFile, Begins
  <2>4. \A m \in Streams : uploads'[z][m] # NoUpload => uploads'[z][m].file \in Offers[z]
    BY <2>2 DEF BeginsFile, OnlyOffered
  <2>5. \A i \in DOMAIN pending'[z] : OfferedAs(z, pending'[z][i])
    BY <2>1 DEF OnlyOffered
  <2>6. \A r \in sharedReuse'[z] : OfferedAs(z, r)
    BY <2>2 DEF BeginsFile, OnlyOffered, OfferedAs
  <2> QED
    BY <2>1, <2>3, <2>4, <2>5, <2>6 DEF OnlyOffered
<1>4. CASE StreamAct(z)
  <2>1. /\ OthersStay(z) /\ UNCHANGED <<pending, sharedReuse>> /\ job'[z] = Idle /\ StreamsEnd(z)
    BY <1>4, StreamIs
  <2>2. job'[z].op = "idle"
    BY <2>1 DEF Idle
  <2>3. \A m \in Streams : uploads'[z][m] # NoUpload => uploads'[z][m].file \in Offers[z]
    BY <2>1 DEF StreamsEnd, OnlyOffered
  <2> QED
    BY <2>1, <2>2, <2>3 DEF OnlyOffered, OfferedAs
<1>5. CASE EndAct(z)
  <2>1. /\ OthersStay(z) /\ UNCHANGED sharedReuse /\ job'[z].op \in {"idle", "copy"}
        /\ StreamsEnd(z)
        /\ \A i \in DOMAIN pending'[z] :
              \/ i \in DOMAIN pending[z] /\ pending'[z][i] = pending[z][i]
              \/ RowOfStream(z, pending'[z][i])
    BY <1>5, EndIs
  <2>2. \A m \in Streams : uploads'[z][m] # NoUpload => uploads'[z][m].file \in Offers[z]
    BY <2>1 DEF StreamsEnd, OnlyOffered
  <2>3. \A r : RowOfStream(z, r) => OfferedAs(z, r)
    BY DEF RowOfStream, OnlyOffered, OfferedAs
  <2>4. \A i \in DOMAIN pending'[z] : OfferedAs(z, pending'[z][i])
    BY <2>1, <2>3 DEF OnlyOffered
  <2> QED
    BY <2>1, <2>2, <2>4 DEF OnlyOffered
<1>6. CASE CloseAct(z)
  <2>1. Close(z)
    BY <1>6 DEF CloseAct, QueryFails, CommitFails, EndSession
  <2> QED
    BY <2>1, CloseIs, OfferedGone
<1> QED
  BY <1>1, <1>2, <1>3, <1>4, <1>5, <1>6

\* Every step does.
LEMMA OfferedStep ==
    ASSUME HipInv, BaselineAnswers, \A z \in Sessions : OnlyOffered(z), [UpdaterStep]_hipVars
    PROVE  \A z \in Sessions : OnlyOffered(z)'
<1>1. ASSUME NEW z \in Sessions,
             \/ CheckAct(z) \/ BeginAct(z) \/ StreamAct(z) \/ EndAct(z) \/ CommitAct(z)
             \/ CloseAct(z)
      PROVE  \A y \in Sessions : OnlyOffered(y)'
  <2>1. OnlyOffered(z)' /\ OthersStay(z)
    BY <1>1, OfferedMove
  <2>2. ASSUME NEW y \in Sessions, y # z PROVE OnlyOffered(y)'
    BY <2>1, <2>2, OfferedStays DEF OthersStay
  <2> QED
    BY <2>1, <2>2
<1>2. ASSUME UNCHANGED <<job, uploads, pending, sharedReuse>>
      PROVE  \A y \in Sessions : OnlyOffered(y)'
  BY <1>2, OfferedStays
<1>3. CASE Start
  BY <1>2, <1>3 DEF Start, sessVars
<1>4. CASE Die
  <2>1. \A y \in Sessions : /\ job'[y] = Idle /\ uploads'[y] = [m \in Streams |-> NoUpload]
                            /\ pending'[y] = <<>> /\ sharedReuse'[y] = {}
    BY <1>4 DEF Die
  <2> QED
    BY <2>1, OfferedGone
<1>5. CASE UNCHANGED hipVars
  BY <1>2, <1>5 DEF hipVars, sessVars
<1>6. ASSUME NEW z \in Sessions, handleHello(z) \/ RetryCommit(z)
      PROVE  \A y \in Sessions : OnlyOffered(y)'
  BY <1>2, <1>6 DEF handleHello, RetryCommit
<1> QED
  BY <1>1, <1>3, <1>4, <1>5, <1>6, UpdaterCases

-----------------------------------------------------------------------------
(* FinalBytesVerified.                                                     *)

OwnTmp(z) == {TempKey(RunOf[z], m) : m \in Streams}

\* z writes or deletes its own tmp keys and no other key.
OwnTmpOnly(z) == \A k \in Keys \cup TempKeys : k \in OwnTmp(z) \/ filer'[k] = filer[k]

LEMMA OwnTmpIs ==
    ASSUME NEW z \in Sessions
    PROVE  /\ OwnTmp(z) \subseteq TempKeys
           /\ OwnTmp(z) \cap Keys = {}
           /\ RunsDiffer => \A y \in Sessions \ {z} : OwnTmp(y) \cap OwnTmp(z) = {}
<1>1. OwnTmp(z) \subseteq TempKeys
  BY TempKeyIs DEF OwnTmp
<1>2. ASSUME RunsDiffer, NEW y \in Sessions, y # z, NEW m, NEW n,
             TempKey(RunOf[y], m) = TempKey(RunOf[z], n)
      PROVE  FALSE
  <2>1. RunOf[y] = RunOf[z]
    BY <1>2 DEF TempKey
  <2> QED
    BY <1>2, <2>1 DEF RunsDiffer
<1> QED
  BY <1>1, <1>2, KeysAssumption DEF OwnTmp

\* Abort and Delete stay with the tmp keys of their session.
LEMMA AbortOwn ==
    ASSUME HipTypeOK, NEW z \in Sessions, NEW keys \in SUBSET OwnTmp(z), AbortTmp(keys)
    PROVE  OwnTmpOnly(z)
<1>1. DOMAIN filer = Keys \cup TempKeys
  BY DEF HipTypeOK
<1>2. PICK gone \in SUBSET keys :
        filer' = [k \in DOMAIN filer |-> IF k \in gone THEN NoSha ELSE filer[k]]
  BY DEF AbortTmp
<1> QED
  BY <1>1, <1>2 DEF OwnTmpOnly

LEMMA DeleteOwn ==
    ASSUME NEW z \in Sessions, NEW m \in Streams,
           NEW f \in [Keys \cup TempKeys -> Shas \cup {NoSha}], NEW x,
           DeleteTmp(f, TempKey(RunOf[z], m), x)
    PROVE  \A k \in Keys \cup TempKeys : k \in OwnTmp(z) \/ filer'[k] = f[k]
<1> DEFINE t == TempKey(RunOf[z], m)
<1>1. t \in OwnTmp(z)
  BY DEF OwnTmp
<1>2. \E v : filer' = [f EXCEPT ![t] = v]
  BY DEF DeleteTmp
<1> HIDE DEF t
<1> QED
  BY <1>1, <1>2

LEMMA StreamOwnTmp ==
    ASSUME HipInv, NEW z \in Sessions, StreamAct(z)
    PROVE  OwnTmpOnly(z)
<1>1. /\ HipTypeOK /\ job[z] \in JobType
      /\ filer \in [Keys \cup TempKeys -> Shas \cup {NoSha}]
  BY DEF HipInv, HipTypeOK
<1>2. ASSUME NEW m \in Streams, NEW x, DeleteTmp(filer, TempKey(RunOf[z], m), x)
      PROVE  OwnTmpOnly(z)
  BY <1>1, <1>2, DeleteOwn DEF OwnTmpOnly
<1>3. ASSUME NEW m \in Streams, NEW x \in Shas, handleUploadChunk(z, m, x)
      PROVE  OwnTmpOnly(z)
  BY <1>3 DEF handleUploadChunk, OwnTmpOnly
<1>4. ASSUME NEW m \in Streams, finishInflight(z, m)
      PROVE  OwnTmpOnly(z)
  <2>1. {TempKey(RunOf[z], m)} \in SUBSET OwnTmp(z)
    BY DEF OwnTmp
  <2> QED
    BY <1>1, <1>4, <2>1, AbortOwn DEF finishInflight
<1>5. ASSUME NEW m \in Streams, EndMismatch(z, m)
      PROVE  OwnTmpOnly(z)
  BY <1>2, <1>5 DEF EndMismatch
<1>6. CASE EndCopyFails(z)
  <2>1. job[z].stream \in Streams
    BY <1>1, <1>6, JobCases DEF EndCopyFails
  <2> QED
    BY <1>2, <1>6, <2>1 DEF EndCopyFails
<1> QED
  BY <1>3, <1>4, <1>5, <1>6 DEF StreamAct

LEMMA CloseOwnTmp ==
    ASSUME HipInv, NEW z \in Sessions, Close(z)
    PROVE  OwnTmpOnly(z)
<1> DEFINE keys == {TempKey(RunOf[z], m) : m \in Uploading(z)}
<1>1. keys \in SUBSET OwnTmp(z) /\ HipTypeOK
  BY DEF OwnTmp, Uploading, HipInv
<1>2. AbortTmp(keys)
  BY DEF Close, abortAllUploads
<1> HIDE DEF keys
<1> QED
  BY <1>1, <1>2, AbortOwn

\* UPLOAD_END puts the bytes it verified at its tmp key, and Copy puts the
\* bytes of the tmp key at the final key of the stream.
CopiesTo(z, k) ==
    /\ job[z].op = "copy"
    /\ k = FinalKey(z, uploads[z][job[z].stream])
    /\ filer[TempKey(RunOf[z], job[z].stream)] # NoSha
    /\ filer'[k] = filer[TempKey(RunOf[z], job[z].stream)]

LEMMA EndOwnTmp ==
    ASSUME HipInv, NEW z \in Sessions, EndAct(z)
    PROVE  /\ \A k \in Keys \cup TempKeys :
                 k \in OwnTmp(z) \/ filer'[k] = filer[k] \/ CopiesTo(z, k)
           /\ CopyVerified(z)'
<1>1. /\ HipTypeOK /\ job \in [Sessions -> JobType]
      /\ uploads \in [Sessions -> [Streams -> Upload \cup {NoUpload}]]
      /\ filer \in [Keys \cup TempKeys -> Shas \cup {NoSha}]
  BY DEF HipInv, HipTypeOK
<1>2. ASSUME NEW m, NEW key, RecordPending(z, m, key)
      PROVE  CopyVerified(z)'
  <2>1. job' = [job EXCEPT ![z] = Idle]
    BY <1>2 DEF RecordPending, Continue
  <2>2. job'[z].op = "idle"
    BY <1>1, <2>1 DEF Idle
  <2> QED
    BY <2>2 DEF CopyVerified
<1>3. ASSUME NEW m \in Streams, handleUploadEnd(z, m, TRUE)
      PROVE  OwnTmpOnly(z) /\ CopyVerified(z)'
  <2> DEFINE t == TempKey(RunOf[z], m)
             u == uploads[z][m]
  <2>1. CASE RecordPending(z, m, ReusableKey(z, u.sha)) /\ DeleteTmp(filer, t, u.sha)
    BY <1>1, <1>2, <2>1, DeleteOwn DEF OwnTmpOnly
  <2>2. CASE /\ job' = [job EXCEPT ![z] = [op |-> "copy", stream |-> m]]
             /\ filer' = [filer EXCEPT ![t] = u.sha]
             /\ UNCHANGED uploads
    <3>1. u.sha = u.file.sha
      BY <1>3 DEF handleUploadEnd, verifyEnd
    <3>2. job'[z] = [op |-> "copy", stream |-> m]
      BY <1>1, <2>2
    <3>3. t \in OwnTmp(z) /\ t \in TempKeys
      BY TempKeyIs DEF OwnTmp
    <3>4. filer'[t] = u.file.sha
      BY <1>1, <2>2, <3>1, <3>3
    <3>5. CopyVerified(z)'
      <4>1. job'[z].stream = m /\ uploads'[z][m] = u
        BY <2>2, <3>2
      <4>2. filer'[TempKey(RunOf[z], m)] = uploads'[z][m].file.sha
        BY <3>4, <4>1
      <4> QED
        BY <4>1, <4>2 DEF CopyVerified
    <3>6. OwnTmpOnly(z)
      BY <1>1, <2>2, <3>3 DEF OwnTmpOnly
    <3> QED
      BY <3>5, <3>6
  <2> QED
    BY <1>3, <2>1, <2>2 DEF handleUploadEnd, Continue
<1>4. CASE EndCopy(z)
  <2> DEFINE m == job[z].stream
             t == TempKey(RunOf[z], m)
             key == FinalKey(z, uploads[z][m])
             f == [filer EXCEPT ![key] = filer[t]]
  <2>1. m \in Streams /\ job[z].op = "copy"
    BY <1>1, <1>4, JobCases DEF EndCopy
  <2>2. filer[t] # NoSha /\ DeleteTmp(f, t, filer[t]) /\ RecordPending(z, m, key)
    BY <1>4 DEF EndCopy
  <2>3. t \in TempKeys
    BY <2>1, TempKeyIs
  <2>4. f \in [Keys \cup TempKeys -> Shas \cup {NoSha}]
    BY <1>1, <2>3
  <2>5. \A k \in Keys \cup TempKeys : k # key => f[k] = filer[k]
    BY <1>1
  <2>6. key \in Keys \cup TempKeys => f[key] = filer[t]
    BY <1>1
  <2> HIDE DEF f
  <2>7. \A k \in Keys \cup TempKeys : k \in OwnTmp(z) \/ filer'[k] = f[k]
    BY <2>1, <2>2, <2>4, DeleteOwn
  <2>8. \A k \in Keys \cup TempKeys :
           k \in OwnTmp(z) \/ filer'[k] = filer[k] \/ (k = key /\ filer'[k] = filer[t])
    BY <2>5, <2>6, <2>7
  <2>9. CopyVerified(z)'
    BY <1>2, <2>2
  <2> QED
    BY <2>1, <2>2, <2>8, <2>9 DEF CopiesTo
<1> QED
  BY <1>3, <1>4 DEF EndAct, OwnTmpOnly

\* A session that does not write the tmp key of y leaves its copy verified.
LEMMA CopyStays ==
    ASSUME HipInv, NEW y \in Sessions, CopyVerified(y), job'[y] = job[y], uploads'[y] = uploads[y],
           \A k \in OwnTmp(y) : filer'[k] = filer[k]
    PROVE  CopyVerified(y)'
<1>1. ASSUME job[y].op = "copy" PROVE TempKey(RunOf[y], job[y].stream) \in OwnTmp(y)
  BY <1>1, Typed, JobCases DEF HipInv, OwnTmp
<1> QED
  BY <1>1 DEF CopyVerified

LEMMA FinalStays ==
    ASSUME FinalBytesVerified, \A k \in Keys : filer'[k] = filer[k]
    PROVE  FinalBytesVerified'
BY DEF FinalBytesVerified

\* A step of z that is not in COMMIT of another: the copies of the others stay
\* verified, and the final keys are left alone or get verified bytes.
LEMMA BytesMove ==
    ASSUME HipInv, BytesInv, RunsDiffer, NEW z \in Sessions, OthersStay(z),
           \A y \in Sessions : OnlyOffered(y)',
           \A k \in Keys \cup TempKeys :
               k \in OwnTmp(z) \/ filer'[k] = filer[k] \/ CopiesTo(z, k),
           CopyVerified(z)'
    PROVE  BytesInv'
<1>1. job[z].op = "copy" =>
         LET u == uploads[z][job[z].stream]
         IN  u # NoUpload /\ u \in Upload /\ u.file \in Offers[z] /\ u.file \in File
  <2>1. ASSUME job[z].op = "copy"
        PROVE  /\ job[z].stream \in Streams
               /\ uploads[z][job[z].stream] # NoUpload
               /\ uploads[z] \in [Streams -> Upload \cup {NoUpload}]
    BY <2>1, Typed, JobCases DEF HipInv, SessInv
  <2> QED
    BY <2>1, OffersTyped DEF BytesInv, OnlyOffered
<1>2. ASSUME NEW k, CopiesTo(z, k)
      PROVE  /\ k \in Keys
             /\ \E f \in Offers[z] :
                   f.sha = filer'[k] /\ k \in {SharedKey(f.path), OverrideKey(ServerOf[z], f.path)}
  <2> DEFINE u == uploads[z][job[z].stream]
  <2>1. u.file \in Offers[z] /\ u.file.path \in Paths /\ ServerOf[z] \in Servers
    BY <1>1, <1>2, SessionsAssumption DEF CopiesTo, File
  <2>2. filer'[k] = u.file.sha
    BY <1>2 DEF CopiesTo, BytesInv, CopyVerified
  <2>3. k \in {SharedKey(u.file.path), OverrideKey(ServerOf[z], u.file.path)}
    BY <1>2 DEF CopiesTo, FinalKey
  <2> QED
    BY <2>1, <2>2, <2>3, KeysAssumption
<1>3. ASSUME NEW y \in Sessions, y # z PROVE CopyVerified(y)'
  <2>1. \A k \in OwnTmp(y) : k \in TempKeys /\ k \notin Keys /\ k \notin OwnTmp(z)
    BY <1>3, OwnTmpIs
  <2>2. \A k \in OwnTmp(y) : filer'[k] = filer[k]
    BY <1>2, <2>1
  <2> QED
    BY <1>3, <2>2, CopyStays DEF BytesInv, OthersStay
<1>4. FinalBytesVerified'
  <2> SUFFICES ASSUME NEW k \in Keys, filer'[k] # NoSha
               PROVE  \E y \in Sessions : \E f \in Offers[y] :
                         /\ f.sha = filer'[k]
                         /\ k \in {SharedKey(f.path), OverrideKey(ServerOf[y], f.path)}
    BY DEF FinalBytesVerified
  <2>1. CASE filer'[k] = filer[k]
    BY <2>1 DEF BytesInv, FinalBytesVerified
  <2>2. CASE CopiesTo(z, k)
    BY <1>2, <2>2
  <2> QED
    BY <2>1, <2>2, OwnTmpIs
<1> QED
  BY <1>3, <1>4 DEF BytesInv

\* Every step of updaters of different runs keeps BytesInv.
LEMMA BytesStep ==
    ASSUME HipInv, BaselineAnswers, BytesInv, RunsDiffer, [UpdaterStep]_hipVars
    PROVE  BytesInv'
<1>0. \A y \in Sessions : OnlyOffered(y)'
  BY OfferedStep DEF BytesInv
<1>1. ASSUME NEW z \in Sessions, EndAct(z) PROVE BytesInv'
  BY <1>0, <1>1, EndIs, EndOwnTmp, BytesMove
<1>2. ASSUME NEW z \in Sessions, OthersStay(z), OwnTmpOnly(z), job'[z].op # "copy" PROVE BytesInv'
  <2>1. CopyVerified(z)'
    BY <1>2 DEF CopyVerified
  <2> QED
    BY <1>0, <1>2, <2>1, BytesMove DEF OwnTmpOnly
<1>3. ASSUME NEW z \in Sessions, StreamAct(z) PROVE BytesInv'
  <2>1. job'[z].op # "copy" /\ OthersStay(z) /\ OwnTmpOnly(z)
    BY <1>3, StreamIs, StreamOwnTmp DEF Idle
  <2> QED
    BY <1>2, <2>1
<1>4. ASSUME NEW z \in Sessions, CloseAct(z) PROVE BytesInv'
  <2>1. Close(z)
    BY <1>4 DEF CloseAct, QueryFails, CommitFails, EndSession
  <2>2. job'[z].op # "copy" /\ OthersStay(z) /\ OwnTmpOnly(z)
    BY <2>1, CloseIs, CloseOwnTmp DEF Idle
  <2> QED
    BY <1>2, <2>2
<1>5. ASSUME NEW z \in Sessions, CheckAct(z) \/ BeginAct(z) \/ CommitAct(z) PROVE BytesInv'
  <2>1. OnlyOffered(z)
    BY DEF BytesInv
  <2>2. UNCHANGED filer /\ OthersStay(z) /\ job'[z].op # "copy"
    <3>1. CASE CheckAct(z)
      BY <3>1, CheckIsQuiet
    <3>2. CASE BeginAct(z)
      BY <2>1, <3>2, BeginIs DEF Begins
    <3>3. CASE CommitAct(z)
      BY <3>3, CommitIsQuiet
    <3> QED
      BY <1>5, <3>1, <3>2, <3>3
  <2> QED
    BY <1>2, <2>2 DEF OwnTmpOnly
<1>6. ASSUME UNCHANGED filer,
             \A y \in Sessions : \/ job'[y] = Idle
                                 \/ job'[y] = job[y] /\ uploads'[y] = uploads[y]
      PROVE  BytesInv'
  <2>1. ASSUME NEW y \in Sessions PROVE CopyVerified(y)'
    <3>1. CASE job'[y] = Idle
      BY <3>1 DEF CopyVerified, Idle
    <3>2. CASE job'[y] = job[y] /\ uploads'[y] = uploads[y]
      BY <1>6, <3>2, CopyStays DEF BytesInv
    <3> QED
      BY <1>6, <3>1, <3>2
  <2>2. FinalBytesVerified'
    BY <1>6, FinalStays DEF BytesInv
  <2> QED
    BY <1>0, <2>1, <2>2 DEF BytesInv
<1>7. CASE Start
  BY <1>6, <1>7 DEF Start, sessVars
<1>8. CASE Die
  BY <1>6, <1>8 DEF Die
<1>9. CASE UNCHANGED hipVars
  BY <1>6, <1>9 DEF hipVars, sessVars
<1>10. ASSUME NEW z \in Sessions, handleHello(z) \/ RetryCommit(z) PROVE BytesInv'
  BY <1>6, <1>10 DEF handleHello, RetryCommit
<1> QED
  BY <1>1, <1>3, <1>4, <1>5, <1>7, <1>8, <1>9, <1>10, UpdaterCases

-----------------------------------------------------------------------------
(* Updaters that take turns.                                               *)

LEMMA SerialCases ==
    ASSUME SerialNext
    PROVE  \/ \E z \in Sessions : \/ Alone(z) /\ (handleHello(z) \/ RetryCommit(z))
                                  \/ CheckAct(z) \/ BeginAct(z) \/ StreamAct(z) \/ EndAct(z)
                                  \/ CommitAct(z) \/ CloseAct(z)
           \/ Start
           \/ Die
BY DEF SerialNext, UpdaterFrame, SessionStep, CheckAct, BeginAct, StreamAct, EndAct, CommitAct,
       CloseAct

HoldsNothing(z) ==
    /\ job[z] = Idle
    /\ uploads[z] = [m \in Streams |-> NoUpload]
    /\ pending[z] = <<>>
    /\ sharedReuse[z] = {}

LEMMA TurnsMove ==
    ASSUME TakeTurns, NEW z \in Sessions, OthersStay(z), ~Away(z) \/ Away(z)',
           Away(z)' => HoldsNothing(z)'
    PROVE  TakeTurns'
<1>1. \A y \in Sessions \ {z} : Away(y)' <=> Away(y)
  BY DEF OthersStay, Away
<1>2. ASSUME NEW y \in Sessions, NEW w \in Sessions, y # w PROVE Away(y)' \/ Away(w)'
  BY <1>1, <1>2 DEF TakeTurns
<1>3. ASSUME NEW y \in Sessions, Away(y)' PROVE HoldsNothing(y)'
  <2>1. CASE y = z
    BY <1>3, <2>1
  <2>2. CASE y # z
    BY <1>1, <1>3, <2>2 DEF TakeTurns, HoldsNothing, OthersStay
  <2> QED
    BY <2>1, <2>2
<1> QED
  BY <1>2, <1>3 DEF TakeTurns, HoldsNothing

\* A session that acts, but to say HELLO or to end, has said HELLO and has not
\* ended.
LEMMA ActorIsHere ==
    ASSUME TakeTurns, NEW z \in Sessions,
           CheckAct(z) \/ BeginAct(z) \/ StreamAct(z) \/ EndAct(z) \/ CommitAct(z)
    PROVE  ~Away(z)
<1>1. Away(z) => job[z].op = "idle"
  BY DEF TakeTurns, Idle
<1>2. CASE CheckAct(z)
  BY <1>1, <1>2 DEF CheckAct, handleCheckBatch, Accepts, CheckServer, CheckAny, CheckCompleted,
                    CheckBaseline, Away
<1>3. CASE BeginAct(z)
  BY <1>1, <1>3 DEF BeginAct, handleUploadBegin, Accepts, BeginShared, BeginBaseline, Away
<1>4. CASE StreamAct(z)
  BY <1>1, <1>4 DEF StreamAct, handleUploadChunk, finishInflight, EndMismatch, EndCopyFails,
                    InFlight, Away
<1>5. CASE EndAct(z)
  BY <1>1, <1>5 DEF EndAct, handleUploadEnd, EndCopy, InFlight, Away
<1>6. CASE CommitAct(z)
  BY <1>1, <1>6 DEF CommitAct, handleCommit, Accepts, InsertPending, LoadClones, InsertClone,
                    InsertReuse, InsertCompletion, InTx, Publish, Finalize, Away
<1> QED
  BY <1>2, <1>3, <1>4, <1>5, <1>6

LEMMA TurnsStep ==
    ASSUME HipInv, BaselineAnswers, \A z \in Sessions : OnlyOffered(z), TakeTurns,
           [SerialNext]_hipVars
    PROVE  TakeTurns'
<1>1. ASSUME NEW z \in Sessions,
             CheckAct(z) \/ BeginAct(z) \/ StreamAct(z) \/ EndAct(z) \/ CommitAct(z)
      PROVE  TakeTurns'
  <2>1. OthersStay(z) /\ state'[z] \in {state[z], "running", "committing", "finalized"}
    <3>1. CASE CheckAct(z)
      BY <3>1, CheckIsQuiet
    <3>2. CASE BeginAct(z)
      BY <3>2, BeginIs
    <3>3. CASE StreamAct(z)
      BY <3>3, StreamIs
    <3>4. CASE EndAct(z)
      BY <3>4, EndIs
    <3>5. CASE CommitAct(z)
      BY <3>5, CommitIsQuiet
    <3> QED
      BY <1>1, <3>1, <3>2, <3>3, <3>4, <3>5
  <2>2. ~Away(z)
    BY <1>1, ActorIsHere
  <2>3. ~Away(z)'
    BY <2>1, <2>2 DEF Away
  <2> QED
    BY <2>1, <2>2, <2>3, TurnsMove
<1>2. ASSUME NEW z \in Sessions, CloseAct(z) PROVE TakeTurns'
  <2>1. Close(z)
    BY <1>2 DEF CloseAct, QueryFails, CommitFails, EndSession
  <2>2. OthersStay(z) /\ Away(z)' /\ HoldsNothing(z)'
    BY <2>1, CloseIs DEF Away, HoldsNothing
  <2> QED
    BY <2>2, TurnsMove
<1>3. ASSUME NEW z \in Sessions, Alone(z), handleHello(z) \/ RetryCommit(z) PROVE TakeTurns'
  <2>1. /\ UNCHANGED <<job, uploads, pending, sharedReuse>>
        /\ state' = [state EXCEPT ![z] = "handshaked"]
    BY <1>3 DEF handleHello, RetryCommit
  <2>2. state \in [Sessions -> States]
    BY DEF HipInv, HipTypeOK, States
  <2>3. state'[z] = "handshaked" /\ \A y \in Sessions \ {z} : state'[y] = state[y] /\ Away(y)
    BY <1>3, <2>1, <2>2 DEF Alone, Away
  <2>4. \A y \in Sessions \ {z} : Away(y)'
    BY <2>3 DEF Away
  <2>5. \A y, w \in Sessions : y = w \/ Away(y)' \/ Away(w)'
    BY <2>4
  <2>6. ~Away(z)'
    BY <2>3 DEF Away
  <2>7. \A y \in Sessions : Away(y)' => HoldsNothing(y)
    BY <2>3, <2>6 DEF TakeTurns, HoldsNothing
  <2> QED
    BY <2>1, <2>5, <2>7 DEF TakeTurns, HoldsNothing
<1>4. CASE Start
  BY <1>4 DEF Start, sessVars, TakeTurns, Away
<1>5. CASE Die
  <2>1. \A y \in Sessions : HoldsNothing(y)' /\ state'[y] \in {"handshake", "closed"}
    BY <1>5 DEF Die, HoldsNothing
  <2> QED
    BY <2>1 DEF TakeTurns, HoldsNothing, Away
<1>6. CASE UNCHANGED hipVars
  BY <1>6 DEF hipVars, sessVars, TakeTurns, Away
<1> QED
  BY <1>1, <1>2, <1>3, <1>4, <1>5, <1>6, SerialCases

\* The transaction stays with its session.
LEMMA TxMove ==
    ASSUME TxOwned, NEW z \in Sessions, OthersStay(z),
           \/ tx' = NoTx /\ work' = db'
           \/ tx' # NoTx /\ job'[z].op = "commit"
           \/ UNCHANGED <<db, work, tx>> /\ job[z].op # "commit"
    PROVE  TxOwned'
<1>1. CASE tx' = NoTx /\ work' = db'
  BY <1>1 DEF TxOwned
<1>2. CASE tx' # NoTx /\ job'[z].op = "commit"
  BY <1>2 DEF TxOwned
<1>3. CASE UNCHANGED <<db, work, tx>> /\ job[z].op # "commit"
  BY <1>3 DEF TxOwned, OthersStay
<1> QED
  BY <1>1, <1>2, <1>3

\* What a session holds, and the rows there are, are its baselines.
LEMMA HeldBaselines ==
    ASSUME NEW z \in Sessions
    PROVE  /\ \A r \in RowsOf(db) \cup RowsOf(work) : ~r.override => IsBaseline(z, r.path, r.fp)
           /\ \A i \in DOMAIN pending[z] : ~pending[z][i].override =>
                 IsBaseline(z, pending[z][i].path, pending[z][i].fp)
           /\ \A r \in sharedReuse[z] : IsBaseline(z, r.path, r.fp)
           /\ \A m \in Streams : uploads[z][m] # NoUpload /\ uploads[z][m].placement = "SHARED" =>
                 IsBaseline(z, uploads[z][m].file.path, uploads[z][m].file.fp)
           /\ job[z].op = "commit" =>
                 /\ \A r \in job[z].rows : ~r.override => IsBaseline(z, r.path, r.fp)
                 /\ \A r \in job[z].reuse : IsBaseline(z, r.path, r.fp)
BY DEF IsBaseline, Uploading

\* A step after which all that z holds was a baseline makes no new one.
LEMMA NoNewBaseline ==
    ASSUME NEW z \in Sessions, OneBaseline(z),
           \A r \in RowsOf(db') \cup RowsOf(work') : ~r.override => IsBaseline(z, r.path, r.fp),
           \A i \in DOMAIN pending'[z] : ~pending'[z][i].override =>
               IsBaseline(z, pending'[z][i].path, pending'[z][i].fp),
           \A r \in sharedReuse'[z] : IsBaseline(z, r.path, r.fp),
           \A m \in Streams : uploads'[z][m] # NoUpload /\ uploads'[z][m].placement = "SHARED" =>
               IsBaseline(z, uploads'[z][m].file.path, uploads'[z][m].file.fp),
           job'[z].op = "commit" =>
               /\ \A r \in job'[z].rows : ~r.override => IsBaseline(z, r.path, r.fp)
               /\ \A r \in job'[z].reuse : IsBaseline(z, r.path, r.fp)
    PROVE  OneBaseline(z)'
<1>1. ASSUME NEW p, NEW f, IsBaseline(z, p, f)' PROVE IsBaseline(z, p, f)
  <2>1. \A r \in RowsOf(db)' \cup RowsOf(work)' : ~r.override => IsBaseline(z, r.path, r.fp)
    BY DEF RowsOf
  <2>2. CASE \E r \in RowsOf(db)' \cup RowsOf(work)' : ~r.override /\ r.path = p /\ r.fp = f
    BY <2>1, <2>2
  <2>3. CASE \E i \in DOMAIN pending'[z] : /\ ~pending'[z][i].override
                                          /\ pending'[z][i].path = p /\ pending'[z][i].fp = f
    BY <2>3
  <2>4. CASE \E r \in sharedReuse'[z] : r.path = p /\ r.fp = f
    BY <2>4
  <2>5. CASE \E m \in Streams :
               /\ uploads'[z][m] # NoUpload /\ uploads'[z][m].placement = "SHARED"
               /\ uploads'[z][m].file.path = p /\ uploads'[z][m].file.fp = f
    BY <2>5
  <2>6. CASE /\ job'[z].op = "commit"
             /\ \/ \E r \in job'[z].rows : ~r.override /\ r.path = p /\ r.fp = f
                \/ \E r \in job'[z].reuse : r.path = p /\ r.fp = f
    BY <2>6
  <2> QED
    BY <1>1, <2>2, <2>3, <2>4, <2>5, <2>6 DEF IsBaseline, Uploading
<1> QED
  BY <1>1 DEF OneBaseline

LEMMA CheckOneBaseline ==
    ASSUME HipInv, NEW z \in Sessions, OneBaseline(z), CheckAct(z)
    PROVE  OneBaseline(z)'
<1>1. /\ UNCHANGED <<db, work, uploads, pending, sharedReuse>>
      /\ job'[z].op # "commit"
  BY CheckIsQuiet DEF storeVars
<1> QED
  BY <1>1, HeldBaselines, NoNewBaseline

LEMMA StreamOneBaseline ==
    ASSUME HipInv, NEW z \in Sessions, OneBaseline(z), StreamAct(z)
    PROVE  OneBaseline(z)'
<1>1. /\ UNCHANGED <<db, work, pending, sharedReuse>>
      /\ job'[z].op # "commit"
      /\ StreamsEnd(z)
  BY StreamIs DEF storeVars, Idle
<1>2. \A m \in Streams : uploads'[z][m] # NoUpload /\ uploads'[z][m].placement = "SHARED" =>
         IsBaseline(z, uploads'[z][m].file.path, uploads'[z][m].file.fp)
  BY <1>1, HeldBaselines DEF StreamsEnd
<1> QED
  BY <1>1, <1>2, HeldBaselines, NoNewBaseline

LEMMA EndOneBaseline ==
    ASSUME HipInv, NEW z \in Sessions, OneBaseline(z), EndAct(z)
    PROVE  OneBaseline(z)'
<1>1. /\ UNCHANGED <<db, work, sharedReuse>>
      /\ job'[z].op # "commit"
      /\ StreamsEnd(z)
      /\ \A i \in DOMAIN pending'[z] :
            \/ i \in DOMAIN pending[z] /\ pending'[z][i] = pending[z][i]
            \/ RowOfStream(z, pending'[z][i])
  BY EndIs DEF storeVars
<1>2. \A m \in Streams : uploads'[z][m] # NoUpload /\ uploads'[z][m].placement = "SHARED" =>
         IsBaseline(z, uploads'[z][m].file.path, uploads'[z][m].file.fp)
  BY <1>1, HeldBaselines DEF StreamsEnd
<1>3. \A r : RowOfStream(z, r) /\ ~r.override => IsBaseline(z, r.path, r.fp)
  BY HeldBaselines DEF RowOfStream
<1>4. \A i \in DOMAIN pending'[z] : ~pending'[z][i].override =>
         IsBaseline(z, pending'[z][i].path, pending'[z][i].fp)
  BY <1>1, <1>3, HeldBaselines
<1> QED
  BY <1>1, <1>2, <1>4, HeldBaselines, NoNewBaseline

LEMMA CloseOneBaseline ==
    ASSUME HipInv, NEW z \in Sessions, OneBaseline(z), CloseAct(z)
    PROVE  OneBaseline(z)'
<1>1. Close(z)
  BY DEF CloseAct, QueryFails, CommitFails, EndSession
<1>2. db' = db /\ work' \in {db, work}
  BY DEF CloseAct, QueryFails, CommitFails, EndSession, Rollback, storeVars
<1>3. /\ job'[z].op = "idle" /\ sharedReuse'[z] = {} /\ pending'[z] = <<>>
      /\ \A m \in Streams : uploads'[z][m] = NoUpload
  BY <1>1, CloseIs DEF Idle
<1>4. DOMAIN pending'[z] = {}
  BY <1>3
<1>5. \A r \in RowsOf(db') \cup RowsOf(work') : r \in RowsOf(db) \cup RowsOf(work)
  BY <1>2
<1> QED
  BY <1>3, <1>4, <1>5, HeldBaselines, NoNewBaseline

\* Only the session whose turn it is has a transaction.
LEMMA NoTxElsewhere ==
    ASSUME TakeTurns, TxOwned, NEW z \in Sessions, ~Away(z), job[z].op # "commit"
    PROVE  tx = NoTx /\ work = db
<1>1. \A y \in Sessions : job[y].op # "commit"
  BY DEF TakeTurns, Idle
<1> QED
  BY <1>1 DEF TxOwned

\* A stream becomes SHARED only where there is no shared row; whatever else its
\* session holds for the path is the same file.
LEMMA BeginOneBaseline ==
    ASSUME HipInv, BaselineAnswers, OneFilePerPath, NEW z \in Sessions, OnlyOffered(z),
           OneBaseline(z), TakeTurns, TxOwned, BeginAct(z)
    PROVE  OneBaseline(z)'
<1>1. /\ UNCHANGED <<db, work, pending>>
      /\ job'[z].op # "commit"
      /\ \E file \in Offers[z] : BeginsFile(z, file)
  BY BeginIs DEF storeVars, Begins
<1>2. PICK file \in Offers[z] : BeginsFile(z, file)
  BY <1>1
<1>3. file \in File /\ file.path \in Paths
  BY OffersTyped DEF File
<1> DEFINE New == job[z].op = "beginBaseline" /\ CurrentSharedByPath(db, file.path) = NoRow
<1>4. \A r \in sharedReuse'[z] : IsBaseline(z, r.path, r.fp)
  BY <1>2, HeldBaselines DEF BeginsFile
<1>5. \A m \in Streams : uploads'[z][m] # NoUpload /\ uploads'[z][m].placement = "SHARED" =>
         \/ IsBaseline(z, uploads'[z][m].file.path, uploads'[z][m].file.fp)
         \/ New /\ uploads'[z][m].file = file
  BY <1>2, HeldBaselines DEF BeginsFile
<1>6. CASE ~New
  BY <1>1, <1>4, <1>5, <1>6, HeldBaselines, NoNewBaseline
<1>7. CASE New
  <2>1. ~Away(z) /\ job[z].op # "commit"
    BY <1>7, ActorIsHere
  <2>2. work = db
    BY <2>1, NoTxElsewhere
  <2>3. \A r \in RowsOf(db) \cup RowsOf(work) : r.path = file.path => r.override
    BY <1>3, <1>7, <2>2 DEF BaselineAnswers
  <2>4. ASSUME NEW r, OfferedAs(z, r), r.path = file.path PROVE r.fp = file.fp
    BY <2>4 DEF OfferedAs, OneFilePerPath
  <2>5. ASSUME NEW f, IsBaseline(z, file.path, f) PROVE f = file.fp
    <3>1. \A i \in DOMAIN pending[z] : pending[z][i].path = file.path => pending[z][i].fp = file.fp
      BY <2>4 DEF OnlyOffered
    <3>2. \A r \in sharedReuse[z] : r.path = file.path => r.fp = file.fp
      BY <2>4 DEF OnlyOffered
    <3>3. \A m \in Uploading(z) : uploads[z][m].file.path = file.path =>
                                     uploads[z][m].file.fp = file.fp
      BY DEF Uploading, OnlyOffered, OneFilePerPath
    <3> QED
      BY <2>1, <2>3, <2>5, <3>1, <3>2, <3>3 DEF IsBaseline
  <2>6. ASSUME NEW p, NEW f, IsBaseline(z, p, f)'
        PROVE  IsBaseline(z, p, f) \/ (p = file.path /\ f = file.fp)
    <3>1. CASE \E r \in RowsOf(db)' \cup RowsOf(work)' : ~r.override /\ r.path = p /\ r.fp = f
      BY <1>1, <3>1, HeldBaselines DEF RowsOf
    <3>2. CASE \E i \in DOMAIN pending'[z] : /\ ~pending'[z][i].override
                                            /\ pending'[z][i].path = p /\ pending'[z][i].fp = f
      BY <1>1, <3>2, HeldBaselines
    <3>3. CASE \E r \in sharedReuse'[z] : r.path = p /\ r.fp = f
      BY <1>4, <3>3
    <3>4. CASE \E m \in Streams :
                 /\ uploads'[z][m] # NoUpload /\ uploads'[z][m].placement = "SHARED"
                 /\ uploads'[z][m].file.path = p /\ uploads'[z][m].file.fp = f
      BY <1>5, <3>4
    <3> QED
      BY <1>1, <2>6, <3>1, <3>2, <3>3, <3>4 DEF IsBaseline, Uploading
  <2> QED
    BY <2>5, <2>6 DEF OneBaseline
<1> QED
  BY <1>6, <1>7

\* COMMIT writes what its session holds and what the table has.
LEMMA CommitOneBaseline ==
    ASSUME HipInv, QueriesAnswer, InsertsOnly, NEW z \in Sessions, OneBaseline(z), CommitAct(z)
    PROVE  OneBaseline(z)'
<1>0. /\ job \in [Sessions -> JobType] /\ db \in Db /\ work \in Db
      /\ pending[z] \in Seq(Row) /\ sharedReuse[z] \subseteq ReuseEntry
      /\ \A i \in DOMAIN pending[z] : pending[z][i] \in Row
  BY Typed DEF HipInv, HipTypeOK
<1>1. UNCHANGED <<uploads, pending, sharedReuse>>
  BY CommitIsQuiet
<1> DEFINE Base(r) == ~r.override => IsBaseline(z, r.path, r.fp)
           RowsOk == \A r \in RowsOf(db') \cup RowsOf(work') : Base(r)
           JobOk == job'[z].op = "commit" =>
                       /\ \A r \in job'[z].rows : Base(r)
                       /\ \A r \in job'[z].reuse : IsBaseline(z, r.path, r.fp)
<1>2. \A r \in RowsOf(db) \cup RowsOf(work) : Base(r)
  BY HeldBaselines
<1>3. ASSUME NEW a \in Row, Base(a), Put(a) PROVE RowsOk
  <2>1. work' = InsertAsset(work, a) /\ db' = db
    BY <1>3 DEF Put
  <2>2. RowsOf(InsertAsset(work, a)) \subseteq RowsOf(work) \cup {a}
    BY <1>0 DEF InsertsOnly
  <2> QED
    BY <1>2, <1>3, <2>1, <2>2
<1>4. ASSUME UNCHANGED storeVars PROVE RowsOk
  BY <1>2, <1>4 DEF storeVars
<1>6. CASE handleCommit(z)
  <2>1. PICK C \in Merges(z) :
            job' = [job EXCEPT ![z] = [op |-> "commit", i |-> 1, rows |-> {}, comps |-> C,
                                       clones |-> {e \in bundles[z] : e.reuse},
                                       reuse |-> sharedReuse[z]]]
    BY <1>6 DEF handleCommit, Continue
  <2>2. job'[z].rows = {} /\ job'[z].reuse = sharedReuse[z]
    BY <1>0, <2>1
  <2>3. db' = db /\ work' = InsertVersion(db, ServerOf[z], VersionOf[z], HashOf[z])
    BY <1>6 DEF handleCommit, Begin
  <2>4. work'.assets = db.assets
    BY <1>0, <2>3 DEF InsertVersion, Db
  <2>5. RowsOk
    BY <1>2, <2>3, <2>4 DEF RowsOf
  <2> QED
    BY <1>1, <2>2, <2>5, HeldBaselines, NoNewBaseline
<1>7. CASE Publish(z)
  <2>1. /\ job' = [job EXCEPT ![z] = [op |-> "committed"]]
        /\ db' = MarkReadIndexCurrent(work) /\ work' = db'
    BY <1>7 DEF Publish, Continue, CommitTx
  <2>2. work'.assets = work.assets /\ job'[z].op # "commit"
    BY <1>0, <2>1 DEF MarkReadIndexCurrent, Db
  <2>3. RowsOk
    BY <1>2, <2>1, <2>2 DEF RowsOf
  <2> QED
    BY <1>1, <2>2, <2>3, HeldBaselines, NoNewBaseline
<1>8. CASE Finalize(z)
  <2>1. RowsOk /\ job'[z].op # "commit"
    BY <1>0, <1>4, <1>8 DEF Finalize, Continue, Idle
  <2> QED
    BY <1>1, <2>1, HeldBaselines, NoNewBaseline
<1>5. CASE InTx(z)
  <2>1. /\ job[z].op = "commit"
        /\ job[z] \in [op : {"commit"}, i : Nat \ {0}, rows : SUBSET Row,
                       clones : SUBSET BundleEntry, reuse : SUBSET ReuseEntry,
                       comps : SUBSET [bundle : Bundles, fp : Fps, source : Sources]]
    BY <1>0, <1>5, JobCases DEF InTx
  <2>2. /\ \A r \in job[z].rows : Base(r) /\ r \in Row
        /\ \A r \in job[z].reuse : IsBaseline(z, r.path, r.fp) /\ r \in ReuseEntry
    BY <2>1, HeldBaselines
  <2>3. CASE InsertPending(z)
    <3>1. job[z].i \in DOMAIN pending[z]
      BY <1>0, <2>1, <2>3, LenProperties DEF InsertPending, PendingDone
    <3>2. RowsOk
      BY <1>0, <1>3, <2>3, <3>1, HeldBaselines DEF InsertPending
    <3>3. job'[z] = [job[z] EXCEPT !.i = @ + 1]
      BY <1>0, <2>3 DEF InsertPending, Continue
    <3>4. job'[z].rows = job[z].rows /\ job'[z].reuse = job[z].reuse
      BY <2>1, <3>3
    <3> QED
      BY <1>1, <2>2, <3>2, <3>4, HeldBaselines, NoNewBaseline
  <2>4. CASE LoadClones(z)
    <3>1. PICK e \in job[z].clones :
              job' = [job EXCEPT ![z] = [job[z] EXCEPT !.clones = @ \ {e},
                        !.rows = {Rebind(z, a) : a \in ReusableBundleAssets(work, e.bundle, e.fp)}]]
      BY <2>4 DEF LoadClones, Continue
    <3> DEFINE rows == {Rebind(z, a) : a \in ReusableBundleAssets(work, e.bundle, e.fp)}
    <3>2. \A r \in rows : Base(r)
      <4> SUFFICES ASSUME NEW a \in ReusableBundleAssets(work, e.bundle, e.fp)
                   PROVE  Base(Rebind(z, a))
        OBVIOUS
      <4>1. a \in RowsOf(work) /\ a \in Row
        BY <1>0, Typed DEF QueriesAnswer, HipInv
      <4>2. /\ Rebind(z, a).override = a.override /\ Rebind(z, a).path = a.path
            /\ Rebind(z, a).fp = a.fp
        BY <4>1 DEF Rebind, Row
      <4> QED
        BY <1>2, <4>1, <4>2
    <3>3. job'[z] = [job[z] EXCEPT !.clones = @ \ {e}, !.rows = rows]
      BY <1>0, <3>1
    <3> HIDE DEF rows
    <3>4. job'[z].rows = rows /\ job'[z].reuse = job[z].reuse
      BY <2>1, <3>3
    <3>5. RowsOk
      BY <1>4, <2>4 DEF LoadClones
    <3> QED
      BY <1>1, <2>2, <3>2, <3>4, <3>5, HeldBaselines, NoNewBaseline
  <2>5. CASE InsertClone(z)
    <3>1. PICK a \in job[z].rows : Put(a) /\ job' = [job EXCEPT ![z] = [job[z] EXCEPT !.rows = @ \ {a}]]
      BY <2>5 DEF InsertClone, Continue
    <3>2. RowsOk
      BY <1>3, <2>2, <3>1
    <3>3. job'[z].rows \subseteq job[z].rows /\ job'[z].reuse = job[z].reuse
      BY <1>0, <2>1, <3>1
    <3> QED
      BY <1>1, <2>2, <3>2, <3>3, HeldBaselines, NoNewBaseline
  <2>6. CASE InsertReuse(z)
    <3>1. PICK r \in job[z].reuse :
            Put(ReuseRow(z, r)) /\ job' = [job EXCEPT ![z] = [job[z] EXCEPT !.reuse = @ \ {r}]]
      BY <2>6 DEF InsertReuse, Continue
    <3>2. ReuseRow(z, r) \in Row
      BY <2>2, SessionsAssumption DEF ReuseRow, Row, ReuseEntry
    <3>3. Base(ReuseRow(z, r))
      BY <2>2 DEF ReuseRow
    <3>4. RowsOk
      BY <1>3, <3>1, <3>2, <3>3
    <3>5. job'[z].rows = job[z].rows /\ job'[z].reuse \subseteq job[z].reuse
      BY <1>0, <2>1, <3>1
    <3> QED
      BY <1>1, <2>2, <3>4, <3>5, HeldBaselines, NoNewBaseline
  <2>7. CASE InsertCompletion(z)
    <3>1. PICK c \in job[z].comps :
            /\ Complete(completionOf(z, c))
            /\ job' = [job EXCEPT ![z] = [job[z] EXCEPT !.comps = @ \ {c}]]
      BY <2>7 DEF InsertCompletion, Continue
    <3>2. db' = db /\ work' = InsertBundleCompletion(work, completionOf(z, c))
      BY <3>1 DEF Complete
    <3>3. work'.assets = work.assets
      BY <1>0, <3>2 DEF InsertBundleCompletion, Db
    <3>4. RowsOk
      BY <1>2, <3>2, <3>3 DEF RowsOf
    <3>5. job'[z].rows = job[z].rows /\ job'[z].reuse = job[z].reuse
      BY <1>0, <2>1, <3>1
    <3> QED
      BY <1>1, <2>2, <3>4, <3>5, HeldBaselines, NoNewBaseline
  <2> QED
    BY <1>6, <1>7, <1>8, <2>3, <2>4, <2>5, <2>6, <2>7 DEF CommitAct
<1> QED
  BY <1>5, <1>6, <1>7, <1>8 DEF CommitAct, InsertPending, LoadClones, InsertClone, InsertReuse,
                                InsertCompletion

\* Another session than the one that acts holds nothing, so its baselines are
\* rows.
LEMMA BaselineAway ==
    ASSUME TakeTurns', NEW y \in Sessions, NEW z \in Sessions, Away(y)', OneBaseline(z)'
    PROVE  OneBaseline(y)'
<1>1. /\ job'[y].op = "idle" /\ sharedReuse'[y] = {} /\ DOMAIN pending'[y] = {}
      /\ \A m \in Streams : uploads'[y][m] = NoUpload
  BY DEF TakeTurns, Idle
<1>2. ASSUME NEW p, NEW f, IsBaseline(y, p, f)' PROVE IsBaseline(z, p, f)'
  BY <1>1, <1>2 DEF IsBaseline, Uploading
<1> QED
  BY <1>2 DEF OneBaseline

LEMMA NotCommitting ==
    ASSUME NEW z \in Sessions, CheckAct(z) \/ BeginAct(z) \/ StreamAct(z) \/ EndAct(z)
    PROVE  job[z].op # "commit"
<1>1. Ready(z) => job[z].op = "idle"
  BY DEF Ready, Idle
<1>2. CASE CheckAct(z)
  BY <1>1, <1>2 DEF CheckAct, handleCheckBatch, Accepts, CheckServer, CheckAny, CheckCompleted,
                    CheckBaseline
<1>3. CASE BeginAct(z)
  BY <1>1, <1>3 DEF BeginAct, handleUploadBegin, Accepts, BeginShared, BeginBaseline
<1>4. CASE StreamAct(z)
  BY <1>1, <1>4 DEF StreamAct, handleUploadChunk, finishInflight, EndMismatch, EndCopyFails,
                    InFlight
<1>5. CASE EndAct(z)
  BY <1>1, <1>5 DEF EndAct, handleUploadEnd, EndCopy, InFlight
<1> QED
  BY <1>2, <1>3, <1>4, <1>5

\* A transaction is open exactly while a session is inside COMMIT.
LEMMA TxStep ==
    ASSUME HipInv, BaselineAnswers, \A z \in Sessions : OnlyOffered(z), TakeTurns, TxOwned,
           [SerialNext]_hipVars
    PROVE  TxOwned'
<1>0. HipTypeOK /\ job \in [Sessions -> JobType]
  BY DEF HipInv, HipTypeOK
<1>1. ASSUME NEW z \in Sessions, CheckAct(z) PROVE TxOwned'
  <2>1. job[z].op # "commit"
    BY <1>1, NotCommitting
  <2>2. OthersStay(z) /\ UNCHANGED <<db, work, tx>>
    BY <1>1, CheckIsQuiet DEF storeVars
  <2> QED
    BY <2>1, <2>2, TxMove
<1>2. ASSUME NEW z \in Sessions, BeginAct(z) PROVE TxOwned'
  <2>1. job[z].op # "commit"
    BY <1>2, NotCommitting
  <2>2. OthersStay(z) /\ UNCHANGED <<db, work, tx>>
    BY <1>2, BeginIs DEF storeVars
  <2> QED
    BY <2>1, <2>2, TxMove
<1>3. ASSUME NEW z \in Sessions, StreamAct(z) PROVE TxOwned'
  <2>1. job[z].op # "commit"
    BY <1>3, NotCommitting
  <2>2. OthersStay(z) /\ UNCHANGED <<db, work, tx>>
    BY <1>3, StreamIs DEF storeVars
  <2> QED
    BY <2>1, <2>2, TxMove
<1>4. ASSUME NEW z \in Sessions, EndAct(z) PROVE TxOwned'
  <2>1. job[z].op # "commit"
    BY <1>4, NotCommitting
  <2>2. OthersStay(z) /\ UNCHANGED <<db, work, tx>>
    BY <1>4, EndIs DEF storeVars
  <2> QED
    BY <2>1, <2>2, TxMove
<1>5. ASSUME NEW z \in Sessions, CommitAct(z) PROVE TxOwned'
  <2>1. OthersStay(z)
    BY <1>5, CommitIsQuiet
  <2>2. CASE handleCommit(z)
    <3>1. PICK C \in Merges(z) :
              job' = [job EXCEPT ![z] = [op |-> "commit", i |-> 1, rows |-> {}, comps |-> C,
                                         clones |-> {e \in bundles[z] : e.reuse},
                                         reuse |-> sharedReuse[z]]]
      BY <2>2 DEF handleCommit, Continue
    <3>2. job'[z].op = "commit"
      BY <1>0, <3>1
    <3>3. tx' # NoTx
      BY <2>2 DEF handleCommit, Begin, NoTx
    <3> QED
      BY <2>1, <3>2, <3>3, TxMove
  <2>3. CASE Publish(z)
    BY <2>1, <2>3, TxMove DEF Publish, CommitTx
  <2>4. CASE Finalize(z)
    BY <2>1, <2>4, TxMove DEF Finalize, storeVars
  <2>5. CASE /\ InTx(z)
             /\ \/ InsertPending(z) \/ LoadClones(z) \/ InsertClone(z) \/ InsertReuse(z)
                \/ InsertCompletion(z)
    <3>1. tx' = tx
      BY <2>5 DEF InsertPending, LoadClones, InsertClone, InsertReuse, InsertCompletion, Put,
                  Complete, storeVars
    <3>2. tx # NoTx
      BY <2>5 DEF InTx, HipInv, SessInv, NoTx
    <3>3. job[z] \in [op : {"commit"}, i : Nat \ {0}, rows : SUBSET Row,
                      clones : SUBSET BundleEntry, reuse : SUBSET ReuseEntry,
                      comps : SUBSET [bundle : Bundles, fp : Fps, source : Sources]]
      BY <1>0, <2>5, JobCases DEF InTx
    <3>4. job'[z].op = "commit"
      <4>1. CASE InsertPending(z)
        BY <1>0, <3>3, <4>1 DEF InsertPending, Continue
      <4>2. CASE LoadClones(z)
        <5>1. PICK e \in job[z].clones :
                  job' = [job EXCEPT ![z] = [job[z] EXCEPT !.clones = @ \ {e},
                            !.rows = {Rebind(z, a) : a \in ReusableBundleAssets(work, e.bundle, e.fp)}]]
          BY <4>2 DEF LoadClones, Continue
        <5> DEFINE rows == {Rebind(z, a) : a \in ReusableBundleAssets(work, e.bundle, e.fp)}
        <5>2. job'[z] = [job[z] EXCEPT !.clones = @ \ {e}, !.rows = rows]
          BY <1>0, <5>1
        <5> HIDE DEF rows
        <5> QED
          BY <3>3, <5>2
      <4>3. CASE InsertClone(z)
        BY <1>0, <3>3, <4>3 DEF InsertClone, Continue
      <4>4. CASE InsertReuse(z)
        BY <1>0, <3>3, <4>4 DEF InsertReuse, Continue
      <4>5. CASE InsertCompletion(z)
        BY <1>0, <3>3, <4>5 DEF InsertCompletion, Continue
      <4> QED
        BY <2>5, <4>1, <4>2, <4>3, <4>4, <4>5
    <3> QED
      BY <2>1, <3>1, <3>2, <3>4, TxMove
  <2> QED
    BY <1>5, <2>2, <2>3, <2>4, <2>5 DEF CommitAct, InsertPending, LoadClones, InsertClone,
                                        InsertReuse, InsertCompletion
<1>6. ASSUME NEW z \in Sessions, CloseAct(z) PROVE TxOwned'
  <2>1. OthersStay(z)
    BY <1>6, CloseIs DEF CloseAct, QueryFails, CommitFails, EndSession
  <2>2. CASE CommitFails(z)
    BY <2>1, <2>2, TxMove DEF CommitFails, Rollback
  <2>3. CASE QueryFails(z) \/ EndSession(z)
    <3>1. job[z].op # "commit" /\ UNCHANGED <<db, work, tx>>
      BY <2>3 DEF QueryFails, EndSession, Ready, Idle, storeVars
    <3> QED
      BY <2>1, <3>1, TxMove
  <2> QED
    BY <1>6, <2>2, <2>3 DEF CloseAct
<1>7. ASSUME NEW z \in Sessions, handleHello(z) \/ RetryCommit(z) PROVE TxOwned'
  BY <1>7 DEF handleHello, RetryCommit, TxOwned, storeVars
<1>8. CASE Start
  <2>1. tx = NoTx /\ tx' = tx /\ work' = db'
    BY <1>8 DEF Start, Boot, HipInv, StoreInv
  <2> QED
    BY <2>1 DEF TxOwned
<1>9. CASE Die
  BY <1>9 DEF Die, Crash, TxOwned
<1>10. CASE UNCHANGED hipVars
  BY <1>10 DEF hipVars, sessVars, storeVars, TxOwned
<1> QED
  BY <1>1, <1>2, <1>3, <1>4, <1>5, <1>6, <1>7, <1>8, <1>9, <1>10, SerialCases

\* A session that holds what it held, or nothing, when no row is new.
LEMMA RowsWere ==
    ASSUME NEW y \in Sessions, OneBaseline(y),
           \A r \in RowsOf(db') \cup RowsOf(work') : r \in RowsOf(db) \cup RowsOf(work),
           \/ /\ job'[y] = job[y] /\ uploads'[y] = uploads[y]
              /\ pending'[y] = pending[y] /\ sharedReuse'[y] = sharedReuse[y]
           \/ HoldsNothing(y)'
    PROVE  OneBaseline(y)'
<1>1. CASE /\ job'[y] = job[y] /\ uploads'[y] = uploads[y]
           /\ pending'[y] = pending[y] /\ sharedReuse'[y] = sharedReuse[y]
  BY <1>1, HeldBaselines, NoNewBaseline
<1>2. CASE HoldsNothing(y)'
  <2>1. /\ job'[y].op = "idle" /\ sharedReuse'[y] = {} /\ DOMAIN pending'[y] = {}
        /\ \A m \in Streams : uploads'[y][m] = NoUpload
    BY <1>2 DEF HoldsNothing, Idle
  <2> QED
    BY <2>1, HeldBaselines, NoNewBaseline
<1> QED
  BY <1>1, <1>2

LEMMA BaselinesShown ==
    ASSUME HipTypeOK', NEW z \in Sessions, OneBaseline(z)'
    PROVE  OneSharedBaseline'
<1>1. db'.assets \in Seq(Row)
  BY DEF HipTypeOK, StoreTypeOK, Db
<1>2. \A i \in DOMAIN db'.assets : db'.assets[i] \in Row
  BY <1>1, LenProperties
<1>3. (\A i \in DOMAIN db.assets :
          ~db.assets[i].override => IsBaseline(z, db.assets[i].path, db.assets[i].fp))'
  BY DEF IsBaseline, RowsOf
<1>4. \A r \in Row : r.path \in Paths /\ r.fp \in Fps
  BY DEF Row
<1> QED
  BY <1>2, <1>3, <1>4 DEF OneBaseline, OneSharedBaseline

\* Every step of updaters that take turns keeps TurnsInv, given the store.
LEMMA TurnsInvStep ==
    ASSUME HipInv, HipTypeOK', QueriesAnswer, InsertsOnly, BaselineAnswers, OneFilePerPath,
           TurnsInv, [SerialNext]_hipVars
    PROVE  TurnsInv'
<1>0. /\ TakeTurns /\ TxOwned /\ OneSharedBaseline
      /\ \A z \in Sessions : OnlyOffered(z)
      /\ \A z \in Sessions : OneBaseline(z)
  BY DEF TurnsInv
<1>1. TakeTurns' /\ TxOwned'
  BY <1>0, TurnsStep, TxStep
<1>2. \A z \in Sessions : OnlyOffered(z)'
  <2>1. [UpdaterStep]_hipVars
    BY DEF SerialNext, UpdaterStep
  <2> QED
    BY <1>0, <2>1, OfferedStep
<1>3. ASSUME NEW z \in Sessions,
             CheckAct(z) \/ BeginAct(z) \/ StreamAct(z) \/ EndAct(z) \/ CommitAct(z)
      PROVE  OneSharedBaseline' /\ \A y \in Sessions : OneBaseline(y)'
  <2>1. OneBaseline(z)'
    BY <1>0, <1>3, CheckOneBaseline, BeginOneBaseline, StreamOneBaseline, EndOneBaseline,
       CommitOneBaseline
  <2>2. OthersStay(z)
    BY <1>0, <1>3, CheckIsQuiet, BeginIs, StreamIs, EndIs, CommitIsQuiet
  <2>3. ~Away(z)
    BY <1>0, <1>3, ActorIsHere
  <2>4. \A y \in Sessions \ {z} : Away(y)'
    BY <1>0, <2>2, <2>3 DEF TakeTurns, Away, OthersStay
  <2>5. \A y \in Sessions : OneBaseline(y)'
    BY <1>1, <2>1, <2>4, BaselineAway
  <2> QED
    BY <2>1, <2>5, BaselinesShown
<1>4. ASSUME NEW z \in Sessions, CloseAct(z)
      PROVE  OneSharedBaseline' /\ \A y \in Sessions : OneBaseline(y)'
  <2>1. OneBaseline(z)'
    BY <1>0, <1>4, CloseOneBaseline
  <2>2. Close(z)
    BY <1>4 DEF CloseAct, QueryFails, CommitFails, EndSession
  <2>3. OthersStay(z)
    BY <2>2, CloseIs
  <2>4. db' = db /\ work' \in {db, work}
    BY <1>4 DEF CloseAct, QueryFails, CommitFails, EndSession, Rollback, storeVars
  <2>5. \A r \in RowsOf(db') \cup RowsOf(work') : r \in RowsOf(db) \cup RowsOf(work)
    BY <2>4
  <2>6. \A y \in Sessions \ {z} : OneBaseline(y)'
    BY <1>0, <2>3, <2>5, RowsWere DEF OthersStay
  <2> QED
    BY <2>1, <2>6, BaselinesShown
<1>5. ASSUME NEW z \in Sessions, handleHello(z) \/ RetryCommit(z)
      PROVE  OneSharedBaseline' /\ \A y \in Sessions : OneBaseline(y)'
  <2>1. UNCHANGED <<db, work, job, uploads, pending, sharedReuse>>
    BY <1>5 DEF handleHello, RetryCommit, storeVars
  <2> QED
    BY <1>0, <2>1, RowsWere, BaselinesShown
<1>6. ASSUME Start
      PROVE  OneSharedBaseline' /\ \A y \in Sessions : OneBaseline(y)'
  <2>1. UNCHANGED <<job, uploads, pending, sharedReuse>> /\ db' = EnsureReadIndexes(db) /\ work' = db'
    BY <1>6 DEF Start, Boot, sessVars
  <2>2. db'.assets = db.assets
    BY <2>1, Typed DEF EnsureReadIndexes, Db, HipInv
  <2>3. RowsOf(db') = RowsOf(db) /\ RowsOf(work') = RowsOf(db)
    BY <2>1, <2>2 DEF RowsOf
  <2>4. \A y \in Sessions : OneBaseline(y)'
    BY <1>0, <2>1, <2>3, RowsWere
  <2>5. OneSharedBaseline'
    BY <1>0, <2>2 DEF OneSharedBaseline
  <2> QED
    BY <2>4, <2>5
<1>7. ASSUME Die
      PROVE  OneSharedBaseline' /\ \A y \in Sessions : OneBaseline(y)'
  <2>1. db' = db /\ work' = db /\ \A y \in Sessions : HoldsNothing(y)'
    BY <1>7 DEF Die, Crash, HoldsNothing
  <2>2. \A y \in Sessions : OneBaseline(y)'
    BY <1>0, <2>1, RowsWere
  <2>3. OneSharedBaseline'
    BY <1>0, <2>1 DEF OneSharedBaseline
  <2> QED
    BY <2>2, <2>3
<1>8. ASSUME UNCHANGED hipVars
      PROVE  OneSharedBaseline' /\ \A y \in Sessions : OneBaseline(y)'
  <2>1. UNCHANGED <<db, work, job, uploads, pending, sharedReuse>>
    BY <1>8 DEF hipVars, sessVars, storeVars
  <2>2. \A y \in Sessions : OneBaseline(y)'
    BY <1>0, <2>1, RowsWere
  <2>3. OneSharedBaseline'
    BY <1>0, <2>1 DEF OneSharedBaseline
  <2> QED
    BY <2>2, <2>3
<1>9. OneSharedBaseline' /\ \A y \in Sessions : OneBaseline(y)'
  <2>1. ASSUME SerialNext PROVE OneSharedBaseline' /\ \A y \in Sessions : OneBaseline(y)'
    BY <1>3, <1>4, <1>5, <1>6, <1>7, <2>1, SerialCases
  <2> QED
    BY <1>8, <2>1
<1> QED
  BY <1>1, <1>2, <1>9 DEF TurnsInv

LEMMA UpdatersIngest == [UpdaterStep]_hipVars => [IngestStep]_hipVars
BY Zenon DEF UpdaterStep, IngestStep, UpdaterFrame

LEMMA SerialUpdates == [SerialNext]_hipVars => [UpdaterStep]_hipVars
BY Zenon DEF SerialNext, UpdaterStep

\* Nothing is held and nothing is stored at the start.
LEMMA UpdaterInit == HipInit => BytesInv /\ TurnsInv
<1> SUFFICES ASSUME HipInit PROVE BytesInv /\ TurnsInv
  OBVIOUS
<1>1. \A z \in Sessions : /\ job[z] = Idle /\ job[z].op = "idle" /\ pending[z] = <<>>
                          /\ sharedReuse[z] = {} /\ state[z] = "handshake"
                          /\ uploads[z] = [m \in Streams |-> NoUpload]
  BY DEF HipInit, Idle
<1>2. db.assets = <<>> /\ work = db /\ tx = NoTx
  BY DEF HipInit, StoreInit, EmptyDb
<1>3. RowsOf(db) = {} /\ RowsOf(work) = {}
  BY <1>2 DEF RowsOf
<1>4. \A z \in Sessions : OnlyOffered(z)
  BY <1>1 DEF OnlyOffered
<1>5. \A z \in Sessions : CopyVerified(z)
  BY <1>1 DEF CopyVerified
<1>6. FinalBytesVerified
  BY DEF HipInit, FinalBytesVerified
<1>7. TakeTurns /\ TxOwned
  BY <1>1, <1>2 DEF TakeTurns, Away, TxOwned
<1>8. \A z \in Sessions : OneBaseline(z)
  <2>1. \A z \in Sessions : \A p, f : ~IsBaseline(z, p, f)
    BY <1>1, <1>3 DEF IsBaseline, Uploading
  <2> QED
    BY <2>1 DEF OneBaseline
<1>9. OneSharedBaseline
  BY <1>2 DEF OneSharedBaseline
<1> QED
  BY <1>4, <1>5, <1>6, <1>7, <1>8, <1>9 DEF BytesInv, TurnsInv

=============================================================================
