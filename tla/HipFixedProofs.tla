--------------------------- MODULE HipFixedProofs ---------------------------
(***************************************************************************)
(* The steps of updaters that take turns keep FixedInv, the invariant      *)
(* behind SharedBytesFixed.                                                *)
(***************************************************************************)
EXTENDS HipStepProofs

USE ZenonT(10), SMTT(30)

-----------------------------------------------------------------------------
(* SharedBytesFixed, for updaters that take turns.                         *)

\* A reusable key of UPLOAD_END comes with the bytes it is reused for.
ReusesBytes ==
    \A z \in Sessions, sha \in Shas : ReusableKey(z, sha) # NoSha =>
        \/ \E i \in DOMAIN pending[z] :
              pending[z][i].sha = sha /\ pending[z][i].key = ReusableKey(z, sha)
        \/ \E r \in RowsOf(db) : r.sha = sha /\ r.key = ReusableKey(z, sha)

\* An upsert of COMMIT adds its row and leaves every path its baseline.
PutsKeep ==
    \A a \in Row : Put(a) =>
        /\ a \in RowsOf(InsertAsset(work, a))
        /\ \A p \in Paths : HasBaseline(work, p) => HasBaseline(InsertAsset(work, a), p)

\* What FixedInv says of the rows.
FixedRows ==
    /\ \A r \in RowsOf(db) : KeyBacked(db, r.key) /\ BytesAt(r)
    /\ \A r \in RowsOf(work) : KeyBacked(work, r.key) /\ BytesAt(r)
    /\ \A p \in Paths : HasBaseline(db, p) => HasBaseline(work, p)

KeysStay == \A k \in Keys : filer'[k] = filer[k]

LEMMA BytesStay ==
    ASSUME KeysStay, NEW r, BytesAt(r)
    PROVE  BytesAt(r)'
<1>1. \A p \in Paths : SharedKey(p) \in Keys
  BY KeysAssumption
<1> QED
  BY <1>1 DEF BytesAt, KeysStay

LEMMA OwnTmpKeysStay ==
    ASSUME NEW z \in Sessions, OwnTmpOnly(z)
    PROVE  KeysStay
BY OwnTmpIs DEF OwnTmpOnly, KeysStay

\* The rows when the tables and the final keys stay.
LEMMA FixedRowsStay ==
    ASSUME FixedRows, KeysStay, UNCHANGED <<db, work>>
    PROVE  FixedRows'
<1>1. \A r : BytesAt(r) => BytesAt(r)'
  BY BytesStay
<1> QED
  BY <1>1 DEF FixedRows, KeyBacked, HasBaseline, RowsOf

\* The same when the transaction ends, or starts without rows of its own.
LEMMA FixedRowsReset ==
    ASSUME FixedRows, KeysStay, db'.assets = db.assets, work'.assets = db.assets
    PROVE  FixedRows'
<1>1. \A r : BytesAt(r) => BytesAt(r)'
  BY BytesStay
<1>2. /\ RowsOf(db)' = RowsOf(db) /\ RowsOf(work)' = RowsOf(db)
      /\ RowsOf(db') = RowsOf(db) /\ RowsOf(work') = RowsOf(db)
  BY DEF RowsOf
<1>3. \A p : /\ HasBaseline(db, p)' <=> HasBaseline(db, p)
             /\ HasBaseline(work, p)' <=> HasBaseline(db, p)
  BY <1>2 DEF HasBaseline
<1>4. \A k : /\ KeyBacked(db, k) => KeyBacked(db, k)'
             /\ KeyBacked(db, k) => KeyBacked(work, k)'
  BY <1>3 DEF KeyBacked
<1> QED
  BY <1>1, <1>2, <1>3, <1>4 DEF FixedRows

\* A session that holds nothing.
LEMMA FixedAway ==
    ASSUME NEW y \in Sessions, HoldsNothing(y)'
    PROVE  FixedIn(y)'
<1>1. /\ job'[y].op = "idle" /\ sharedReuse'[y] = {} /\ DOMAIN pending'[y] = {}
      /\ \A m \in Streams : uploads'[y][m] = NoUpload
  BY DEF HoldsNothing, Idle
<1> QED
  BY <1>1 DEF FixedIn, CopyVerified, Uploading

\* A session that does not move while the tables and the objects stay.
LEMMA FixedInStays ==
    ASSUME HipInv, NEW y \in Sessions, FixedIn(y), UNCHANGED filer, db'.assets = db.assets,
           work'.assets = work.assets, job'[y] = job[y], uploads'[y] = uploads[y], pending'[y] = pending[y],
           sharedReuse'[y] = sharedReuse[y]
    PROVE  FixedIn(y)'
<1>1. \A r : BytesAt(r) => BytesAt(r)'
  BY DEF BytesAt
<1>2. \A p : /\ HasBaseline(db, p)' <=> HasBaseline(db, p)
             /\ HasBaseline(work, p)' <=> HasBaseline(work, p)
  BY DEF HasBaseline, RowsOf
<1>3. \A k : /\ KeyBacked(db, k) => KeyBacked(db, k)'
             /\ KeyBacked(work, k) => KeyBacked(work, k)'
  BY <1>2 DEF KeyBacked
<1>4. \A i \in DOMAIN pending'[y] : /\ BytesAt(pending[y][i])' /\ PendingBacked(y, i)'
                                   /\ OfferedBytes(y, pending[y][i])'
  BY <1>1, <1>2 DEF FixedIn, PendingBacked, OfferedBytes
<1>5. CopyVerified(y)'
  BY DEF FixedIn, CopyVerified
<1>6. \A r \in sharedReuse'[y] : KeyBacked(db, r.key)'
  BY <1>3 DEF FixedIn
<1>7. \A m \in Uploading(y)' :
         uploads'[y][m].placement = "SHARED" => ~HasBaseline(db, uploads[y][m].file.path)'
  BY <1>2 DEF FixedIn, Uploading
<1>8. job'[y].op = "copy" =>
         uploads'[y][job'[y].stream].sha = uploads'[y][job'[y].stream].file.sha
  BY DEF FixedIn
<1>9. job'[y].op = "commit" =>
         /\ Uploading(y)' = {}
         /\ \A i \in DOMAIN pending'[y] :
               i < job'[y].i /\ ~pending'[y][i].override => HasBaseline(work, pending[y][i].path)'
         /\ \A r \in job'[y].rows : KeyBacked(work, r.key)' /\ BytesAt(r)'
         /\ \A r \in job'[y].reuse : KeyBacked(work, r.key)'
  BY <1>1, <1>2, <1>3 DEF FixedIn, Uploading
<1> QED
  BY <1>4, <1>5, <1>6, <1>7, <1>8, <1>9 DEF FixedIn

-----------------------------------------------------------------------------
(* The steps of a session before COMMIT.                                   *)

\* A session whose rows and tables stay, outside COMMIT.
LEMMA FixedQuiet ==
    ASSUME HipInv, NEW z \in Sessions, FixedIn(z), KeysStay, UNCHANGED db,
           pending'[z] = pending[z], job'[z].op # "commit", CopyVerified(z)',
           job'[z].op = "copy" =>
               uploads'[z][job'[z].stream].sha = uploads'[z][job'[z].stream].file.sha,
           \A r \in sharedReuse'[z] : r \in sharedReuse[z] \/ KeyBacked(db, r.key),
           \A m \in Streams : uploads'[z][m] # NoUpload /\ uploads'[z][m].placement = "SHARED" =>
               \/ /\ uploads[z][m] # NoUpload /\ uploads[z][m].placement = "SHARED"
                  /\ uploads'[z][m].file = uploads[z][m].file
               \/ ~HasBaseline(db, uploads'[z][m].file.path)
    PROVE  FixedIn(z)'
<1>1. \A r : BytesAt(r) => BytesAt(r)'
  BY BytesStay
<1>2. \A p : HasBaseline(db, p)' <=> HasBaseline(db, p)
  BY DEF HasBaseline, RowsOf
<1>3. \A k : KeyBacked(db, k) => KeyBacked(db, k)'
  BY <1>2 DEF KeyBacked
<1>4. \A i \in DOMAIN pending'[z] : /\ BytesAt(pending[z][i])' /\ PendingBacked(z, i)'
                                   /\ OfferedBytes(z, pending[z][i])'
  BY <1>1, <1>2 DEF FixedIn, PendingBacked, OfferedBytes
<1>5. \A r \in sharedReuse'[z] : KeyBacked(db, r.key)'
  BY <1>3 DEF FixedIn
<1>6. \A m \in Uploading(z)' :
         uploads'[z][m].placement = "SHARED" => ~HasBaseline(db, uploads[z][m].file.path)'
  BY <1>2 DEF FixedIn, Uploading
<1> QED
  BY <1>4, <1>5, <1>6 DEF FixedIn

LEMMA FixedCheck ==
    ASSUME HipInv, NEW z \in Sessions, FixedIn(z), CheckAct(z)
    PROVE  KeysStay /\ FixedIn(z)'
<1>1. /\ UNCHANGED <<db, uploads, pending, sharedReuse, filer>>
      /\ job'[z].op \notin {"copy", "commit"}
  BY CheckIsQuiet DEF storeVars
<1>2. KeysStay /\ CopyVerified(z)'
  BY <1>1 DEF KeysStay, CopyVerified
<1> QED
  BY <1>1, <1>2, FixedQuiet

LEMMA FixedStream ==
    ASSUME HipInv, NEW z \in Sessions, FixedIn(z), StreamAct(z)
    PROVE  KeysStay /\ FixedIn(z)'
<1>1. /\ UNCHANGED <<db, pending, sharedReuse>> /\ StreamsEnd(z)
      /\ job'[z].op \notin {"copy", "commit"}
  BY StreamIs DEF storeVars, Idle
<1>2. KeysStay /\ CopyVerified(z)'
  BY <1>1, StreamOwnTmp, OwnTmpKeysStay DEF CopyVerified
<1>3. \A m \in Streams : uploads'[z][m] # NoUpload /\ uploads'[z][m].placement = "SHARED" =>
         /\ uploads[z][m] # NoUpload /\ uploads[z][m].placement = "SHARED"
         /\ uploads'[z][m].file = uploads[z][m].file
  BY <1>1 DEF StreamsEnd
<1> QED
  BY <1>1, <1>2, <1>3, FixedQuiet

\* A reuse entry repeats the key of a row.
LEMMA BeginReuses ==
    ASSUME HipInv, QueriesAnswer, NEW z \in Sessions, BeginAct(z)
    PROVE  \A r \in sharedReuse'[z] :
              r \in sharedReuse[z] \/ \E x \in RowsOf(db) : r.key = x.key
<1>0. sharedReuse \in [Sessions -> SUBSET ReuseEntry]
  BY DEF HipInv, HipTypeOK
<1> DEFINE Goal == \A r \in sharedReuse'[z] :
                      r \in sharedReuse[z] \/ \E x \in RowsOf(db) : r.key = x.key
<1>1. ASSUME UNCHANGED sharedReuse PROVE Goal
  BY <1>1
<1>2. ASSUME NEW file, NEW x \in RowsOf(db), RejectReuse(z, file, x.key) PROVE Goal
  BY <1>0, <1>2 DEF RejectReuse, rememberSharedReuse
<1>3. ASSUME NEW m \in Streams, NEW f \in Offers[z], handleUploadBegin(z, m, f) PROVE Goal
  BY <1>1, <1>3 DEF handleUploadBegin
<1>4. CASE BeginShared(z)
  <2>1. CASE SharedExactMatch(db, job[z].file.path, job[z].file.fp) \in RowsOf(db)
    BY <1>1, <1>2, <1>4, <2>1 DEF BeginShared
  <2>2. CASE SharedExactMatch(db, job[z].file.path, job[z].file.fp) = NoRow
    BY <1>1, <1>4, <2>2 DEF BeginShared
  <2> QED
    BY <2>1, <2>2 DEF QueriesAnswer
<1>5. CASE BeginBaseline(z)
  <2>1. CASE CurrentSharedByPath(db, job[z].file.path) \in RowsOf(db)
    BY <1>1, <1>2, <1>5, <2>1 DEF BeginBaseline, newInflight
  <2>2. CASE CurrentSharedByPath(db, job[z].file.path) = NoRow
    BY <1>1, <1>5, <2>2 DEF BeginBaseline, newInflight
  <2> QED
    BY <2>1, <2>2 DEF QueriesAnswer
<1> QED
  BY <1>3, <1>4, <1>5 DEF BeginAct

LEMMA FixedBegin ==
    ASSUME HipInv, QueriesAnswer, BaselineAnswers, NEW z \in Sessions, OnlyOffered(z),
           FixedRows, FixedIn(z), BeginAct(z)
    PROVE  KeysStay /\ FixedIn(z)'
<1>1. /\ UNCHANGED <<db, pending, filer>>
      /\ job'[z].op \notin {"copy", "commit"}
      /\ \E file \in Offers[z] : BeginsFile(z, file)
  BY BeginIs DEF storeVars, Begins
<1>2. KeysStay /\ CopyVerified(z)'
  BY <1>1 DEF KeysStay, CopyVerified
<1>3. PICK file \in Offers[z] : BeginsFile(z, file)
  BY <1>1
<1>4. file.path \in Paths
  BY OffersTyped DEF File
<1>5. CurrentSharedByPath(db, file.path) = NoRow => ~HasBaseline(db, file.path)
  BY <1>4 DEF BaselineAnswers, HasBaseline
<1>6. \A m \in Streams : uploads'[z][m] # NoUpload /\ uploads'[z][m].placement = "SHARED" =>
         \/ /\ uploads[z][m] # NoUpload /\ uploads[z][m].placement = "SHARED"
            /\ uploads'[z][m].file = uploads[z][m].file
         \/ ~HasBaseline(db, uploads'[z][m].file.path)
  BY <1>3, <1>5 DEF BeginsFile
<1>7. \A r \in sharedReuse'[z] : r \in sharedReuse[z] \/ KeyBacked(db, r.key)
  BY BeginReuses DEF FixedRows
<1>8. pending'[z] = pending[z]
  BY <1>1
<1> QED
  BY <1>1, <1>2, <1>6, <1>7, <1>8, FixedQuiet

-----------------------------------------------------------------------------
(* UPLOAD_END.                                                             *)

\* The row of a stream whose bytes are in use already.
Reused(z, r) ==
    /\ KeysStay
    /\ \/ \E i \in DOMAIN pending[z] : pending[z][i].sha = r.sha /\ pending[z][i].key = r.key
       \/ \E x \in RowsOf(db) : x.sha = r.sha /\ x.key = r.key

\* The row of a stream that was copied to its final key.
Copied(z, r) ==
    \E m \in Streams :
        /\ uploads[z][m] # NoUpload
        /\ r.path = uploads[z][m].file.path
        /\ r.override <=> uploads[z][m].placement = "OVERRIDE"
        /\ r.key = FinalKey(z, uploads[z][m])
        /\ filer'[r.key] = r.sha
        /\ \A k \in Keys : k = r.key \/ filer'[k] = filer[k]

LEMMA EndRecords ==
    ASSUME HipInv, ReusesBytes, NEW z \in Sessions, OnlyOffered(z), FixedIn(z), EndAct(z)
    PROVE  \/ /\ pending'[z] = pending[z] /\ KeysStay
              /\ job'[z].op = "copy"
              /\ uploads'[z][job'[z].stream].sha = uploads'[z][job'[z].stream].file.sha
           \/ /\ job'[z].op = "idle"
              /\ \E r \in Row : /\ pending'[z] = Append(pending[z], r)
                                /\ OfferedBytes(z, r)
                                /\ Reused(z, r) \/ Copied(z, r)
<1>0. /\ job \in [Sessions -> JobType] /\ HipTypeOK
      /\ uploads \in [Sessions -> [Streams -> Upload \cup {NoUpload}]]
      /\ pending \in [Sessions -> Seq(Row)]
      /\ filer \in [Keys \cup TempKeys -> Shas \cup {NoSha}]
      /\ \A x \in RowsOf(db) : x.key \in Keys
      /\ \A i \in DOMAIN pending[z] : pending[z][i].key \in Keys
  BY Typed DEF HipInv, HipTypeOK, Row
<1>1. ASSUME NEW m \in Streams, NEW key \in Keys, uploads[z][m] # NoUpload,
             uploads[z][m].sha = uploads[z][m].file.sha, RecordPending(z, m, key)
      PROVE  /\ job'[z].op = "idle"
             /\ \E r \in Row : /\ pending'[z] = Append(pending[z], r)
                               /\ OfferedBytes(z, r)
                               /\ r.path = uploads[z][m].file.path
                               /\ r.sha = uploads[z][m].sha
                               /\ r.override <=> uploads[z][m].placement = "OVERRIDE"
                               /\ r.key = key
  <2> DEFINE u == uploads[z][m]
             r == [server |-> ServerOf[z], bundle |-> u.file.bundle, path |-> u.file.path,
                   version |-> VersionOf[z], fp |-> u.file.fp, sha |-> u.sha,
                   override |-> (u.placement = "OVERRIDE"), key |-> key]
  <2>1. /\ pending' = [pending EXCEPT ![z] = Append(@, r)]
        /\ job' = [job EXCEPT ![z] = Idle]
    BY <1>1 DEF RecordPending, Continue
  <2>2. u \in Upload /\ u.file \in Offers[z]
    BY <1>0, <1>1 DEF OnlyOffered
  <2>3. r \in Row
    BY <2>2, SessionsAssumption DEF Upload, File, Row
  <2>4. /\ r.path = u.file.path /\ r.sha = u.sha /\ r.key = key
        /\ r.override <=> u.placement = "OVERRIDE"
    OBVIOUS
  <2> HIDE DEF r
  <2>5. OfferedBytes(z, r)
    BY <1>1, <2>2, <2>4 DEF OfferedBytes
  <2>6. pending'[z] = Append(pending[z], r) /\ job'[z].op = "idle"
    BY <1>0, <2>1 DEF Idle
  <2> QED
    BY <2>3, <2>4, <2>5, <2>6
<1>2. ASSUME NEW m \in Streams, handleUploadEnd(z, m, TRUE),
             RecordPending(z, m, ReusableKey(z, uploads[z][m].sha)),
             ReusableKey(z, uploads[z][m].sha) # NoSha,
             DeleteTmp(filer, TempKey(RunOf[z], m), uploads[z][m].sha)
      PROVE  /\ job'[z].op = "idle"
             /\ \E r \in Row : /\ pending'[z] = Append(pending[z], r)
                               /\ OfferedBytes(z, r)
                               /\ Reused(z, r)
  <2> DEFINE u == uploads[z][m]
             key == ReusableKey(z, u.sha)
  <2>1. u # NoUpload /\ u.sha # NoSha /\ u.sha = u.file.sha
    BY <1>2 DEF handleUploadEnd, InFlight, verifyEnd
  <2>2. u.sha \in Shas
    BY <1>0, <2>1 DEF Upload
  <2>3. \/ \E i \in DOMAIN pending[z] : pending[z][i].sha = u.sha /\ pending[z][i].key = key
        \/ \E x \in RowsOf(db) : x.sha = u.sha /\ x.key = key
    BY <1>2, <2>2 DEF ReusesBytes
  <2>4. key \in Keys
    BY <1>0, <2>3
  <2>5. OwnTmpOnly(z)
    BY <1>0, <1>2, DeleteOwn DEF OwnTmpOnly
  <2>6. KeysStay
    BY <2>5, OwnTmpKeysStay
  <2> HIDE DEF key
  <2>7. RecordPending(z, m, key)
    BY <1>2 DEF key
  <2>8. PICK r \in Row : /\ pending'[z] = Append(pending[z], r)
                         /\ OfferedBytes(z, r)
                         /\ r.sha = u.sha /\ r.key = key
    BY <1>1, <2>1, <2>4, <2>7
  <2>9. job'[z].op = "idle"
    BY <1>1, <2>1, <2>4, <2>7
  <2> QED
    BY <2>3, <2>6, <2>8, <2>9 DEF Reused
<1>3. ASSUME NEW m \in Streams, handleUploadEnd(z, m, TRUE),
             Continue(z, [op |-> "copy", stream |-> m]), UNCHANGED <<uploads, pending>>,
             filer' = [filer EXCEPT ![TempKey(RunOf[z], m)] = uploads[z][m].sha]
      PROVE  /\ pending'[z] = pending[z] /\ KeysStay
             /\ job'[z].op = "copy"
             /\ uploads'[z][job'[z].stream].sha = uploads'[z][job'[z].stream].file.sha
  <2>1. uploads[z][m].sha = uploads[z][m].file.sha
    BY <1>3 DEF handleUploadEnd, verifyEnd
  <2>2. job'[z] = [op |-> "copy", stream |-> m]
    BY <1>0, <1>3 DEF Continue
  <2>3. KeysStay
    BY <1>0, <1>3, TempKeyIs, KeysAssumption DEF KeysStay
  <2> QED
    BY <1>3, <2>1, <2>2, <2>3
<1>4. CASE EndCopy(z)
  <2> DEFINE m == job[z].stream
             u == uploads[z][m]
             key == FinalKey(z, u)
  <2>1. m \in Streams /\ job[z].op = "copy" /\ u # NoUpload
    BY <1>0, <1>4, JobCases DEF EndCopy, HipInv, SessInv
  <2>2. u.sha = u.file.sha /\ u \in Upload /\ u.file \in Offers[z]
    BY <1>0, <2>1 DEF FixedIn, OnlyOffered
  <2>3. key \in Keys
    BY <2>2, KeysAssumption, SessionsAssumption DEF FinalKey, Upload, File
  <2>4. filer[TempKey(RunOf[z], m)] = u.sha
    BY <1>4, <2>1, <2>2 DEF EndCopy, FixedIn, CopyVerified
  <2>5. \A k \in Keys : filer'[k] = filer[k] \/ (k = key /\ filer'[k] = u.sha)
    BY <2>4, EndOwnTmp, OwnTmpIs DEF CopiesTo
  <2>6. filer'[key] = u.sha
    <3> DEFINE t == TempKey(RunOf[z], m)
               f == [filer EXCEPT ![key] = filer[t]]
    <3>1. DeleteTmp(f, t, filer[t])
      BY <1>4 DEF EndCopy
    <3>2. t \in TempKeys
      BY <2>1, TempKeyIs
    <3>3. f \in [Keys \cup TempKeys -> Shas \cup {NoSha}] /\ f[key] = u.sha
      BY <1>0, <2>3, <2>4, <3>2
    <3> HIDE DEF f
    <3>4. key \in OwnTmp(z) \/ filer'[key] = f[key]
      BY <2>1, <2>3, <3>1, <3>3, DeleteOwn
    <3> QED
      BY <2>3, <3>3, <3>4, OwnTmpIs
  <2>7. RecordPending(z, m, key)
    BY <1>4 DEF EndCopy
  <2> HIDE DEF key, m
  <2>8. PICK r \in Row : /\ pending'[z] = Append(pending[z], r)
                         /\ OfferedBytes(z, r)
                         /\ r.path = u.file.path
                         /\ r.sha = u.sha
                         /\ r.override <=> u.placement = "OVERRIDE"
                         /\ r.key = key
    BY <1>1, <2>1, <2>2, <2>3, <2>7
  <2>9. job'[z].op = "idle"
    BY <1>1, <2>1, <2>2, <2>3, <2>7
  <2>10. Copied(z, r)
    BY <2>1, <2>5, <2>6, <2>8 DEF Copied, key
  <2> QED
    BY <2>8, <2>9, <2>10
<1>5. ASSUME NEW m \in Streams, handleUploadEnd(z, m, TRUE)
      PROVE  \/ /\ RecordPending(z, m, ReusableKey(z, uploads[z][m].sha))
                /\ ReusableKey(z, uploads[z][m].sha) # NoSha
                /\ DeleteTmp(filer, TempKey(RunOf[z], m), uploads[z][m].sha)
             \/ /\ Continue(z, [op |-> "copy", stream |-> m]) /\ UNCHANGED <<uploads, pending>>
                /\ filer' = [filer EXCEPT ![TempKey(RunOf[z], m)] = uploads[z][m].sha]
  BY <1>5 DEF handleUploadEnd
<1> QED
  BY <1>2, <1>3, <1>4, <1>5 DEF EndAct

\* Copy writes a shared key only when no row uses it; a pending row that does
\* is of the path, and has the same bytes.
LEMMA CopiedKeeps ==
    ASSUME HipInv, OneFilePerPath, NEW z \in Sessions, FixedRows, FixedIn(z), OnlyOffered(z),
           NEW r \in Row, OfferedBytes(z, r), Copied(z, r)
    PROVE  /\ \A x \in RowsOf(db) : BytesAt(x)'
           /\ \A x : (\E i \in DOMAIN pending[z] : x = pending[z][i]) => BytesAt(x)'
           /\ BytesAt(r)'
           /\ \A p \in Paths : r.key = SharedKey(p) => p = r.path /\ ~r.override
<1>0. /\ uploads[z] \in [Streams -> Upload \cup {NoUpload}] /\ pending[z] \in Seq(Row)
      /\ \A p \in Paths : SharedKey(p) \in Keys
      /\ \A p, q : SharedKey(p) = SharedKey(q) => p = q
      /\ \A s, p, q : OverrideKey(s, p) # SharedKey(q)
  BY Typed, KeysAssumption DEF HipInv, SharedKey, OverrideKey
<1>1. PICK m \in Streams :
         /\ uploads[z][m] # NoUpload
         /\ r.path = uploads[z][m].file.path
         /\ r.override <=> uploads[z][m].placement = "OVERRIDE"
         /\ r.key = FinalKey(z, uploads[z][m])
         /\ filer'[r.key] = r.sha
         /\ \A k \in Keys : k = r.key \/ filer'[k] = filer[k]
  BY DEF Copied
<1> DEFINE u == uploads[z][m]
<1>2. u \in Upload /\ u.file \in Offers[z] /\ u.file \in File
  BY <1>0, <1>1, OffersTyped DEF OnlyOffered
<1>3. \A f \in Offers[z] : f.path = u.file.path => f.sha = u.file.sha
  BY <1>2 DEF OneFilePerPath
<1>4. r.sha = u.file.sha /\ u.file.sha # NoSha
  BY <1>1, <1>2, <1>3, KeysAssumption DEF OfferedBytes, File
<1>5. BytesAt(r)'
  BY <1>1 DEF BytesAt
<1>6. ASSUME NEW x, BytesAt(x), \A p \in Paths : x.key = SharedKey(p) => filer'[x.key] = filer[x.key]
      PROVE  BytesAt(x)'
  BY <1>6 DEF BytesAt
<1>7. CASE u.placement = "OVERRIDE"
  <2>1. \A p : r.key # SharedKey(p)
    BY <1>0, <1>1, <1>7 DEF FinalKey
  <2>2. \A p \in Paths : filer'[SharedKey(p)] = filer[SharedKey(p)]
    BY <1>0, <1>1, <2>1
  <2>3. \A x : BytesAt(x) => BytesAt(x)'
    BY <1>6, <2>2
  <2>4. \A i \in DOMAIN pending[z] : BytesAt(pending[z][i])
    BY DEF FixedIn
  <2> QED
    BY <1>5, <2>1, <2>3, <2>4 DEF FixedRows
<1>8. CASE u.placement = "SHARED"
  <2>1. r.key = SharedKey(u.file.path) /\ ~r.override
    BY <1>1, <1>8 DEF FinalKey
  <2>2. ~HasBaseline(db, u.file.path)
    BY <1>1, <1>8 DEF FixedIn, Uploading
  <2>3. \A p \in Paths : p # u.file.path => filer'[SharedKey(p)] = filer[SharedKey(p)]
    BY <1>0, <1>1, <2>1
  <2>4. ASSUME NEW x \in RowsOf(db) PROVE BytesAt(x)'
    <3>1. BytesAt(x) /\ \A p \in Paths : x.key = SharedKey(p) => HasBaseline(db, p)
      BY DEF FixedRows, KeyBacked
    <3>2. \A p \in Paths : x.key = SharedKey(p) => filer'[x.key] = filer[x.key]
      BY <2>2, <2>3, <3>1
    <3> QED
      BY <1>6, <3>1, <3>2
  <2>5. ASSUME NEW i \in DOMAIN pending[z], NEW x, x = pending[z][i] PROVE BytesAt(x)'
    <3>1. BytesAt(x)
      BY <2>5 DEF FixedIn
    <3>2. ASSUME x.key = SharedKey(u.file.path) PROVE filer'[x.key] = filer[x.key]
      <4>1. u.file.path \in Paths /\ PendingBacked(z, i)
        BY <1>2 DEF File, FixedIn
      <4>2. PICK j \in 1..i : /\ pending[z][j].path = u.file.path
                              /\ pending[z][j].key = SharedKey(u.file.path)
        BY <2>2, <2>5, <3>2, <4>1 DEF PendingBacked
      <4>3. j \in DOMAIN pending[z]
        BY <1>0
      <4>4. BytesAt(pending[z][j]) /\ OfferedBytes(z, pending[z][j])
        BY <4>3 DEF FixedIn
      <4>5. pending[z][j].sha = u.file.sha
        BY <1>3, <4>2, <4>4 DEF OfferedBytes
      <4>6. filer[SharedKey(u.file.path)] = u.file.sha
        BY <1>4, <4>1, <4>2, <4>4, <4>5 DEF BytesAt
      <4> QED
        BY <1>1, <1>4, <2>1, <3>2, <4>6
    <3>3. \A p \in Paths : x.key = SharedKey(p) => filer'[x.key] = filer[x.key]
      BY <2>3, <3>2
    <3> QED
      BY <1>6, <3>1, <3>3
  <2>6. \A p \in Paths : r.key = SharedKey(p) => p = r.path /\ ~r.override
    BY <1>0, <1>1, <2>1
  <2> QED
    BY <1>5, <2>4, <2>5, <2>6
<1> QED
  BY <1>2, <1>7, <1>8 DEF Upload

LEMMA FixedEnd ==
    ASSUME HipInv, ReusesBytes, OneFilePerPath, NEW z \in Sessions, OnlyOffered(z), work = db,
           FixedRows, FixedIn(z), EndAct(z)
    PROVE  FixedRows' /\ FixedIn(z)'
<1>0. pending[z] \in Seq(Row) /\ \A i \in DOMAIN pending[z] : pending[z][i] \in Row
  BY Typed DEF HipInv
<1>1. /\ UNCHANGED <<db, work, sharedReuse>> /\ StreamsEnd(z)
      /\ job'[z].op # "commit"
      /\ CopyVerified(z)'
  BY EndIs, EndOwnTmp DEF storeVars
<1>2. \A m \in Streams : uploads'[z][m] # NoUpload /\ uploads'[z][m].placement = "SHARED" =>
         /\ uploads[z][m] # NoUpload /\ uploads[z][m].placement = "SHARED"
         /\ uploads'[z][m].file = uploads[z][m].file
  BY <1>1 DEF StreamsEnd
<1>3. ASSUME pending'[z] = pending[z], KeysStay, job'[z].op = "copy",
             uploads'[z][job'[z].stream].sha = uploads'[z][job'[z].stream].file.sha
      PROVE  FixedRows' /\ FixedIn(z)'
  BY <1>1, <1>2, <1>3, FixedQuiet, FixedRowsStay
<1>4. ASSUME job'[z].op = "idle", NEW r \in Row, pending'[z] = Append(pending[z], r),
             OfferedBytes(z, r), Reused(z, r) \/ Copied(z, r)
      PROVE  FixedRows' /\ FixedIn(z)'
  <2> DEFINE n == Len(pending[z]) + 1
  <2>1. /\ \A x \in RowsOf(db) : BytesAt(x)'
        /\ \A x : (\E i \in DOMAIN pending[z] : x = pending[z][i]) => BytesAt(x)'
        /\ BytesAt(r)'
        /\ \A p \in Paths : r.key = SharedKey(p) =>
              \/ p = r.path /\ ~r.override
              \/ HasBaseline(db, p)
              \/ \E j \in DOMAIN pending[z] : /\ pending[z][j].path = p /\ ~pending[z][j].override
                                              /\ pending[z][j].key = SharedKey(p)
    <3>1. CASE Copied(z, r)
      BY <1>4, <3>1, CopiedKeeps
    <3>2. CASE Reused(z, r)
      <4>1. \A x : BytesAt(x) => BytesAt(x)'
        BY <3>2, BytesStay DEF Reused
      <4>2. /\ \A x \in RowsOf(db) : BytesAt(x)'
            /\ \A x : (\E i \in DOMAIN pending[z] : x = pending[z][i]) => BytesAt(x)'
        BY <4>1 DEF FixedRows, FixedIn
      <4>3. CASE \E i \in DOMAIN pending[z] : pending[z][i].sha = r.sha /\ pending[z][i].key = r.key
        <5>1. PICK i \in DOMAIN pending[z] : pending[z][i].sha = r.sha /\ pending[z][i].key = r.key
          BY <4>3
        <5>2. BytesAt(pending[z][i]) /\ PendingBacked(z, i)
          BY DEF FixedIn
        <5>3. BytesAt(r)
          BY <5>1, <5>2 DEF BytesAt
        <5>4. \A j \in 1..i : j \in DOMAIN pending[z]
          BY <1>0
        <5> QED
          BY <4>1, <4>2, <5>1, <5>2, <5>3, <5>4 DEF PendingBacked
      <4>4. CASE \E x \in RowsOf(db) : x.sha = r.sha /\ x.key = r.key
        <5>1. PICK x \in RowsOf(db) : x.sha = r.sha /\ x.key = r.key
          BY <4>4
        <5>2. BytesAt(x) /\ KeyBacked(db, x.key)
          BY DEF FixedRows
        <5>3. BytesAt(r)
          BY <5>1, <5>2 DEF BytesAt
        <5> QED
          BY <4>1, <4>2, <5>1, <5>2, <5>3 DEF KeyBacked
      <4> QED
        BY <3>2, <4>3, <4>4 DEF Reused
    <3> QED
      BY <1>4, <3>1, <3>2
  <2>2. \A p : HasBaseline(db, p)' <=> HasBaseline(db, p)
    BY <1>1 DEF HasBaseline, RowsOf
  <2>3. /\ DOMAIN pending'[z] = DOMAIN pending[z] \cup {n}
        /\ DOMAIN pending[z] = 1..(n - 1) /\ n \in Nat \ {0}
        /\ pending'[z][n] = r
        /\ \A i \in DOMAIN pending[z] : pending'[z][i] = pending[z][i]
    BY <1>0, <1>4
  <2>4. FixedRows'
    <3>1. \A k : /\ KeyBacked(db, k) => KeyBacked(db, k)'
                 /\ KeyBacked(db, k) => KeyBacked(work, k)'
      BY <1>1, <2>2 DEF KeyBacked
    <3>2. RowsOf(db)' = RowsOf(db) /\ RowsOf(work)' = RowsOf(db)
      BY <1>1 DEF RowsOf
    <3> QED
      BY <1>1, <2>1, <3>1, <3>2 DEF FixedRows
  <2> HIDE DEF n
  <2>5. \A i \in DOMAIN pending'[z] : BytesAt(pending[z][i])'
    BY <2>1, <2>3
  <2>6. \A i \in DOMAIN pending'[z] : OfferedBytes(z, pending[z][i])'
    BY <1>4, <2>3 DEF FixedIn, OfferedBytes
  <2>7. ASSUME NEW i \in DOMAIN pending'[z] PROVE PendingBacked(z, i)'
    <3> SUFFICES ASSUME NEW p \in Paths, pending'[z][i].key = SharedKey(p), ~HasBaseline(db, p)
                 PROVE  \E j \in 1..i : /\ pending'[z][j].path = p /\ ~pending'[z][j].override
                                        /\ pending'[z][j].key = SharedKey(p)
      BY <2>2 DEF PendingBacked
    <3>1. CASE i = n
      <4>1. CASE p = r.path /\ ~r.override
        <5>1. i \in 1..i
          BY <2>3, <3>1
        <5> QED
          BY <2>3, <3>1, <4>1, <5>1
      <4>2. CASE \E j \in DOMAIN pending[z] :
                    /\ pending[z][j].path = p /\ ~pending[z][j].override
                    /\ pending[z][j].key = SharedKey(p)
        <5>1. PICK j \in DOMAIN pending[z] :
                    /\ pending[z][j].path = p /\ ~pending[z][j].override
                    /\ pending[z][j].key = SharedKey(p)
          BY <4>2
        <5>2. j \in 1..i
          BY <2>3, <3>1, <5>1
        <5> QED
          BY <2>3, <5>1, <5>2
      <4> QED
        BY <2>1, <2>3, <3>1, <4>1, <4>2
    <3>2. CASE i \in DOMAIN pending[z]
      <4>1. PICK j \in 1..i : /\ pending[z][j].path = p /\ ~pending[z][j].override
                              /\ pending[z][j].key = SharedKey(p)
        BY <2>3, <3>2 DEF FixedIn, PendingBacked
      <4>2. j \in DOMAIN pending[z]
        BY <2>3, <3>2
      <4> QED
        BY <2>3, <4>1, <4>2
    <3> QED
      BY <2>3, <3>1, <3>2
  <2>8. \A x \in sharedReuse'[z] : KeyBacked(db, x.key)'
    BY <1>1, <2>2 DEF FixedIn, KeyBacked
  <2>9. \A m \in Uploading(z)' :
           uploads'[z][m].placement = "SHARED" => ~HasBaseline(db, uploads[z][m].file.path)'
    BY <1>2, <2>2 DEF FixedIn, Uploading
  <2>10. FixedIn(z)'
    BY <1>1, <1>4, <2>5, <2>6, <2>7, <2>8, <2>9 DEF FixedIn
  <2> QED
    BY <2>4, <2>10
<1> QED
  BY <1>3, <1>4, EndRecords

-----------------------------------------------------------------------------
(* COMMIT.                                                                 *)

\* The memory of z in COMMIT.
FixedMemory(z) ==
    /\ \A i \in DOMAIN pending[z] : BytesAt(pending[z][i]) /\ PendingBacked(z, i)
    /\ \A r \in sharedReuse[z] : KeyBacked(db, r.key)
    /\ \A i \in DOMAIN pending[z] : OfferedBytes(z, pending[z][i])
    /\ Uploading(z) = {}

FixedJob(z) ==
    job[z].op = "commit" =>
        /\ \A i \in DOMAIN pending[z] :
              i < job[z].i /\ ~pending[z][i].override => HasBaseline(work, pending[z][i].path)
        /\ \A r \in job[z].rows : KeyBacked(work, r.key) /\ BytesAt(r)
        /\ \A r \in job[z].reuse : KeyBacked(work, r.key)

LEMMA FixedParts ==
    ASSUME NEW z \in Sessions, FixedMemory(z)', FixedJob(z)', job'[z].op # "copy"
    PROVE  FixedIn(z)'
BY DEF FixedMemory, FixedJob, FixedIn, CopyVerified

\* The memory stays when the committed table does, or gains baselines.
LEMMA MemoryStays ==
    ASSUME NEW z \in Sessions, FixedIn(z), Uploading(z) = {}, UNCHANGED filer,
           uploads'[z] = uploads[z], pending'[z] = pending[z], sharedReuse'[z] = sharedReuse[z],
           \A p \in Paths : HasBaseline(db, p) => HasBaseline(db, p)'
    PROVE  FixedMemory(z)'
<1>1. \A r : BytesAt(r) => BytesAt(r)'
  BY DEF BytesAt
<1>2. \A k : KeyBacked(db, k) => KeyBacked(db, k)'
  BY DEF KeyBacked
<1>3. \A i \in DOMAIN pending'[z] : BytesAt(pending[z][i])'
  BY <1>1 DEF FixedIn
<1>4. \A i \in DOMAIN pending'[z] : PendingBacked(z, i)'
  BY DEF FixedIn, PendingBacked
<1>5. \A i \in DOMAIN pending'[z] : OfferedBytes(z, pending[z][i])'
  BY DEF FixedIn, OfferedBytes
<1>6. \A r \in sharedReuse'[z] : KeyBacked(db, r.key)'
  BY <1>2 DEF FixedIn
<1>7. Uploading(z)' = {}
  BY DEF Uploading
<1> QED
  BY <1>3, <1>4, <1>5, <1>6, <1>7 DEF FixedMemory

\* One upsert of COMMIT.
LEMMA FixedPut ==
    ASSUME HipInv, PutsKeep, InsertsOnly, FixedRows, NEW a \in Row, Put(a), UNCHANGED filer,
           BytesAt(a), KeyBacked(InsertAsset(work, a), a.key)
    PROVE  /\ FixedRows'
           /\ a \in RowsOf(work')
           /\ \A p \in Paths : HasBaseline(work, p) => HasBaseline(work, p)'
           /\ UNCHANGED db
<1>1. work' = InsertAsset(work, a) /\ db' = db
  BY DEF Put
<1>2. work \in Db
  BY Typed DEF HipInv
<1>3. /\ a \in RowsOf(work')
      /\ \A p \in Paths : HasBaseline(work, p) => HasBaseline(work', p)
      /\ RowsOf(work') \subseteq RowsOf(work) \cup {a}
  BY <1>1, <1>2 DEF PutsKeep, InsertsOnly
<1>4. \A p : HasBaseline(work', p) <=> HasBaseline(work, p)'
  BY DEF HasBaseline, RowsOf
<1>5. \A p : HasBaseline(db, p) <=> HasBaseline(db, p)'
  BY <1>1 DEF HasBaseline, RowsOf
<1>6. \A r : BytesAt(r) => BytesAt(r)'
  BY DEF BytesAt
<1>7. \A k : KeyBacked(work, k) => KeyBacked(work, k)'
  BY <1>3, <1>4 DEF KeyBacked
<1>8. \A k : KeyBacked(db, k) => KeyBacked(db, k)'
  BY <1>5 DEF KeyBacked
<1>9. KeyBacked(work, a.key)'
  BY <1>1, <1>4 DEF KeyBacked
<1>10. RowsOf(work)' = RowsOf(work') /\ RowsOf(db)' = RowsOf(db)
  BY <1>1 DEF RowsOf
<1>11. \A r \in RowsOf(work)' : KeyBacked(work, r.key)' /\ BytesAt(r)'
  BY <1>3, <1>6, <1>7, <1>9, <1>10 DEF FixedRows
<1>12. \A r \in RowsOf(db)' : KeyBacked(db, r.key)' /\ BytesAt(r)'
  BY <1>6, <1>8, <1>10 DEF FixedRows
<1>13. \A p \in Paths : HasBaseline(db, p)' => HasBaseline(work, p)'
  BY <1>3, <1>4, <1>5 DEF FixedRows
<1> QED
  BY <1>1, <1>3, <1>4, <1>11, <1>12, <1>13 DEF FixedRows

LEMMA FixedCommit ==
    ASSUME HipInv, QueriesAnswer, PutsKeep, InsertsOnly, NEW z \in Sessions,
           FixedRows, FixedIn(z), CommitAct(z)
    PROVE  FixedRows' /\ FixedIn(z)'
<1>0. /\ job \in [Sessions -> JobType] /\ db \in Db /\ work \in Db
      /\ pending[z] \in Seq(Row) /\ sharedReuse[z] \subseteq ReuseEntry
      /\ \A i \in DOMAIN pending[z] : pending[z][i] \in Row
  BY Typed DEF HipInv, HipTypeOK
<1>1. UNCHANGED <<uploads, pending, sharedReuse, filer>> /\ job'[z].op # "copy"
  BY CommitIsQuiet
<1>2. KeysStay
  BY <1>1 DEF KeysStay
<1>3. ASSUME Uploading(z) = {}, \A p \in Paths : HasBaseline(db, p) => HasBaseline(db, p)', FixedJob(z)'
      PROVE  FixedIn(z)'
  <2>1. FixedMemory(z)'
    BY <1>1, <1>3, MemoryStays
  <2> QED
    BY <1>1, <1>3, <2>1, FixedParts
<1>4. \A r : BytesAt(r) => BytesAt(r)'
  BY <1>1 DEF BytesAt
<1>5. ASSUME db' = db PROVE \A p \in Paths : HasBaseline(db, p) => HasBaseline(db, p)'
  BY <1>5 DEF HasBaseline, RowsOf
<1>6. CASE handleCommit(z)
  <2>1. PICK C \in Merges(z) :
            job' = [job EXCEPT ![z] = [op |-> "commit", i |-> 1, rows |-> {}, comps |-> C,
                                       clones |-> {e \in bundles[z] : e.reuse},
                                       reuse |-> sharedReuse[z]]]
    BY <1>6 DEF handleCommit, Continue
  <2>2. job'[z].rows = {} /\ job'[z].reuse = sharedReuse[z] /\ job'[z].i = 1
    BY <1>0, <2>1
  <2>3. db' = db /\ work' = InsertVersion(db, ServerOf[z], VersionOf[z], HashOf[z])
    BY <1>6 DEF handleCommit, Begin
  <2>4. work'.assets = db.assets
    BY <1>0, <2>3 DEF InsertVersion, Db
  <2>5. FixedRows'
    BY <1>2, <2>3, <2>4, FixedRowsReset
  <2>6. \A p : HasBaseline(work, p)' <=> HasBaseline(db, p)
    BY <2>4 DEF HasBaseline, RowsOf
  <2>7. \A r \in job'[z].reuse : KeyBacked(work, r.key)'
    BY <2>2, <2>6 DEF FixedIn, KeyBacked
  <2>8. \A i \in DOMAIN pending'[z] : ~(i < job'[z].i)
    BY <1>0, <1>1, <2>2
  <2>9. FixedJob(z)'
    BY <2>2, <2>7, <2>8 DEF FixedJob
  <2>10. Uploading(z) = {}
    BY <1>6 DEF handleCommit
  <2> QED
    BY <1>3, <1>5, <2>3, <2>5, <2>9, <2>10
<1>7. CASE Publish(z)
  <2>1. /\ job' = [job EXCEPT ![z] = [op |-> "committed"]]
        /\ db' = MarkReadIndexCurrent(work) /\ work' = db' /\ job[z].op = "commit"
    BY <1>7 DEF Publish, Continue, CommitTx
  <2>2. db'.assets = work.assets /\ work'.assets = work.assets /\ job'[z].op = "committed"
    BY <1>0, <2>1 DEF MarkReadIndexCurrent, Db
  <2>3. /\ RowsOf(work)' = RowsOf(work) /\ RowsOf(db)' = RowsOf(work)
        /\ \A p : HasBaseline(work, p)' <=> HasBaseline(work, p)
        /\ \A p : HasBaseline(db, p)' <=> HasBaseline(work, p)
    BY <2>2 DEF HasBaseline, RowsOf
  <2>4. \A k : KeyBacked(work, k) => KeyBacked(work, k)' /\ KeyBacked(db, k)'
    BY <2>3 DEF KeyBacked
  <2>5. FixedRows'
    BY <1>4, <2>3, <2>4 DEF FixedRows
  <2>6. \A p \in Paths : HasBaseline(db, p) => HasBaseline(db, p)'
    BY <2>3 DEF FixedRows
  <2>7. FixedJob(z)' /\ Uploading(z) = {}
    BY <2>1, <2>2 DEF FixedJob, FixedIn
  <2> QED
    BY <1>3, <2>5, <2>6, <2>7
<1>8. CASE Finalize(z)
  <2>1. job'[z] = Idle /\ UNCHANGED <<db, work>>
    BY <1>0, <1>8 DEF Finalize, Continue, storeVars
  <2>2. FixedRows'
    BY <1>2, <2>1, FixedRowsStay
  <2>3. FixedIn(z)'
    BY <1>1, <1>2, <2>1, FixedQuiet DEF Idle, CopyVerified
  <2> QED
    BY <2>2, <2>3
<1>9. CASE InTx(z)
  <2>1. /\ job[z].op = "commit"
        /\ job[z] \in [op : {"commit"}, i : Nat \ {0}, rows : SUBSET Row,
                       clones : SUBSET BundleEntry, reuse : SUBSET ReuseEntry,
                       comps : SUBSET [bundle : Bundles, fp : Fps, source : Sources]]
    BY <1>0, <1>9, JobCases DEF InTx
  <2>2. /\ Uploading(z) = {}
        /\ \A i \in DOMAIN pending[z] :
              i < job[z].i /\ ~pending[z][i].override => HasBaseline(work, pending[z][i].path)
        /\ \A r \in job[z].rows : KeyBacked(work, r.key) /\ BytesAt(r)
        /\ \A r \in job[z].reuse : KeyBacked(work, r.key)
    BY <2>1 DEF FixedIn
  <2>3. ASSUME \A p \in Paths : HasBaseline(work, p) => HasBaseline(work, p)'
        PROVE  \A k : KeyBacked(work, k) => KeyBacked(work, k)'
    BY <2>3 DEF KeyBacked
  <2>4. \A i \in DOMAIN pending[z] : pending[z][i].path \in Paths
    BY <1>0 DEF Row
  <2>5. ASSUME NEW a \in Row, Put(a), BytesAt(a), KeyBacked(InsertAsset(work, a), a.key)
        PROVE  /\ FixedRows' /\ db' = db
               /\ a \in RowsOf(work')
               /\ \A p \in Paths : HasBaseline(work, p) => HasBaseline(work, p)'
    BY <1>1, <2>5, FixedPut
  <2>6. ASSUME db' = db, \A p \in Paths : HasBaseline(work, p) => HasBaseline(work, p)',
               job'[z].i = job[z].i, job'[z].reuse \subseteq job[z].reuse,
               \A r \in job'[z].rows : r \in job[z].rows \/ (KeyBacked(work, r.key) /\ BytesAt(r))
        PROVE  FixedIn(z)'
    <3>1. \A r \in job'[z].rows : KeyBacked(work, r.key)' /\ BytesAt(r)'
      BY <1>4, <2>2, <2>3, <2>6
    <3>2. \A r \in job'[z].reuse : KeyBacked(work, r.key)'
      BY <2>2, <2>3, <2>6
    <3>3. \A i \in DOMAIN pending'[z] :
             i < job'[z].i /\ ~pending'[z][i].override => HasBaseline(work, pending[z][i].path)'
      BY <1>1, <2>2, <2>4, <2>6
    <3>4. FixedJob(z)'
      BY <3>1, <3>2, <3>3 DEF FixedJob
    <3> QED
      BY <1>3, <1>5, <2>2, <2>6, <3>4
  <2>7. CASE InsertPending(z)
    <3> DEFINE a == pending[z][job[z].i]
    <3>1. job[z].i \in DOMAIN pending[z]
      BY <1>0, <2>1, <2>7, LenProperties DEF InsertPending, PendingDone
    <3>2. a \in Row /\ Put(a) /\ BytesAt(a) /\ PendingBacked(z, job[z].i)
      BY <1>0, <2>7, <3>1 DEF InsertPending, FixedIn
    <3>3. /\ a \in RowsOf(InsertAsset(work, a))
          /\ \A p \in Paths : HasBaseline(work, p) => HasBaseline(InsertAsset(work, a), p)
      BY <3>2 DEF PutsKeep
    <3>4. KeyBacked(InsertAsset(work, a), a.key)
      <4> SUFFICES ASSUME NEW p \in Paths, a.key = SharedKey(p)
                   PROVE  HasBaseline(InsertAsset(work, a), p)
        BY DEF KeyBacked
      <4>1. CASE HasBaseline(db, p)
        BY <3>3, <4>1 DEF FixedRows
      <4>2. ASSUME NEW j \in 1..job[z].i, pending[z][j].path = p, ~pending[z][j].override
            PROVE  HasBaseline(InsertAsset(work, a), p)
        <5>1. CASE j = job[z].i
          BY <3>3, <4>2, <5>1 DEF HasBaseline
        <5>2. CASE j < job[z].i
          <6>1. j \in DOMAIN pending[z]
            BY <1>0, <2>1, <3>1
          <6>2. HasBaseline(work, p)
            BY <2>2, <4>2, <5>2, <6>1
          <6> QED
            BY <3>3, <6>2
        <5> QED
          BY <2>1, <5>1, <5>2
      <4> QED
        BY <3>2, <4>1, <4>2 DEF PendingBacked
    <3>5. /\ FixedRows' /\ db' = db
          /\ a \in RowsOf(work')
          /\ \A p \in Paths : HasBaseline(work, p) => HasBaseline(work, p)'
      BY <2>5, <3>2, <3>4
    <3>6. job'[z] = [job[z] EXCEPT !.i = @ + 1]
      BY <1>0, <2>7 DEF InsertPending, Continue
    <3>7. job'[z].rows = job[z].rows /\ job'[z].reuse = job[z].reuse /\ job'[z].i = job[z].i + 1
      BY <2>1, <3>6
    <3>8. ~a.override => HasBaseline(work', a.path)
      BY <3>5 DEF HasBaseline
    <3>9. ASSUME NEW i \in DOMAIN pending'[z], i < job'[z].i, ~pending'[z][i].override
          PROVE  HasBaseline(work, pending[z][i].path)'
      <4>1. i \in DOMAIN pending[z] /\ i \in Nat /\ job[z].i \in Nat
        BY <1>0, <1>1, <2>1, <3>9
      <4>2. i = job[z].i \/ i < job[z].i
        BY <3>7, <3>9, <4>1
      <4>3. CASE i = job[z].i
        <5>1. pending'[z][i] = a /\ ~a.override
          BY <1>1, <3>9, <4>3
        <5> QED
          BY <3>8, <5>1 DEF HasBaseline, RowsOf
      <4>4. CASE i < job[z].i
        BY <1>1, <2>2, <2>4, <3>5, <3>9, <4>1, <4>4
      <4> QED
        BY <4>2, <4>3, <4>4
    <3>10. /\ \A r \in job'[z].rows : KeyBacked(work, r.key)' /\ BytesAt(r)'
           /\ \A r \in job'[z].reuse : KeyBacked(work, r.key)'
      BY <1>4, <2>2, <2>3, <3>5, <3>7
    <3>11. FixedJob(z)'
      BY <3>9, <3>10 DEF FixedJob
    <3> QED
      BY <1>3, <1>5, <2>2, <3>5, <3>11
  <2>8. CASE LoadClones(z)
    <3>1. PICK e \in job[z].clones :
              job' = [job EXCEPT ![z] = [job[z] EXCEPT !.clones = @ \ {e},
                        !.rows = {Rebind(z, a) : a \in ReusableBundleAssets(work, e.bundle, e.fp)}]]
      BY <2>8 DEF LoadClones, Continue
    <3> DEFINE rows == {Rebind(z, a) : a \in ReusableBundleAssets(work, e.bundle, e.fp)}
    <3>2. \A r \in rows : KeyBacked(work, r.key) /\ BytesAt(r)
      <4> SUFFICES ASSUME NEW a \in ReusableBundleAssets(work, e.bundle, e.fp)
                   PROVE  KeyBacked(work, Rebind(z, a).key) /\ BytesAt(Rebind(z, a))
        OBVIOUS
      <4>1. a \in RowsOf(work) /\ a \in Row
        BY <1>0, Typed DEF QueriesAnswer, HipInv
      <4>2. Rebind(z, a).key = a.key /\ Rebind(z, a).sha = a.sha
        BY <4>1 DEF Rebind, Row
      <4>3. KeyBacked(work, a.key) /\ BytesAt(a)
        BY <4>1 DEF FixedRows
      <4> QED
        BY <4>2, <4>3 DEF BytesAt
    <3>3. job'[z] = [job[z] EXCEPT !.clones = @ \ {e}, !.rows = rows]
      BY <1>0, <3>1
    <3> HIDE DEF rows
    <3>4. job'[z].rows = rows /\ job'[z].reuse = job[z].reuse /\ job'[z].i = job[z].i
      BY <2>1, <3>3
    <3>5. UNCHANGED <<db, work>>
      BY <2>8 DEF LoadClones, storeVars
    <3>6. FixedRows' /\ \A p \in Paths : HasBaseline(work, p) => HasBaseline(work, p)'
      BY <1>2, <3>5, FixedRowsStay DEF HasBaseline, RowsOf
    <3> QED
      BY <2>6, <3>2, <3>4, <3>5, <3>6
  <2>9. CASE InsertClone(z)
    <3>1. PICK a \in job[z].rows :
              Put(a) /\ job' = [job EXCEPT ![z] = [job[z] EXCEPT !.rows = @ \ {a}]]
      BY <2>9 DEF InsertClone, Continue
    <3>2. a \in Row /\ BytesAt(a) /\ KeyBacked(work, a.key)
      BY <2>1, <2>2, <3>1
    <3>3. KeyBacked(InsertAsset(work, a), a.key)
      BY <3>1, <3>2 DEF PutsKeep, KeyBacked
    <3>4. /\ FixedRows' /\ db' = db
          /\ \A p \in Paths : HasBaseline(work, p) => HasBaseline(work, p)'
      BY <2>5, <3>1, <3>2, <3>3
    <3>5. /\ job'[z].rows \subseteq job[z].rows /\ job'[z].reuse = job[z].reuse
          /\ job'[z].i = job[z].i
      BY <1>0, <2>1, <3>1
    <3> QED
      BY <2>6, <3>4, <3>5
  <2>10. CASE InsertReuse(z)
    <3>1. PICK r \in job[z].reuse :
            Put(ReuseRow(z, r)) /\ job' = [job EXCEPT ![z] = [job[z] EXCEPT !.reuse = @ \ {r}]]
      BY <2>10 DEF InsertReuse, Continue
    <3> DEFINE a == ReuseRow(z, r)
    <3>2. a \in Row /\ a.sha = NoSha /\ a.key = r.key
      BY <2>1, <3>1, SessionsAssumption DEF ReuseRow, Row, ReuseEntry
    <3> HIDE DEF a
    <3>3. BytesAt(a) /\ KeyBacked(work, a.key) /\ Put(a)
      BY <2>2, <3>1, <3>2 DEF BytesAt, a
    <3>4. KeyBacked(InsertAsset(work, a), a.key)
      BY <3>2, <3>3 DEF PutsKeep, KeyBacked
    <3>5. /\ FixedRows' /\ db' = db
          /\ \A p \in Paths : HasBaseline(work, p) => HasBaseline(work, p)'
      BY <2>5, <3>2, <3>3, <3>4
    <3>6. /\ job'[z].rows = job[z].rows /\ job'[z].reuse \subseteq job[z].reuse
          /\ job'[z].i = job[z].i
      BY <1>0, <2>1, <3>1
    <3> QED
      BY <2>6, <3>5, <3>6
  <2>11. CASE InsertCompletion(z)
    <3>1. PICK c \in job[z].comps :
            /\ Complete(completionOf(z, c))
            /\ job' = [job EXCEPT ![z] = [job[z] EXCEPT !.comps = @ \ {c}]]
      BY <2>11 DEF InsertCompletion, Continue
    <3>2. db' = db /\ work' = InsertBundleCompletion(work, completionOf(z, c))
      BY <3>1 DEF Complete
    <3>3. work'.assets = work.assets
      BY <1>0, <3>2 DEF InsertBundleCompletion, Db
    <3>4. /\ RowsOf(work)' = RowsOf(work) /\ RowsOf(db)' = RowsOf(db)
          /\ \A p : HasBaseline(work, p)' <=> HasBaseline(work, p)
          /\ \A p : HasBaseline(db, p)' <=> HasBaseline(db, p)
      BY <3>2, <3>3 DEF HasBaseline, RowsOf
    <3>5. \A k : /\ KeyBacked(work, k) => KeyBacked(work, k)'
                 /\ KeyBacked(db, k) => KeyBacked(db, k)'
      BY <3>4 DEF KeyBacked
    <3>6. FixedRows'
      BY <1>4, <3>4, <3>5 DEF FixedRows
    <3>7. job'[z].rows = job[z].rows /\ job'[z].reuse = job[z].reuse /\ job'[z].i = job[z].i
      BY <1>0, <2>1, <3>1
    <3> QED
      BY <2>6, <3>2, <3>4, <3>6, <3>7
  <2> QED
    BY <1>6, <1>7, <1>8, <2>7, <2>8, <2>9, <2>10, <2>11 DEF CommitAct
<1> QED
  BY <1>6, <1>7, <1>8, <1>9 DEF CommitAct, InsertPending, LoadClones, InsertClone, InsertReuse,
                                InsertCompletion

-----------------------------------------------------------------------------
(* Every step of updaters that take turns.                                 *)

LEMMA FixedMove ==
    ASSUME TakeTurns, TakeTurns', NEW z \in Sessions, ~Away(z), OthersStay(z), FixedRows', FixedIn(z)'
    PROVE  FixedInv'
<1>1. \A y \in Sessions \ {z} : Away(y)'
  BY DEF TakeTurns, Away, OthersStay
<1>2. ASSUME NEW y \in Sessions, y # z PROVE FixedIn(y)'
  <2>1. HoldsNothing(y)'
    BY <1>1, <1>2 DEF TakeTurns, HoldsNothing
  <2> QED
    BY <2>1, FixedAway
<1> QED
  BY <1>2 DEF FixedInv, FixedRows

LEMMA FixedInvStep ==
    ASSUME HipInv, QueriesAnswer, ReusesBytes, InsertsOnly, PutsKeep, BaselineAnswers,
           OneFilePerPath, TurnsInv, TakeTurns', FixedInv, [SerialNext]_hipVars
    PROVE  FixedInv'
<1>0. /\ TakeTurns /\ TxOwned /\ FixedRows
      /\ \A z \in Sessions : OnlyOffered(z) /\ FixedIn(z)
  BY DEF TurnsInv, FixedInv, FixedRows
<1>1. ASSUME NEW z \in Sessions, CheckAct(z) \/ BeginAct(z) \/ StreamAct(z) PROVE FixedInv'
  <2>1. KeysStay /\ FixedIn(z)'
    BY <1>0, <1>1, FixedCheck, FixedBegin, FixedStream
  <2>2. OthersStay(z) /\ UNCHANGED <<db, work>>
    BY <1>0, <1>1, CheckIsQuiet, BeginIs, StreamIs DEF storeVars
  <2>3. ~Away(z)
    BY <1>0, <1>1, ActorIsHere
  <2>4. FixedRows'
    BY <1>0, <2>1, <2>2, FixedRowsStay
  <2> QED
    BY <1>0, <2>1, <2>2, <2>3, <2>4, FixedMove
<1>2. ASSUME NEW z \in Sessions, EndAct(z) PROVE FixedInv'
  <2>1. ~Away(z) /\ job[z].op # "commit"
    BY <1>0, <1>2, ActorIsHere, NotCommitting
  <2>2. work = db
    BY <1>0, <2>1, NoTxElsewhere
  <2>3. FixedRows' /\ FixedIn(z)'
    BY <1>0, <1>2, <2>2, FixedEnd
  <2>4. OthersStay(z)
    BY <1>2, EndIs
  <2> QED
    BY <1>0, <2>1, <2>3, <2>4, FixedMove
<1>3. ASSUME NEW z \in Sessions, CommitAct(z) PROVE FixedInv'
  <2>1. ~Away(z) /\ OthersStay(z)
    BY <1>0, <1>3, ActorIsHere, CommitIsQuiet
  <2>2. FixedRows' /\ FixedIn(z)'
    BY <1>0, <1>3, FixedCommit
  <2> QED
    BY <1>0, <2>1, <2>2, FixedMove
\* A session ends: when it has not said HELLO it holds nothing, and leaves the
\* transaction and the objects of the others alone.
<1>4. ASSUME NEW z \in Sessions, CloseAct(z) PROVE FixedInv'
  <2>1. Close(z)
    BY <1>4 DEF CloseAct, QueryFails, CommitFails, EndSession
  <2>2. OthersStay(z) /\ HoldsNothing(z)'
    BY <2>1, CloseIs DEF HoldsNothing
  <2>3. FixedIn(z)'
    BY <2>2, FixedAway
  <2>4. KeysStay
    BY <2>1, CloseOwnTmp, OwnTmpKeysStay
  <2>5. UNCHANGED <<db, work>> \/ (db' = db /\ work' = db /\ job[z].op = "commit")
    BY <1>4 DEF CloseAct, QueryFails, CommitFails, EndSession, Rollback, storeVars
  <2>6. FixedRows'
    BY <1>0, <2>4, <2>5, FixedRowsStay, FixedRowsReset
  <2>7. CASE ~Away(z)
    BY <1>0, <2>2, <2>3, <2>6, <2>7, FixedMove
  <2>8. CASE Away(z)
    <3>1. Uploading(z) = {} /\ job[z].op # "commit"
      BY <1>0, <2>8 DEF TakeTurns, Uploading, Idle
    <3>2. AbortTmp({})
      BY <2>1, <3>1 DEF Close, abortAllUploads
    <3>3. filer' = filer
      <4>1. filer' = [k \in DOMAIN filer |-> filer[k]]
        BY <3>2 DEF AbortTmp
      <4> QED
        BY <4>1 DEF HipInv, HipTypeOK
    <3>4. \A y \in Sessions \ {z} : FixedIn(y)'
      BY <1>0, <2>2, <2>5, <3>1, <3>3, FixedInStays DEF OthersStay
    <3> QED
      BY <2>3, <2>6, <3>4 DEF FixedInv, FixedRows
  <2> QED
    BY <2>7, <2>8
<1>5. ASSUME UNCHANGED <<db, work, filer, job, uploads, pending, sharedReuse>> PROVE FixedInv'
  <2>1. KeysStay
    BY <1>5 DEF KeysStay
  <2>2. FixedRows'
    BY <1>0, <1>5, <2>1, FixedRowsStay
  <2>3. \A y \in Sessions : FixedIn(y)'
    BY <1>0, <1>5, FixedInStays
  <2> QED
    BY <2>2, <2>3 DEF FixedInv, FixedRows
<1>6. ASSUME NEW z \in Sessions, handleHello(z) \/ RetryCommit(z) PROVE FixedInv'
  BY <1>5, <1>6 DEF handleHello, RetryCommit, storeVars
<1>7. CASE UNCHANGED hipVars
  BY <1>5, <1>7 DEF hipVars, sessVars, storeVars
<1>8. CASE Die
  <2>1. db' = db /\ work' = db /\ KeysStay /\ \A y \in Sessions : HoldsNothing(y)'
    BY <1>8 DEF Die, Crash, HoldsNothing, KeysStay
  <2>2. FixedRows'
    BY <1>0, <2>1, FixedRowsReset
  <2>3. \A y \in Sessions : FixedIn(y)'
    BY <2>1, FixedAway
  <2> QED
    BY <2>2, <2>3 DEF FixedInv, FixedRows
\* No session acts before the gateway has started.
<1>9. CASE Start
  <2>1. /\ UNCHANGED <<job, uploads, pending, sharedReuse, filer>>
        /\ db' = EnsureReadIndexes(db) /\ work' = db'
    BY <1>9 DEF Start, Boot, sessVars
  <2>2. db'.assets = db.assets /\ work'.assets = db.assets
    BY <2>1, Typed DEF EnsureReadIndexes, Db, HipInv
  <2>3. KeysStay
    BY <2>1 DEF KeysStay
  <2>4. FixedRows'
    BY <1>0, <2>2, <2>3, FixedRowsReset
  <2>5. work = db
    BY <1>0, <1>9 DEF Start, Boot, HipInv, StoreInv, TxOwned
  <2>6. \A y \in Sessions : FixedIn(y)'
    BY <1>0, <2>1, <2>2, <2>5, FixedInStays
  <2> QED
    BY <2>4, <2>6 DEF FixedInv, FixedRows
<1> QED
  BY <1>1, <1>2, <1>3, <1>4, <1>6, <1>7, <1>8, <1>9, SerialCases

LEMMA FixedInit == HipInit => FixedInv
<1> SUFFICES ASSUME HipInit PROVE FixedInv
  OBVIOUS
<1>1. \A z \in Sessions : /\ job[z].op = "idle" /\ pending[z] = <<>> /\ sharedReuse[z] = {}
                          /\ uploads[z] = [m \in Streams |-> NoUpload]
  BY DEF HipInit, Idle
<1>2. db.assets = <<>> /\ work = db
  BY DEF HipInit, StoreInit, EmptyDb
<1>3. RowsOf(db) = {} /\ RowsOf(work) = {}
  BY <1>2 DEF RowsOf
<1>4. \A z \in Sessions : FixedIn(z)
  BY <1>1 DEF FixedIn, Uploading, CopyVerified
<1> QED
  BY <1>2, <1>3, <1>4 DEF FixedInv

LEMMA FixedBytes == HipInv /\ FixedInv => SharedBytesFixed
<1> SUFFICES ASSUME HipInv, FixedInv, NEW r \in RowsOf(db) \cup PendingRows,
                    r.key = SharedKey(r.path), r.sha # NoSha
             PROVE  filer[r.key] = r.sha
  BY DEF SharedBytesFixed
<1>1. BytesAt(r)
  BY DEF FixedInv, FixedIn, PendingRows
<1>2. r \in Row
  <2>1. RowsOf(db) \subseteq Row /\ \A z \in Sessions : pending[z] \in Seq(Row)
    BY Typed DEF HipInv
  <2>2. PendingRows \subseteq Row
    BY <2>1 DEF PendingRows
  <2> QED
    BY <2>1, <2>2
<1>3. r.path \in Paths
  BY <1>2 DEF Row
<1> QED
  BY <1>1, <1>3 DEF BytesAt

=============================================================================
