-------------------------- MODULE HipPublishProofs --------------------------
(***************************************************************************)
(* Theorems about regular updates (HipIngest): what a region publishes is  *)
(* what it serves, a repeated COMMIT changes nothing, reuse rows have      *)
(* their hash elsewhere, and no commit rewrites history.                   *)
(***************************************************************************)
EXTENDS HipStepProofs

USE ZenonT(10), SMTT(30)

\* A handler other than the end of COMMIT does not take z out of COMMIT as
\* committed.
LEMMA OnlyPublish ==
    ASSUME HipInv, [IngestStep]_hipVars, NEW z \in Sessions,
           job[z].op = "commit", job'[z].op = "committed"
    PROVE  Publish(z)
<1>0. job \in [Sessions -> JobType] /\ job'[z] # job[z]
  BY DEF HipInv, HipTypeOK
<1>1. Idle.op = "idle"
  BY DEF Idle
<1>2. ASSUME NEW y \in Sessions, NEW j, job' = [job EXCEPT ![y] = j], j.op # "committed"
      PROVE  FALSE
  BY <1>0, <1>2
<1>3. ASSUME NEW y \in Sessions, SessionStep(y) PROVE Publish(z)
  <2>1. CASE Publish(y)
    <3>1. job' = [job EXCEPT ![y] = [op |-> "committed"]]
      BY <2>1 DEF Publish, Continue
    <3>2. y = z
      BY <1>0, <3>1
    <3> QED
      BY <2>1, <3>2
  <2>2. CASE \/ \E it \in Items(y) : handleCheckBatch(y, it)
             \/ CheckServer(y) \/ CheckAny(y) \/ CheckCompleted(y) \/ CheckBaseline(y)
    <3>1. \E j : job' = [job EXCEPT ![y] = j] /\ j.op # "committed"
      BY <1>1, <2>2, Zenon DEF handleCheckBatch, CheckServer, CheckAny, CheckCompleted,
              CheckBaseline, CheckQuery, AnswerSkip, AnswerUpload, Continue
    <3> QED
      BY <1>2, <3>1
  <2>3. CASE BeginShared(y) \/ BeginBaseline(y)
    <3>1. \E j : job' = [job EXCEPT ![y] = j] /\ j.op # "committed"
      BY <1>1, <2>3 DEF BeginShared, BeginBaseline, RejectReuse, RejectPresent,
              newInflight, Continue
    <3> QED
      BY <1>2, <3>1
  <2>4. CASE \/ QueryFails(y) \/ EndSession(y) \/ CommitFails(y) \/ EndCopyFails(y)
             \/ EndCopy(y) \/ Finalize(y)
    BY <1>1, <1>2, <2>4, Zenon DEF QueryFails, EndSession, CommitFails, Close, EndCopyFails,
          EndCopy, RecordPending, Finalize, Continue
  <2>5. CASE \/ \E m \in Streams, x \in Shas : handleUploadChunk(y, m, x)
             \/ \E m \in Streams : finishInflight(y, m)
             \/ \E m \in Streams : EndMismatch(y, m)
    BY <1>0, <2>5, Zenon DEF handleUploadChunk, finishInflight, EndMismatch
  <2>6. CASE \/ InsertPending(y) \/ InsertClone(y) \/ InsertReuse(y) \/ LoadClones(y)
             \/ InsertCompletion(y)
    <3>1. job[y] \in [op : {"commit"}, i : Nat \ {0}, rows : SUBSET Row,
                      clones : SUBSET BundleEntry, reuse : SUBSET ReuseEntry,
                      comps : SUBSET [bundle : Bundles, fp : Fps, source : Sources]]
      BY <1>0, <2>6, JobCases, Zenon DEF InsertPending, InsertClone, InsertReuse, LoadClones,
         InsertCompletion, InTx
    <3>2. \E j : job' = [job EXCEPT ![y] = j] /\ j.op = "commit"
      BY <2>6, <3>1, Zenon DEF InsertPending, InsertClone, InsertReuse, LoadClones,
         InsertCompletion, Continue
    <3> QED
      BY <1>2, <3>2
  <2> QED
    BY <1>3, <2>1, <2>2, <2>3, <2>4, <2>5, <2>6 DEF SessionStep
<1>4. ASSUME NEW y \in Sessions,
             \/ \E m \in Streams, f \in Offers[y] : handleUploadBegin(y, m, f)
             \/ \E m \in Streams, declares \in BOOLEAN : handleUploadEnd(y, m, declares)
             \/ handleCommit(y)
      PROVE  FALSE
  <2>1. CASE \E m \in Streams, f \in Offers[y] : handleUploadBegin(y, m, f)
    <3>1. \E j : job' = [job EXCEPT ![y] = j] /\ j.op # "committed"
      BY <1>1, <2>1 DEF handleUploadBegin, RejectPresent, Continue
    <3> QED
      BY <1>2, <3>1
  <2>2. CASE \E m \in Streams, declares \in BOOLEAN : handleUploadEnd(y, m, declares)
    <3>1. PICK m \in Streams, declares \in BOOLEAN : handleUploadEnd(y, m, declares)
      BY <2>2
    <3>2. Continue(y, Idle) \/ Continue(y, [op |-> "copy", stream |-> m])
      BY <3>1 DEF handleUploadEnd, RecordPending
    <3> QED
      BY <1>1, <1>2, <3>2 DEF Continue
  <2>3. CASE handleCommit(y)
    <3>1. PICK C : Continue(y, [op |-> "commit", i |-> 1, rows |-> {}, comps |-> C,
                                clones |-> {e \in bundles[y] : e.reuse},
                                reuse |-> sharedReuse[y]])
      BY <2>3, Zenon DEF handleCommit
    <3> QED
      BY <1>2, <3>1 DEF Continue
  <2> QED
    BY <1>4, <2>1, <2>2, <2>3
<1>5. ASSUME NEW y \in Sessions, handleHello(y) \/ RetryCommit(y) PROVE FALSE
  BY <1>0, <1>5 DEF handleHello, RetryCommit
<1>6. ~Start /\ ~Die /\ ~UNCHANGED hipVars
  BY <1>0, <1>1 DEF Start, Die, sessVars, hipVars
<1> QED
  BY <1>3, <1>4, <1>5, <1>6 DEF IngestStep

-----------------------------------------------------------------------------
(* What regular updates leave in the committed database.                   *)

\* Files of two clients with the same bundle and fingerprint are offered by
\* both; files of one path have the same bundle.
LEMMA SameBundle ==
    ASSUME RegularUpdates, NEW y \in Sessions, NEW z \in Sessions,
           NEW f \in Offers[y], NEW g \in Offers[z]
    PROVE  /\ f.path = g.path => f.bundle = g.bundle
           /\ f.bundle = g.bundle /\ f.fp = g.fp => f \in Offers[z]
BY DEF RegularUpdates

LEMMA OneFile ==
    ASSUME RegularUpdates, NEW z \in Sessions, NEW f \in Offers[z], NEW g \in Offers[z],
           f.path = g.path
    PROVE  f = g
BY DEF RegularUpdates, OneFilePerPath

\* Rows and index of a running store.
LEMMA Indexed ==
    ASSUME HipInv, HistoryInv
    PROVE  CurrentIndexed(db) /\ SharedIndexed(db)
BY DEF HipInv, StoreInv, HistoryInv

\* A current row is a row of its region and path.
LEMMA CurrentRow ==
    ASSUME NEW d \in Db, CurrentIndexed(d), NEW s \in Servers, NEW p \in Paths,
           d.current[<<s, p>>] # NoRow
    PROVE  /\ d.current[<<s, p>>] \in RowsOf(d)
           /\ d.current[<<s, p>>].server = s /\ d.current[<<s, p>>].path = p
<1>1. IdsAt(d, s, p) # {}
  BY DEF CurrentIndexed
<1>2. PICK i \in IdsAt(d, s, p) : d.current[<<s, p>>] = d.assets[i]
  BY <1>1 DEF CurrentIndexed
<1> QED
  BY <1>2 DEF IdsAt, RowsOf

\* The current row exists where there are rows.
LEMMA RowIsCurrent ==
    ASSUME NEW d \in Db, CurrentIndexed(d), NEW r \in RowsOf(d)
    PROVE  d.current[<<r.server, r.path>>] # NoRow
<1>0. d.assets \in Seq(Row)
  BY DEF Db
<1>1. PICK k \in DOMAIN d.assets : r = d.assets[k]
  BY DEF RowsOf
<1>2. r \in Row /\ r.server \in Servers /\ r.path \in Paths
  <2>1. r \in Row
    BY <1>0, <1>1, ElementOfSeq, LenProperties
  <2> QED
    BY <2>1 DEF Row
<1>3. k \in IdsAt(d, r.server, r.path)
  BY <1>1 DEF IdsAt
<1>4. PICK i \in IdsAt(d, r.server, r.path) : d.current[<<r.server, r.path>>] = d.assets[i]
  BY <1>2, <1>3 DEF CurrentIndexed
<1>5. d.assets[i] \in RowsOf(d)
  BY <1>4 DEF IdsAt, RowsOf
<1> QED
  BY <1>0, <1>4, <1>5, RowsTyped, NoRowAssumption

\* A region does not return to an earlier content: a file it has rows of is its
\* current one, unless the version that z is about to write is there already.
LEMMA HasFileHas ==
    ASSUME HipInv, HistoryInv, RegularUpdates, NEW z \in Sessions, ~Left(z),
           NEW f \in Offers[z], HasFile(db, ServerOf[z], f)
    PROVE  Has(z, f)
<1> DEFINE s == ServerOf[z]
<1>0. /\ s \in Servers /\ f \in File /\ f.path \in Paths /\ db \in Db /\ CurrentIndexed(db)
      /\ RowsOf(db) \subseteq Row
  BY SessionsAssumption, OffersTyped, Indexed, Typed DEF File, HipInv
<1>1. PICK r \in RowsOf(db) : r.server = s /\ IsFile(f, r)
  BY DEF HasFile
<1>2. PICK y \in Sessions : RowOf(y, r) /\ OffersRow(y, r)
  BY DEF HistoryInv
<1>3. PICK g \in Offers[y] : IsFile(g, r)
  BY <1>2 DEF OffersRow
<1>4. y # z
  <2>1. RowOf(y, r)
    BY <1>2
  <2>2. ~RowOf(z, r)
    BY <1>1 DEF Left
  <2> QED
    BY <2>1, <2>2
<1>5. g = f
  <2>1. g.bundle = f.bundle /\ g.fp = f.fp /\ g.path = f.path
    BY <1>1, <1>3 DEF IsFile
  <2>2. g \in Offers[z]
    BY <2>1, SameBundle
  <2> QED
    BY <2>1, <2>2, OneFile
<1>6. f \in Offers[y] \cap Offers[z] /\ ServerOf[y] = ServerOf[z]
  BY <1>1, <1>2, <1>5 DEF RowOf
<1>7. \A x \in Sessions : ServerOf[x] = ServerOf[z] => \A h \in Offers[x] : h.path = f.path => h = f
  BY <1>4, <1>6 DEF RegularUpdates
<1> DEFINE c == db.current[<<s, f.path>>]
<1>8. c # NoRow
  BY <1>0, <1>1, RowIsCurrent DEF IsFile
<1>9. c \in RowsOf(db) /\ c.server = s /\ c.path = f.path
  BY <1>0, <1>8, CurrentRow
<1>10. PICK x \in Sessions : RowOf(x, c) /\ OffersRow(x, c)
  BY <1>9 DEF HistoryInv
<1>11. PICK h \in Offers[x] : IsFile(h, c)
  BY <1>10 DEF OffersRow
<1>12. h = f
  BY <1>7, <1>9, <1>10, <1>11 DEF RowOf, IsFile
<1> QED
  BY <1>8, <1>11, <1>12 DEF Has

\* What a region has, its queries find.
LEMMA HasIsFound ==
    ASSUME HipInv, HistoryInv, NEW z \in Sessions, NEW f \in Offers[z], Has(z, f)
    PROVE  /\ HasFile(db, ServerOf[z], f)
           /\ SameServerHasPath(db, ServerOf[z], f.path, f.fp)
           /\ SameServerHasBundle(db, ServerOf[z], f.bundle, f.fp)
<1> DEFINE s == ServerOf[z]
           c == db.current[<<s, f.path>>]
<1>0. s \in Servers /\ f.path \in Paths /\ db \in Db /\ CurrentIndexed(db)
  BY SessionsAssumption, OffersTyped, Indexed, Typed DEF File, HipInv
<1>1. c # NoRow /\ IsFile(f, c)
  BY DEF Has
<1>2. c \in RowsOf(db) /\ c.server = s /\ c.path = f.path
  BY <1>0, <1>1, CurrentRow
<1> HIDE DEF c, s
<1>3. PICK i \in DOMAIN db.assets : db.assets[i] = c
  BY <1>2 DEF RowsOf
<1> USE DEF s
<1>4. HasFile(db, ServerOf[z], f)
  BY <1>1, <1>2 DEF HasFile
<1> QED
  BY <1>1, <1>2, <1>3, <1>4 DEF SameServerHasPath, SameServerHasBundle, IdsAt, IsFile

\* A path query of UPLOAD_BEGIN finds the offered file.
LEMMA PathIsFile ==
    ASSUME HipInv, HistoryInv, RegularUpdates, NEW z \in Sessions, NEW f \in Offers[z],
           SameServerHasPath(db, ServerOf[z], f.path, f.fp)
    PROVE  HasFile(db, ServerOf[z], f)
<1>1. PICK i \in IdsAt(db, ServerOf[z], f.path) : db.assets[i].fp = f.fp
  BY DEF SameServerHasPath
<1>2. /\ db.assets[i] \in RowsOf(db) /\ db.assets[i].server = ServerOf[z]
      /\ db.assets[i].path = f.path
  BY <1>1 DEF IdsAt, RowsOf
<1>3. PICK y \in Sessions : RowOf(y, db.assets[i]) /\ OffersRow(y, db.assets[i])
  BY <1>2 DEF HistoryInv
<1>4. PICK g \in Offers[y] : IsFile(g, db.assets[i])
  BY <1>3 DEF OffersRow
<1>5. g.path = f.path
  BY <1>2, <1>4 DEF IsFile
<1>6. g.bundle = f.bundle
  BY <1>5, SameBundle
<1> QED
  BY <1>1, <1>2, <1>4, <1>6 DEF HasFile, IsFile

\* What was published last is there.
LEMMA PublishedHas ==
    ASSUME HistoryInv, NEW z \in Sessions, Offers[z] \subseteq published[ServerOf[z]],
           NEW f \in Offers[z]
    PROVE  Has(z, f)
BY SessionsAssumption DEF HistoryInv, Has

-----------------------------------------------------------------------------
=============================================================================
