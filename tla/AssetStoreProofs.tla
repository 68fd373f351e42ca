-------------------------- MODULE AssetStoreProofs --------------------------
(***************************************************************************)
(* Theorems about AssetStore: the read index against the history table,    *)
(* what readers see of the transactions (StoreRefinement), the bundle      *)
(* tables (BundleAggregates), and what the queries return.                 *)
(***************************************************************************)
EXTENDS StoreRefinement, BundleAggregates, SequenceTheorems, WellFoundedInduction, TLAPS

USE ZenonT(10), SMTT(30)

-----------------------------------------------------------------------------
(* Largest and smallest ids.                                               *)

\* A non-empty set of naturals has a least element, so ORDER BY id ASC
\* LIMIT 1 returns a row whenever the WHERE clause selects one.
LEMMA LeastNat ==
    ASSUME NEW S \in SUBSET Nat, S # {}
    PROVE  \E i \in S : \A j \in S : i <= j
<1>1. IsWellFoundedOn(OpToRel(<, Nat), Nat)
  BY NatLessThanWellFounded
<1>2. PICK i \in S : \A j \in S : ~(<<j, i>> \in OpToRel(<, Nat))
  BY <1>1, WFMin
<1>3. \A j \in S : ~(j < i)
  BY <1>2 DEF OpToRel
<1> QED
  BY <1>3

\* A non-empty bounded set of naturals has a largest element, so ORDER BY id
\* DESC LIMIT 1 returns a row whenever the WHERE clause selects one.
LEMMA LargestNat ==
    ASSUME NEW n \in Nat, NEW S \in SUBSET (1..n), S # {}
    PROVE  \E i \in S : \A j \in S : j <= i
<1> DEFINE T == {n - i : i \in S}
<1>a. \A i \in S : n - i \in Nat
  OBVIOUS
<1>1. T \in SUBSET Nat /\ T # {}
  BY <1>a
<1>2. PICK m \in T : \A k \in T : m <= k
  BY <1>1, LeastNat
<1>3. PICK i \in S : m = n - i
  OBVIOUS
<1>4. \A j \in S : n - i <= n - j
  BY <1>2, <1>3
<1> QED
  BY <1>4

\* What NewestOf returns: the row with the largest of the given ids.
LEMMA NewestIs ==
    ASSUME NEW d, d.assets \in Seq(Row),
           NEW ids \in SUBSET DOMAIN d.assets, ids # {}
    PROVE  \E i \in ids : /\ \A j \in ids : j <= i
                          /\ NewestOf(d, ids) = d.assets[i]
<1>1. DOMAIN d.assets = 1..Len(d.assets) /\ Len(d.assets) \in Nat
  BY LenProperties
<1>2. \E i \in ids : \A j \in ids : j <= i
  BY <1>1, LargestNat
<1> QED
  BY <1>2 DEF NewestOf

-----------------------------------------------------------------------------
(* The write operators, field by field.                                    *)

\* The upsert of the assets table keeps every other row, and the row a is in
\* the result.
LEMMA UpsertIs ==
    ASSUME NEW t \in Seq(Row), NEW a \in Row
    PROVE  /\ upsertAsset(t, a) \in Seq(Row)
           /\ DOMAIN t \subseteq DOMAIN upsertAsset(t, a)
           /\ \A i \in DOMAIN t :
                 upsertAsset(t, a)[i] = IF SameKey(t[i], a) THEN a ELSE t[i]
           /\ \A i \in DOMAIN upsertAsset(t, a) :
                 i \notin DOMAIN t => /\ upsertAsset(t, a)[i] = a
                                     /\ i = Len(t) + 1
           /\ \E i \in DOMAIN upsertAsset(t, a) : upsertAsset(t, a)[i] = a
<1>0. DOMAIN t = 1..Len(t) /\ Len(t) \in Nat /\ t \in [1..Len(t) -> Row]
  BY LenProperties
<1>1. CASE \E i \in DOMAIN t : SameKey(t[i], a)
  <2>1. upsertAsset(t, a) = [i \in 1..Len(t) |-> IF SameKey(t[i], a) THEN a ELSE t[i]]
    BY <1>0, <1>1 DEF upsertAsset
  <2>2. upsertAsset(t, a) \in [1..Len(t) -> Row]
    BY <1>0, <2>1
  <2>3. upsertAsset(t, a) \in Seq(Row)
    BY <1>0, <2>2, IsASeq
  <2> QED
    BY <1>0, <1>1, <2>1, <2>3
<1>2. CASE ~\E i \in DOMAIN t : SameKey(t[i], a)
  <2>1. upsertAsset(t, a) = Append(t, a)
    BY <1>2 DEF upsertAsset
  <2>2. /\ Append(t, a) \in Seq(Row)
        /\ Len(Append(t, a)) = Len(t) + 1
        /\ \A i \in 1..Len(t) : Append(t, a)[i] = t[i]
        /\ Append(t, a)[Len(t) + 1] = a
    BY AppendProperties
  <2>3. DOMAIN Append(t, a) = 1..(Len(t) + 1)
    BY <2>2, LenProperties
  <2> QED
    BY <1>0, <1>2, <2>1, <2>2, <2>3
<1> QED
  BY <1>1, <1>2

\* Upserts, InsertAsset's tail calls: what each table becomes.
LEMMA InsertAssetIs ==
    ASSUME NEW d \in Db, NEW a \in Row
    PROVE  /\ InsertAsset(d, a) \in Db
           /\ InsertAsset(d, a).assets = upsertAsset(d.assets, a)
           /\ InsertAsset(d, a).current =
                [d.current EXCEPT ![<<a.server, a.path>>] = a]
           /\ InsertAsset(d, a).currentShared =
                IF a.override THEN d.currentShared
                ELSE [d.currentShared EXCEPT ![a.path] = a]
           /\ InsertAsset(d, a).meta = d.meta
<1> DEFINE d1 == [d EXCEPT !.assets = upsertAsset(@, a)]
           d2 == upsertCurrentAsset(d1, a)
           d3 == IF a.override THEN d2 ELSE upsertCurrentSharedAsset(d2, a)
<1>1. upsertAsset(d.assets, a) \in Seq(Row)
  BY UpsertIs DEF Db
<1>2. a.server \in Servers /\ a.path \in Paths /\ a.override \in BOOLEAN
      /\ a.bundle \in Bundles \cup {NoBundle}
  BY DEF Row
<1>3. /\ d1 \in Db
      /\ d1.assets = upsertAsset(d.assets, a) /\ d1.current = d.current
      /\ d1.currentShared = d.currentShared /\ d1.meta = d.meta
  BY <1>1 DEF Db
<1>4. /\ d2 \in Db
      /\ d2.assets = d1.assets
      /\ d2.current = [d1.current EXCEPT ![<<a.server, a.path>>] = a]
      /\ d2.currentShared = d1.currentShared /\ d2.meta = d1.meta
  BY <1>2, <1>3 DEF Db, upsertCurrentAsset
<1>5. /\ d3 \in Db
      /\ d3.assets = d2.assets /\ d3.current = d2.current
      /\ d3.currentShared = IF a.override THEN d2.currentShared
                            ELSE [d2.currentShared EXCEPT ![a.path] = a]
      /\ d3.meta = d2.meta
  BY <1>2, <1>4 DEF Db, upsertCurrentSharedAsset
<1>6. \A b \in Bundles : SharedGroup(d3, b) \subseteq Row
  BY <1>5 DEF Db, SharedGroup
<1>7. \A s \in Servers, b \in Bundles : OverrideGroup(d3, s, b) \subseteq Row
  BY <1>5 DEF Db, OverrideGroup, IsOverride
<1>8. InsertAsset(d, a) = refreshBundleAggregates(d3, a)
  BY DEF InsertAsset
<1>9. /\ refreshBundleAggregates(d3, a) \in Db
      /\ refreshBundleAggregates(d3, a).assets = d3.assets
      /\ refreshBundleAggregates(d3, a).current = d3.current
      /\ refreshBundleAggregates(d3, a).currentShared = d3.currentShared
      /\ refreshBundleAggregates(d3, a).meta = d3.meta
  <2> HIDE DEF d3
  <2> QED
    BY <1>2, <1>5, <1>6, <1>7 DEF Db, refreshBundleAggregates
<1> HIDE DEF d1, d2, d3
<1> QED
  BY <1>3, <1>4, <1>5, <1>8, <1>9

\* The start-up rebuild, field by field.
LEMMA EnsureReadIndexesIs ==
    ASSUME NEW d \in Db
    PROVE  /\ EnsureReadIndexes(d) \in Db
           /\ EnsureReadIndexes(d).assets = d.assets
           /\ EnsureReadIndexes(d).meta = LatestAssetID(d)
           /\ d.meta = LatestAssetID(d) => EnsureReadIndexes(d) = d
           /\ d.meta # LatestAssetID(d) => IndexIsNewest(EnsureReadIndexes(d))
<1>1. CASE d.meta = LatestAssetID(d)
  BY <1>1 DEF EnsureReadIndexes
<1>2. CASE d.meta # LatestAssetID(d)
  <2> DEFINE cur == [sp \in Servers \X Paths |-> CurrentByServerPath(d, sp[1], sp[2])]
             shr == [p \in Paths |-> CurrentSharedByPath(d, p)]
             d1 == [d EXCEPT !.current = cur, !.currentShared = shr,
                             !.meta = LatestAssetID(d)]
             shb == [b \in Bundles |-> SharedGroup(d1, b)]
             ovb == [sb \in Servers \X Bundles |-> OverrideGroup(d1, sb[1], sb[2])]
             d2 == [d1 EXCEPT !.sharedBundles = shb, !.overrideBundles = ovb]
  <2>1. EnsureReadIndexes(d) = d2
    BY <1>2 DEF EnsureReadIndexes
  <2>2. d.assets \in Seq(Row) /\ LatestAssetID(d) \in Nat
    BY LenProperties DEF Db, LatestAssetID
  <2>3. \A ids \in SUBSET DOMAIN d.assets : NewestOf(d, ids) \in Row \cup {NoRow}
    <3> TAKE ids \in SUBSET DOMAIN d.assets
    <3>1. CASE ids = {}
      BY <3>1 DEF NewestOf
    <3>2. CASE ids # {}
      <4>1. PICK i \in ids : NewestOf(d, ids) = d.assets[i]
        BY <2>2, <3>2, NewestIs
      <4>2. d.assets[i] \in Row
        BY <2>2, ElementOfSeq, LenProperties
      <4> QED
        BY <4>1, <4>2
    <3> QED
      BY <3>1, <3>2
  <2>4. /\ cur \in [Servers \X Paths -> Row \cup {NoRow}]
        /\ shr \in [Paths -> Row \cup {NoRow}]
    BY <2>3 DEF CurrentByServerPath, CurrentSharedByPath, IdsAt, SharedIdsAt
  <2>5. /\ d1 \in Db
        /\ d1.assets = d.assets /\ d1.meta = LatestAssetID(d)
        /\ d1.current = cur /\ d1.currentShared = shr
    <3> HIDE DEF cur, shr
    <3> QED BY <2>2, <2>4 DEF Db
  <2>6. \A b \in Bundles : SharedGroup(d1, b) \subseteq Row
    <3> HIDE DEF d1
    <3> QED BY <2>5 DEF Db, SharedGroup
  <2>7. \A s \in Servers, b \in Bundles : OverrideGroup(d1, s, b) \subseteq Row
    <3> HIDE DEF d1
    <3> QED BY <2>5 DEF Db, OverrideGroup, IsOverride
  <2>8. /\ d2 \in Db
        /\ d2.assets = d1.assets /\ d2.meta = d1.meta
        /\ d2.current = d1.current /\ d2.currentShared = d1.currentShared
    <3>1. shb \in [Bundles -> SUBSET Row]
      BY <2>6
    <3>2. ovb \in [Servers \X Bundles -> SUBSET Row]
      <4> HIDE DEF d1
      <4> QED BY <2>7
    <3> HIDE DEF d1, shb, ovb
    <3> QED BY <2>5, <3>1, <3>2 DEF Db
  <2>9. IndexIsNewest(d2)
    <3>1. \A s, p : CurrentByServerPath(d2, s, p) = CurrentByServerPath(d, s, p)
      <4> HIDE DEF d1, d2
      <4> QED BY <2>5, <2>8 DEF CurrentByServerPath, NewestOf, IdsAt
    <3>2. \A p : CurrentSharedByPath(d2, p) = CurrentSharedByPath(d, p)
      <4> HIDE DEF d1, d2
      <4> QED BY <2>5, <2>8 DEF CurrentSharedByPath, NewestOf, SharedIdsAt
    <3>3. d2.current = cur /\ d2.currentShared = shr
      BY <2>5, <2>8
    <3>4. \A s \in Servers, p \in Paths : cur[<<s, p>>] = CurrentByServerPath(d, s, p)
      OBVIOUS
    <3>5. \A p \in Paths : shr[p] = CurrentSharedByPath(d, p)
      OBVIOUS
    <3> HIDE DEF d1, d2, cur, shr
    <3> QED BY <3>1, <3>2, <3>3, <3>4, <3>5 DEF IndexIsNewest
  <2> HIDE DEF d1, d2
  <2> QED
    BY <1>2, <2>1, <2>5, <2>8, <2>9
<1> QED
  BY <1>1, <1>2

-----------------------------------------------------------------------------
(* What the index predicates are preserved by.                             *)

\* InsertAsset keeps every current row backed by a row of assets.
LEMMA InsertKeepsCurrent ==
    ASSUME NEW d \in Db, NEW a \in Row, CurrentIndexed(d)
    PROVE  CurrentIndexed(InsertAsset(d, a))
<1> DEFINE e == InsertAsset(d, a)
<1>1. /\ e.assets = upsertAsset(d.assets, a)
      /\ e.current = [d.current EXCEPT ![<<a.server, a.path>>] = a]
  BY InsertAssetIs
<1>2. d.assets \in Seq(Row) /\ d.current \in [Servers \X Paths -> Row \cup {NoRow}]
  BY DEF Db
<1> HIDE DEF e
<1> SUFFICES ASSUME NEW s \in Servers, NEW p \in Paths
             PROVE  IF IdsAt(e, s, p) = {} THEN e.current[<<s, p>>] = NoRow
                    ELSE \E i \in IdsAt(e, s, p) : e.current[<<s, p>>] = e.assets[i]
  BY DEF CurrentIndexed, e
<1>3. CASE s = a.server /\ p = a.path
  <2>1. PICK i \in DOMAIN e.assets : e.assets[i] = a
    BY <1>1, <1>2, UpsertIs
  <2>2. i \in IdsAt(e, s, p)
    BY <1>3, <2>1 DEF IdsAt
  <2>3. e.current[<<s, p>>] = a
    BY <1>1, <1>2, <1>3
  <2> QED
    BY <2>1, <2>2, <2>3
<1>4. CASE ~(s = a.server /\ p = a.path)
  <2>1. e.current[<<s, p>>] = d.current[<<s, p>>]
    BY <1>1, <1>2, <1>4
  <2>2. \A i \in DOMAIN d.assets : ~SameKey(d.assets[i], a) => e.assets[i] = d.assets[i]
    BY <1>1, <1>2, UpsertIs
  <2>3. \A i \in DOMAIN d.assets : SameKey(d.assets[i], a) => e.assets[i] = a
    BY <1>1, <1>2, UpsertIs
  <2>4. \A i \in DOMAIN e.assets : i \notin DOMAIN d.assets => e.assets[i] = a
    BY <1>1, <1>2, UpsertIs
  <2>5. DOMAIN d.assets \subseteq DOMAIN e.assets
    BY <1>1, <1>2, UpsertIs
  <2>6. IdsAt(e, s, p) = IdsAt(d, s, p)
    BY <1>4, <2>2, <2>3, <2>4, <2>5 DEF IdsAt, SameKey
  <2>7. \A i \in IdsAt(d, s, p) : e.assets[i] = d.assets[i]
    BY <1>4, <2>2 DEF IdsAt, SameKey
  <2> QED
    BY <2>1, <2>6, <2>7 DEF CurrentIndexed
<1> QED
  BY <1>3, <1>4

\* InsertAsset keeps every path with a shared row indexed.
LEMMA InsertKeepsShared ==
    ASSUME NEW d \in Db, NEW a \in Row, SharedIndexed(d)
    PROVE  SharedIndexed(InsertAsset(d, a))
<1> DEFINE e == InsertAsset(d, a)
<1>1. /\ e.assets = upsertAsset(d.assets, a)
      /\ e.currentShared = IF a.override THEN d.currentShared
                           ELSE [d.currentShared EXCEPT ![a.path] = a]
  BY InsertAssetIs
<1>2. d.assets \in Seq(Row) /\ d.currentShared \in [Paths -> Row \cup {NoRow}]
  BY DEF Db
<1> HIDE DEF e
<1> SUFFICES ASSUME NEW p \in Paths, NEW i \in SharedIdsAt(e, p)
             PROVE  e.currentShared[p] # NoRow
  BY DEF SharedIndexed, e
<1>3. i \in DOMAIN e.assets /\ e.assets[i].path = p /\ ~e.assets[i].override
  BY DEF SharedIdsAt
<1>4. CASE e.assets[i] = a
  <2>1. e.currentShared[p] = a
    BY <1>1, <1>2, <1>3, <1>4
  <2> QED
    BY <2>1, NoRowAssumption
<1>5. CASE e.assets[i] # a
  <2>1. i \in DOMAIN d.assets /\ e.assets[i] = d.assets[i]
    BY <1>1, <1>2, <1>3, <1>5, UpsertIs
  <2>2. SharedIdsAt(d, p) # {}
    BY <1>3, <2>1 DEF SharedIdsAt
  <2>3. d.currentShared[p] # NoRow
    BY <2>2 DEF SharedIndexed
  <2> QED
    BY <1>1, <1>2, <2>3, NoRowAssumption
<1> QED
  BY <1>4, <1>5

\* An index rebuilt from the newest rows is backed by them.
LEMMA NewestIsIndexed ==
    ASSUME NEW d \in Db, IndexIsNewest(d)
    PROVE  CurrentIndexed(d) /\ SharedIndexed(d)
<1>1. d.assets \in Seq(Row)
  BY DEF Db
<1>2. CurrentIndexed(d)
  <2> SUFFICES ASSUME NEW s \in Servers, NEW p \in Paths
               PROVE  IF IdsAt(d, s, p) = {} THEN d.current[<<s, p>>] = NoRow
                      ELSE \E i \in IdsAt(d, s, p) : d.current[<<s, p>>] = d.assets[i]
    BY DEF CurrentIndexed
  <2>1. d.current[<<s, p>>] = NewestOf(d, IdsAt(d, s, p))
    BY DEF IndexIsNewest, CurrentByServerPath
  <2>2. CASE IdsAt(d, s, p) = {}
    BY <2>1, <2>2 DEF NewestOf
  <2>3. CASE IdsAt(d, s, p) # {}
    <3>1. IdsAt(d, s, p) \in SUBSET DOMAIN d.assets
      BY DEF IdsAt
    <3> QED
      BY <1>1, <2>1, <2>3, <3>1, NewestIs
  <2> QED
    BY <2>2, <2>3
<1>3. SharedIndexed(d)
  <2> SUFFICES ASSUME NEW p \in Paths, SharedIdsAt(d, p) # {}
               PROVE  d.currentShared[p] # NoRow
    BY DEF SharedIndexed
  <2>1. d.currentShared[p] = NewestOf(d, SharedIdsAt(d, p))
    BY DEF IndexIsNewest, CurrentSharedByPath
  <2>2. SharedIdsAt(d, p) \in SUBSET DOMAIN d.assets
    BY DEF SharedIdsAt
  <2>3. PICK i \in SharedIdsAt(d, p) : NewestOf(d, SharedIdsAt(d, p)) = d.assets[i]
    BY <1>1, <2>2, NewestIs
  <2>4. d.assets[i] \in Row
    BY <1>1, <2>2, ElementOfSeq, LenProperties
  <2> QED
    BY <2>1, <2>3, <2>4, NoRowAssumption
<1> QED
  BY <1>2, <1>3

-----------------------------------------------------------------------------
(* The inductive invariant.                                                *)

\* The other writes leave the asset tables alone.
LEMMA SmallWrites ==
    ASSUME NEW d \in Db
    PROVE  /\ \A s \in Servers, v \in Versions, h \in Hashes :
                 /\ InsertVersion(d, s, v, h) \in Db
                 /\ InsertVersion(d, s, v, h).assets = d.assets
                 /\ InsertVersion(d, s, v, h).current = d.current
                 /\ InsertVersion(d, s, v, h).currentShared = d.currentShared
                 /\ InsertVersion(d, s, v, h).meta = d.meta
           /\ \A c \in Completion :
                 /\ InsertBundleCompletion(d, c) \in Db
                 /\ InsertBundleCompletion(d, c).assets = d.assets
                 /\ InsertBundleCompletion(d, c).current = d.current
                 /\ InsertBundleCompletion(d, c).currentShared = d.currentShared
                 /\ InsertBundleCompletion(d, c).meta = d.meta
           /\ MarkReadIndexCurrent(d) \in Db
           /\ MarkReadIndexCurrent(d).assets = d.assets
           /\ MarkReadIndexCurrent(d).current = d.current
           /\ MarkReadIndexCurrent(d).currentShared = d.currentShared
           /\ MarkReadIndexCurrent(d).meta = LatestAssetID(d)
<1>1. LatestAssetID(d) \in Nat
  BY LenProperties DEF LatestAssetID, Db
<1>2. ASSUME NEW s \in Servers, NEW v \in Versions, NEW h \in Hashes
      PROVE  /\ InsertVersion(d, s, v, h) \in Db
             /\ InsertVersion(d, s, v, h).assets = d.assets
             /\ InsertVersion(d, s, v, h).current = d.current
             /\ InsertVersion(d, s, v, h).currentShared = d.currentShared
             /\ InsertVersion(d, s, v, h).meta = d.meta
  <2> DEFINE r == [version |-> v, hash |-> h]
             e == [d EXCEPT !.versions[s] = Append(@, r)]
  <2>1. r \in VersionRow /\ d.versions \in [Servers -> Seq(VersionRow)]
    BY DEF VersionRow, Db
  <2>2. Append(d.versions[s], r) \in Seq(VersionRow)
    BY <2>1, AppendProperties
  <2>3. e = [d EXCEPT !.versions = [d.versions EXCEPT ![s] = Append(d.versions[s], r)]]
    BY <2>1 DEF Db
  <2>4. [d.versions EXCEPT ![s] = Append(d.versions[s], r)] \in [Servers -> Seq(VersionRow)]
    BY <2>1, <2>2
  <2>5. e \in Db /\ e.assets = d.assets /\ e.current = d.current
        /\ e.currentShared = d.currentShared /\ e.meta = d.meta
    BY <2>3, <2>4 DEF Db
  <2> QED
    BY <2>5 DEF InsertVersion
<1>3. ASSUME NEW c \in Completion
      PROVE  /\ InsertBundleCompletion(d, c) \in Db
             /\ InsertBundleCompletion(d, c).assets = d.assets
             /\ InsertBundleCompletion(d, c).current = d.current
             /\ InsertBundleCompletion(d, c).currentShared = d.currentShared
             /\ InsertBundleCompletion(d, c).meta = d.meta
  BY DEF InsertBundleCompletion, Db
<1> QED
  BY <1>1, <1>2, <1>3 DEF MarkReadIndexCurrent, Db

\* The index predicates read only the three asset tables.
LEMMA IndexFrame ==
    ASSUME NEW d \in Db, NEW e \in Db, e.assets = d.assets,
           e.current = d.current, e.currentShared = d.currentShared
    PROVE  /\ CurrentIndexed(d) => CurrentIndexed(e)
           /\ SharedIndexed(d) => SharedIndexed(e)
           /\ LatestAssetID(e) = LatestAssetID(d)
<1>1. \A s, p : IdsAt(e, s, p) = IdsAt(d, s, p)
  BY DEF IdsAt
<1>2. \A p : SharedIdsAt(e, p) = SharedIdsAt(d, p)
  BY DEF SharedIdsAt
<1> QED
  BY <1>1, <1>2 DEF CurrentIndexed, SharedIndexed, LatestAssetID

\* At start-up the database is a legacy assets table with no index at all.
LEMMA InitInv == StoreInit => StoreInv
<1> SUFFICES ASSUME StoreInit PROVE StoreInv
  OBVIOUS
<1>1. PICK t \in LegacyTables \cup {<<>>} : db = [EmptyDb EXCEPT !.assets = t]
  BY DEF StoreInit
<1>2. t \in Seq(Row)
  BY LegacyAssumption, EmptySeq
<1>3. /\ db.assets = t /\ db.meta = 0
      /\ db.current = [sp \in Servers \X Paths |-> NoRow]
      /\ db.currentShared = [p \in Paths |-> NoRow]
  BY <1>1 DEF EmptyDb
<1>4. db \in Db
  <2>1. [s \in Servers |-> <<>>] \in [Servers -> Seq(VersionRow)]
    BY EmptySeq
  <2> QED
    BY <1>1, <1>2, <2>1 DEF EmptyDb, Db
<1>5. EmptyIndex(db)
  BY <1>3 DEF EmptyIndex
<1>6. ASSUME db.meta = LatestAssetID(db)
      PROVE  CurrentIndexed(db) /\ SharedIndexed(db)
  <2>1. Len(t) = 0 /\ DOMAIN t = {}
    BY <1>2, <1>3, <1>6, LenProperties DEF LatestAssetID
  <2>2. \A s \in Servers, p \in Paths : IdsAt(db, s, p) = {} /\ SharedIdsAt(db, p) = {}
    BY <1>3, <2>1 DEF IdsAt, SharedIdsAt
  <2>3. \A p \in Paths : SharedIdsAt(db, p) = {}
    BY <1>3, <2>1 DEF SharedIdsAt
  <2> QED
    BY <1>5, <2>2, <2>3 DEF CurrentIndexed, SharedIndexed, EmptyIndex
<1>7. tx = NoTx /\ work = db /\ up = FALSE
  BY DEF StoreInit
<1>8. StoreTypeOK
  BY <1>4, <1>7 DEF StoreTypeOK
<1> QED
  BY <1>5, <1>6, <1>7, <1>8 DEF StoreInv

\* The store without the bounds of StoreNext: any row and any completion, and
\* tables of any size.
StoreStep ==
    \/ \E s \in Servers, v \in Versions, h \in Hashes : Begin(s, v, h)
    \/ \E a \in Row : Put(a)
    \/ \E c \in Completion : Complete(c)
    \/ CommitTx
    \/ Rollback
    \/ Crash
    \/ Boot

StoreRun == StoreInit /\ [][StoreStep]_storeVars

\* Every step keeps the invariant: one step per action of StoreStep.
LEMMA StepInv == StoreInv /\ [StoreStep]_storeVars => StoreInv'
<1> SUFFICES ASSUME StoreInv, [StoreStep]_storeVars PROVE StoreInv'
  OBVIOUS
<1> USE DEF StoreInv
<1>0. db \in Db /\ work \in Db /\ up \in BOOLEAN
      /\ tx \in {NoTx} \cup (Servers \X Versions \X Hashes) /\ (tx = NoTx => work = db)
  BY DEF StoreTypeOK
<1>a. \A s, v, h : <<s, v, h>> # NoTx
  BY DEF NoTx
<1>1. ASSUME NEW s \in Servers, NEW v \in Versions, NEW h \in Hashes, Begin(s, v, h)
      PROVE  StoreInv'
  <2>1. /\ up /\ tx = NoTx /\ tx' = <<s, v, h>> /\ db' = db /\ up' = up
        /\ work' = InsertVersion(db, s, v, h)
    BY <1>1 DEF Begin
  <2>2. /\ work' \in Db /\ work'.assets = db.assets /\ work'.current = db.current
        /\ work'.currentShared = db.currentShared
    BY <1>0, <2>1, SmallWrites
  <2>3. CurrentIndexed(work') /\ SharedIndexed(work')
    BY <1>0, <2>1, <2>2, IndexFrame
  <2>4. OwnRowsOnly(tx[1])'
    BY <2>1, <2>2 DEF OwnRowsOnly
  <2>5. StoreTypeOK'
    BY <1>0, <1>a, <2>1, <2>2 DEF StoreTypeOK
  <2> QED
    BY <1>0, <1>a, <2>1, <2>3, <2>4, <2>5
<1>2. ASSUME NEW a \in Row, Put(a)
      PROVE  StoreInv'
  <2>1. /\ tx # NoTx /\ tx[1] = a.server /\ tx' = tx /\ db' = db /\ up' = up
        /\ work' = InsertAsset(work, a)
    BY <1>2, <1>a DEF Put
  <2>2. up /\ CurrentIndexed(work) /\ SharedIndexed(work)
    BY <1>a, <2>1
  <2>3. /\ work' \in Db
        /\ work'.current = [work.current EXCEPT ![<<a.server, a.path>>] = a]
        /\ work'.currentShared = IF a.override THEN work.currentShared
                                 ELSE [work.currentShared EXCEPT ![a.path] = a]
    BY <1>0, <2>1, InsertAssetIs
  <2>4. CurrentIndexed(work') /\ SharedIndexed(work')
    BY <1>0, <2>1, <2>2, InsertKeepsCurrent, InsertKeepsShared
  <2>5. a.server \in Servers /\ a.version \in Versions /\ a.path \in Paths
        /\ a.override \in BOOLEAN
    BY DEF Row
  <2>6. work.current \in [Servers \X Paths -> Row \cup {NoRow}]
        /\ work.currentShared \in [Paths -> Row \cup {NoRow}]
    BY <1>0 DEF Db
  <2>7. OwnRowsOnly(a.server)
    BY <2>1, <2>5
  <2>8. OwnRowsOnly(a.server)'
    <3> SUFFICES ASSUME NEW p \in Paths
                 PROVE  /\ \A o \in Servers \ {a.server} :
                             work'.current[<<o, p>>] = db.current[<<o, p>>]
                        /\ \/ work'.current[<<a.server, p>>] = db.current[<<a.server, p>>]
                           \/ Served(work', a.server, p)
      BY <2>1 DEF OwnRowsOnly
    <3>1. \A o \in Servers \ {a.server} : work'.current[<<o, p>>] = work.current[<<o, p>>]
      BY <2>3, <2>6
    <3>2. CASE p = a.path
      <4>1. work'.current[<<a.server, p>>] = a
        BY <2>3, <2>5, <2>6, <3>2
      <4>2. a.override \/ work'.currentShared[p] = a
        BY <2>3, <2>5, <2>6, <3>2
      <4> QED
        BY <2>7, <3>1, <4>1, <4>2, NoRowAssumption DEF OwnRowsOnly, Served
    <3>3. CASE p # a.path
      <4>1. /\ work'.current[<<a.server, p>>] = work.current[<<a.server, p>>]
            /\ work'.currentShared[p] = work.currentShared[p]
        BY <2>3, <2>5, <2>6, <3>3
      <4> QED
        BY <2>7, <3>1, <4>1 DEF OwnRowsOnly, Served
    <3> QED
      BY <3>2, <3>3
  <2>9. OwnRowsOnly(tx[1])'
    BY <2>1, <2>8
  <2>10. StoreTypeOK'
    BY <1>0, <1>a, <2>1, <2>3 DEF StoreTypeOK
  <2> QED
    BY <1>0, <2>1, <2>2, <2>4, <2>9, <2>10
<1>3. ASSUME NEW c \in Completion, Complete(c)
      PROVE  StoreInv'
  <2>1. /\ tx # NoTx /\ tx[1] = c.server /\ tx' = tx /\ db' = db /\ up' = up
        /\ work' = InsertBundleCompletion(work, c)
    BY <1>3, <1>a DEF Complete
  <2>2. /\ work' \in Db /\ work'.assets = work.assets /\ work'.current = work.current
        /\ work'.currentShared = work.currentShared
    BY <1>0, <2>1, SmallWrites
  <2>3. up /\ CurrentIndexed(work') /\ SharedIndexed(work')
    BY <1>0, <1>a, <2>1, <2>2, IndexFrame
  <2>4. OwnRowsOnly(tx[1])'
    BY <2>1, <2>2 DEF OwnRowsOnly, Served
  <2>5. StoreTypeOK'
    BY <1>0, <1>a, <2>1, <2>2 DEF StoreTypeOK
  <2> QED
    BY <1>0, <2>1, <2>3, <2>4, <2>5
<1>4. ASSUME CommitTx
      PROVE  StoreInv'
  <2>1. /\ tx # NoTx /\ tx' = NoTx /\ up' = up
        /\ work' = MarkReadIndexCurrent(work) /\ db' = work'
    BY <1>4 DEF CommitTx
  <2>2. /\ work' \in Db /\ work'.assets = work.assets /\ work'.current = work.current
        /\ work'.currentShared = work.currentShared
        /\ work'.meta = LatestAssetID(work)
    BY <1>0, <2>1, SmallWrites
  <2>3. /\ up /\ CurrentIndexed(work') /\ SharedIndexed(work')
        /\ LatestAssetID(work') = LatestAssetID(work)
    BY <1>0, <2>1, <2>2, IndexFrame
  <2>4. StoreTypeOK'
    BY <1>0, <2>1, <2>2 DEF StoreTypeOK
  <2> QED
    BY <1>a, <2>1, <2>2, <2>3, <2>4
<1>5. ASSUME Rollback \/ Crash
      PROVE  StoreInv'
  <2>1. /\ tx' = NoTx /\ db' = db /\ work' = db /\ up' \in BOOLEAN
        /\ (up' => up)
    BY <1>0, <1>5 DEF Rollback, Crash
  <2>2. StoreTypeOK'
    BY <1>0, <2>1 DEF StoreTypeOK
  <2> QED
    BY <1>a, <2>1, <2>2
<1>6. ASSUME Boot
      PROVE  StoreInv'
  <2>1. ~up /\ up' = TRUE /\ tx' = tx /\ db' = EnsureReadIndexes(db) /\ work' = db'
    BY <1>6 DEF Boot
  <2>2. tx = NoTx
    BY <2>1
  <2>3. db' \in Db /\ db'.assets = db.assets /\ db'.meta = LatestAssetID(db)
    BY <1>0, <2>1, EnsureReadIndexesIs
  <2>4. LatestAssetID(db') = db'.meta
    BY <2>3 DEF LatestAssetID
  <2>5. CurrentIndexed(db') /\ SharedIndexed(db')
    <3>1. CASE db.meta = LatestAssetID(db)
      BY <1>0, <2>1, <3>1, EnsureReadIndexesIs
    <3>2. CASE db.meta # LatestAssetID(db)
      BY <1>0, <2>1, <2>3, <3>2, EnsureReadIndexesIs, NewestIsIndexed
    <3> QED
      BY <3>1, <3>2
  <2>6. StoreTypeOK'
    BY <1>0, <2>1, <2>2, <2>3 DEF StoreTypeOK
  <2> QED
    BY <1>a, <2>1, <2>2, <2>4, <2>5, <2>6
<1>7. CASE UNCHANGED storeVars
  BY <1>7 DEF storeVars, StoreTypeOK, OwnRowsOnly
<1> QED
  BY <1>1, <1>2, <1>3, <1>4, <1>5, <1>6, <1>7 DEF StoreStep

\* The bounded step is a step.
LEMMA NextIsStep == [StoreNext]_storeVars => [StoreStep]_storeVars
BY InputsAssumption DEF StoreNext, StoreStep

\* The bounded step keeps the invariant.
LEMMA NextInv == StoreInv /\ [StoreNext]_storeVars => StoreInv'
BY StepInv, NextIsStep

\* The specification the runs check is a special case of StoreRun, so what is
\* proved of StoreRun holds of it.
THEOREM BoundedRun == StoreSpec => StoreRun
BY NextIsStep, PTL DEF StoreSpec, StoreRun

\* The inductive invariant holds in every reachable state of the store,
\* whatever commits, rollbacks, crashes and restarts happen.
THEOREM StoreInvariant == StoreRun => []StoreInv
<1> QED
  BY InitInv, StepInv, PTL DEF StoreRun

\* Both views of the database stay well-formed (the typed columns of the
\* schema, and no uncommitted rows outside a transaction).
THEOREM StoreTyped == StoreRun => []StoreTypeOK
<1>1. StoreInv => StoreTypeOK
  BY DEF StoreInv
<1> QED
  BY <1>1, StoreInvariant, PTL

\* While the gateway runs, the index tables InsertAsset maintains are backed
\* by the history table, for any number of regions, paths and commits.
THEOREM StoreIndexBacked == StoreRun => []IndexBacked
<1>1. StoreInv => IndexBacked
  BY DEF StoreInv, IndexBacked
<1> QED
  BY <1>1, StoreInvariant, PTL

-----------------------------------------------------------------------------
(* The read path.                                                          *)

\* A maintained index answers from its two tables alone: the fallback of
\* LookupPlacement finds nothing that they lack.
LEMMA IndexedLookup ==
    ASSUME NEW d \in Db, CurrentIndexed(d), SharedIndexed(d),
           NEW s \in Servers, NEW p \in Paths
    PROVE  /\ LookupPlacement(d, s, p) =
                IF IsOverride(d.current[<<s, p>>])
                THEN [row |-> d.current[<<s, p>>], shared |-> FALSE]
                ELSE IF d.currentShared[p] # NoRow
                THEN [row |-> d.currentShared[p], shared |-> TRUE] ELSE NotFound
           /\ d.currentShared[p] = NoRow => CurrentSharedByPath(d, p) = NoRow
<1>1. d.currentShared[p] = NoRow => CurrentSharedByPath(d, p) = NoRow
  BY DEF SharedIndexed, CurrentSharedByPath, NewestOf
<1>2. ASSUME d.currentShared[p] = NoRow, ~IsOverride(d.current[<<s, p>>])
      PROVE  CurrentByServerPath(d, s, p) = NoRow
  <2>1. SUFFICES ASSUME IdsAt(d, s, p) # {} PROVE FALSE
    BY DEF CurrentByServerPath, NewestOf
  <2>2. PICK i \in IdsAt(d, s, p) : d.current[<<s, p>>] = d.assets[i]
    BY <2>1 DEF CurrentIndexed
  <2>3. i \in DOMAIN d.assets /\ d.assets[i].path = p /\ d.assets[i] \in Row
    BY ElementOfSeq, LenProperties DEF IdsAt, Db
  <2>4. ~d.assets[i].override
    BY <1>2, <2>2, <2>3, NoRowAssumption DEF IsOverride
  <2>5. i \in SharedIdsAt(d, p)
    BY <2>3, <2>4 DEF SharedIdsAt
  <2> QED
    BY <1>2, <2>5 DEF SharedIndexed
<1>3. CASE IsOverride(d.current[<<s, p>>])
  BY <1>1, <1>3 DEF LookupPlacement
<1>4. CASE ~IsOverride(d.current[<<s, p>>]) /\ d.currentShared[p] # NoRow
  BY <1>4 DEF LookupPlacement
<1>5. CASE ~IsOverride(d.current[<<s, p>>]) /\ d.currentShared[p] = NoRow
  <2>1. ~IsOverride(CurrentByServerPath(d, s, p)) /\ CurrentSharedByPath(d, p) = NoRow
    BY <1>1, <1>2, <1>5 DEF IsOverride
  <2> QED
    BY <1>5, <2>1 DEF LookupPlacement
<1> QED
  BY <1>3, <1>4, <1>5

\* An indexed database answers every path its region has rows for.
LEMMA IndexedAnswers ==
    ASSUME NEW d \in Db, CurrentIndexed(d), SharedIndexed(d),
           NEW s \in Servers, NEW p \in Paths, IdsAt(d, s, p) # {}
    PROVE  LookupPlacement(d, s, p).row # NoRow
<1>1. PICK i \in IdsAt(d, s, p) : d.current[<<s, p>>] = d.assets[i]
  BY DEF CurrentIndexed
<1>2. i \in DOMAIN d.assets /\ d.assets[i].path = p /\ d.assets[i] \in Row
  BY ElementOfSeq, LenProperties DEF IdsAt, Db
<1>3. d.current[<<s, p>>] # NoRow
  BY <1>1, <1>2, NoRowAssumption
<1>4. CASE d.assets[i].override
  BY <1>1, <1>3, <1>4 DEF LookupPlacement, IsOverride
<1>5. CASE ~d.assets[i].override
  <2>1. SharedIdsAt(d, p) # {}
    BY <1>2, <1>5 DEF SharedIdsAt
  <2>2. d.currentShared[p] # NoRow
    BY <2>1 DEF SharedIndexed
  <2> QED
    BY <1>1, <1>5, <2>2 DEF LookupPlacement, IsOverride
<1> QED
  BY <1>4, <1>5

\* A database without an index answers from the assets table.
LEMMA FallbackAnswers ==
    ASSUME NEW d \in Db, EmptyIndex(d),
           NEW s \in Servers, NEW p \in Paths, IdsAt(d, s, p) # {}
    PROVE  LookupPlacement(d, s, p).row # NoRow
<1>1. d.assets \in Seq(Row) /\ IdsAt(d, s, p) \in SUBSET DOMAIN d.assets
      /\ SharedIdsAt(d, p) \in SUBSET DOMAIN d.assets
  BY DEF Db, IdsAt, SharedIdsAt
<1>2. \A i \in DOMAIN d.assets : d.assets[i] \in Row
  BY <1>1, ElementOfSeq, LenProperties
<1>3. PICK i \in IdsAt(d, s, p) : CurrentByServerPath(d, s, p) = d.assets[i]
  BY <1>1, NewestIs DEF CurrentByServerPath
<1>4. d.assets[i] # NoRow /\ d.assets[i].path = p
  BY <1>1, <1>2, NoRowAssumption DEF IdsAt
<1>5. d.current[<<s, p>>] = NoRow /\ d.currentShared[p] = NoRow
  BY DEF EmptyIndex
<1>6. CASE d.assets[i].override
  BY <1>3, <1>4, <1>5, <1>6 DEF LookupPlacement, IsOverride
<1>7. CASE ~d.assets[i].override
  <2>1. i \in SharedIdsAt(d, p)
    BY <1>1, <1>4, <1>7 DEF SharedIdsAt
  <2>2. PICK j \in SharedIdsAt(d, p) : CurrentSharedByPath(d, p) = d.assets[j]
    BY <1>1, <2>1, NewestIs DEF CurrentSharedByPath
  <2>3. CurrentSharedByPath(d, p) # NoRow
    BY <1>1, <1>2, <2>2, NoRowAssumption
  <2> QED
    BY <1>3, <1>5, <1>7, <2>3 DEF LookupPlacement, IsOverride
<1> QED
  BY <1>6, <1>7

\* No false 404, for every database: a region that committed a row for a path
\* resolves it, before the backfill, after it and after every commit.
THEOREM StoreNoFalse404 == StoreRun => []NoFalse404
<1>1. StoreInv => NoFalse404
  <2> SUFFICES ASSUME StoreInv, NEW s \in Servers, NEW p \in Paths,
                      IdsAt(db, s, p) # {}
               PROVE  LookupPlacement(db, s, p).row # NoRow
    BY DEF NoFalse404
  <2>1. db \in Db
    BY DEF StoreInv, StoreTypeOK
  <2> QED
    BY <2>1, IndexedAnswers, FallbackAnswers DEF StoreInv
<1> QED
  BY <1>1, StoreInvariant, PTL

\* Restarts change no answer: a maintained index is kept as it is, and a
\* rebuilt one answers what the fallback answered.
THEOREM StoreBootPreservesReads == StoreRun => BootPreservesReads
<1> DEFINE Same == ~up /\ up' => \A s \in Servers, p \in Paths :
                      LookupPlacement(db', s, p) = LookupPlacement(db, s, p)
<1>1. StoreInv /\ [StoreStep]_storeVars => [Same]_storeVars
  <2> SUFFICES ASSUME StoreInv, [StoreStep]_storeVars, ~up, up',
                      NEW s \in Servers, NEW p \in Paths
               PROVE  LookupPlacement(db', s, p) = LookupPlacement(db, s, p)
    OBVIOUS
  <2>0. db \in Db /\ tx = NoTx
    BY DEF StoreInv, StoreTypeOK
  <2>1. db' = EnsureReadIndexes(db)
    <3>1. Boot
      BY <2>0 DEF StoreStep, storeVars, Begin, Put, Complete, CommitTx,
                  Rollback, Crash, NoTx
    <3> QED
      BY <3>1 DEF Boot
  <2>2. CASE db.meta = LatestAssetID(db)
    BY <2>0, <2>1, <2>2, EnsureReadIndexesIs
  <2>3. CASE db.meta # LatestAssetID(db)
    <3>1. IndexIsNewest(db') /\ db'.assets = db.assets
      BY <2>0, <2>1, <2>3, EnsureReadIndexesIs
    <3>2. EmptyIndex(db)
      BY <2>3 DEF StoreInv
    <3>3. /\ CurrentByServerPath(db', s, p) = CurrentByServerPath(db, s, p)
          /\ CurrentSharedByPath(db', p) = CurrentSharedByPath(db, p)
      BY <3>1 DEF CurrentByServerPath, CurrentSharedByPath, NewestOf, IdsAt, SharedIdsAt
    <3>4. /\ db'.current[<<s, p>>] = CurrentByServerPath(db, s, p)
          /\ db'.currentShared[p] = CurrentSharedByPath(db, p)
      BY <3>1, <3>3 DEF IndexIsNewest
    <3>5. db.current[<<s, p>>] = NoRow /\ db.currentShared[p] = NoRow
      BY <3>2 DEF EmptyIndex
    <3> QED
      BY <3>3, <3>4, <3>5 DEF LookupPlacement, IsOverride
  <2> QED
    BY <2>2, <2>3
<1> QED
  BY <1>1, StoreInvariant, PTL DEF StoreRun, BootPreservesReads

\* Only a commit changes db while a transaction is open.
LEMMA CommitOnly ==
    ASSUME StoreInv, [StoreStep]_storeVars, tx # NoTx, db' # db
    PROVE  db' = MarkReadIndexCurrent(work)
<1>1. up
  BY DEF StoreInv
<1> QED
  BY <1>1 DEF StoreStep, storeVars, Begin, Put, Complete, CommitTx, Rollback,
              Crash, Boot

\* A region reads its own commit, for every interleaving of commits.
THEOREM StoreReadYourCommit == StoreRun => ReadYourCommit
<1> DEFINE Own == \A s \in Servers, p \in Paths :
                    (tx # NoTx /\ tx[1] = s /\ db'.current[<<s, p>>] # db.current[<<s, p>>])
                    => LookupPlacement(db', s, p).row = db'.current[<<s, p>>]
<1>1. StoreInv /\ [StoreStep]_storeVars => [Own]_storeVars
  <2> SUFFICES ASSUME StoreInv, [StoreStep]_storeVars,
                      NEW s \in Servers, NEW p \in Paths,
                      tx # NoTx, tx[1] = s, db'.current[<<s, p>>] # db.current[<<s, p>>]
               PROVE  LookupPlacement(db', s, p).row = db'.current[<<s, p>>]
    OBVIOUS
  <2>1. db' = MarkReadIndexCurrent(work)
    BY CommitOnly
  <2>2. work \in Db /\ OwnRowsOnly(s)
    BY DEF StoreInv, StoreTypeOK
  <2>3. db'.current = work.current /\ db'.currentShared = work.currentShared
    BY <2>1, <2>2, SmallWrites
  <2>4. Served(work, s, p)
    BY <2>2, <2>3 DEF OwnRowsOnly
  <2> QED
    BY <2>3, <2>4 DEF Served, LookupPlacement, IsOverride
<1> QED
  BY <1>1, StoreInvariant, PTL DEF StoreRun, ReadYourCommit

\* An override shields its region from every other region's commits.
THEOREM StoreOverrideShields == StoreRun => OverrideShields
<1> DEFINE Shield == \A s \in Servers, p \in Paths :
                       (up /\ up' /\ IsOverride(db.current[<<s, p>>])
                        /\ tx # NoTx /\ tx[1] # s)
                       => LookupPlacement(db', s, p) = LookupPlacement(db, s, p)
<1>1. StoreInv /\ [StoreStep]_storeVars => [Shield]_storeVars
  <2> SUFFICES ASSUME StoreInv, [StoreStep]_storeVars,
                      NEW s \in Servers, NEW p \in Paths,
                      IsOverride(db.current[<<s, p>>]), tx # NoTx, tx[1] # s,
                      db' # db
               PROVE  LookupPlacement(db', s, p) = LookupPlacement(db, s, p)
    OBVIOUS
  <2>1. db' = MarkReadIndexCurrent(work)
    BY CommitOnly
  <2>3. work \in Db /\ OwnRowsOnly(tx[1]) /\ tx[1] # s
    BY DEF StoreInv, StoreTypeOK
  <2>4. db'.current = work.current
    BY <2>1, <2>3, SmallWrites
  <2>5. work.current[<<s, p>>] = db.current[<<s, p>>]
    BY <2>3 DEF OwnRowsOnly
  <2> QED
    BY <2>4, <2>5 DEF LookupPlacement, IsOverride
<1> QED
  BY <1>1, StoreInvariant, PTL DEF StoreRun, OverrideShields

-----------------------------------------------------------------------------
(* The index against a rebuild.                                            *)

LEMMA NewestAt ==
    ASSUME NEW d, d.assets \in Seq(Row), NEW ids \in SUBSET DOMAIN d.assets,
           NEW n \in ids, \A j \in ids : j <= n
    PROVE  NewestOf(d, ids) = d.assets[n]
<1>1. PICK i \in ids : (\A j \in ids : j <= i) /\ NewestOf(d, ids) = d.assets[i]
  BY NewestIs
<1>2. i \in Nat /\ n \in Nat
  BY LenProperties
<1>3. i = n
  BY <1>1, <1>2
<1> QED
  BY <1>1, <1>3

LEMMA NewestSame ==
    ASSUME NEW d, NEW e, d.assets \in Seq(Row), NEW ids \in SUBSET DOMAIN d.assets,
           \A i \in ids : e.assets[i] = d.assets[i]
    PROVE  NewestOf(e, ids) = NewestOf(d, ids)
<1>1. CASE ids = {}
  BY <1>1 DEF NewestOf
<1>2. CASE ids # {}
  <2>1. PICK i \in ids : \A j \in ids : j <= i
    BY <1>2, NewestIs
  <2>2. (CHOOSE k \in ids : \A j \in ids : j <= k) \in ids
    BY <2>1
  <2> QED
    BY <1>2, <2>2 DEF NewestOf
<1> QED
  BY <1>1, <1>2

\* Row a lands at id n of table t, where it refreshes d.
LandsAt(d, a, t, n) ==
    /\ n \in DOMAIN t /\ t[n] = a
    /\ DOMAIN t = DOMAIN d.assets \cup {n}
    /\ \A j \in DOMAIN d.assets : j # n => t[j] = d.assets[j]
    /\ \A j \in IdsAt(d, a.server, a.path) : j <= n
    /\ ~a.override => \A j \in SharedIdsAt(d, a.path) : j <= n
    /\ n \in DOMAIN d.assets => /\ SameKey(d.assets[n], a)
                               /\ (a.override => d.assets[n].override)

LEMMA UpsertAt ==
    ASSUME NEW d \in Db, NEW a \in Row, Refreshes(d, a)
    PROVE  \E n : LandsAt(d, a, upsertAsset(d.assets, a), n)
<1> DEFINE t == d.assets
           u == upsertAsset(d.assets, a)
<1>0. t \in Seq(Row) /\ DOMAIN t = 1..Len(t) /\ Len(t) \in Nat
  BY LenProperties DEF Db
<1>1. CASE \E i \in DOMAIN t : SameKey(t[i], a)
  <2>1. PICK n \in DOMAIN t : SameKey(t[n], a)
    BY <1>1
  <2>2. u = [i \in DOMAIN t |-> IF SameKey(t[i], a) THEN a ELSE t[i]]
    BY <1>1 DEF upsertAsset
  <2>3. \A j \in DOMAIN t : SameKey(t[j], a) => j = n
    <3> TAKE j \in DOMAIN t
    <3> HAVE SameKey(t[j], a)
    <3>1. j \in IdsAt(d, a.server, a.path) /\ n \in IdsAt(d, a.server, a.path)
      BY <2>1 DEF SameKey, IdsAt
    <3>2. j <= n /\ n <= j
      BY <2>1, <3>1 DEF Refreshes
    <3> QED
      BY <1>0, <3>2
  <2>4. /\ \A j \in IdsAt(d, a.server, a.path) : j <= n
        /\ IF a.override THEN t[n].override ELSE \A j \in SharedIdsAt(d, a.path) : j <= n
    BY <2>1 DEF Refreshes
  <2>5. DOMAIN u = DOMAIN t /\ u[n] = a /\ \A j \in DOMAIN t : j # n => u[j] = t[j]
    BY <2>1, <2>2, <2>3
  <2> HIDE DEF u
  <2>6. LandsAt(d, a, u, n)
    BY <2>1, <2>4, <2>5 DEF LandsAt
  <2> QED
    BY <2>6 DEF u
<1>2. CASE ~\E i \in DOMAIN t : SameKey(t[i], a)
  <2> DEFINE n == Len(t) + 1
  <2>1. u = Append(t, a)
    BY <1>2 DEF upsertAsset
  <2>2. /\ DOMAIN u = 1..n /\ u[n] = a
        /\ \A j \in DOMAIN t : u[j] = t[j]
    BY <1>0, <2>1, AppendProperties, LenProperties
  <2>3. \A j \in DOMAIN t : j <= n /\ n \notin DOMAIN t
    BY <1>0
  <2>4. IdsAt(d, a.server, a.path) \subseteq DOMAIN t /\ SharedIdsAt(d, a.path) \subseteq DOMAIN t
    BY DEF IdsAt, SharedIdsAt
  <2>5. n \in DOMAIN u /\ DOMAIN u = DOMAIN t \cup {n} /\ n \notin DOMAIN t
    BY <1>0, <2>2
  <2> HIDE DEF u, n
  <2>6. LandsAt(d, a, u, n)
    BY <2>2, <2>3, <2>4, <2>5 DEF LandsAt
  <2> QED
    BY <2>6 DEF u
<1> QED
  BY <1>1, <1>2

\* A row that refreshes the table becomes the newest one where the index says so.
LEMMA InsertKeepsNewest ==
    ASSUME NEW d \in Db, NEW a \in Row, IndexIsNewest(d), Refreshes(d, a)
    PROVE  IndexIsNewest(InsertAsset(d, a))
<1> DEFINE e == InsertAsset(d, a)
<1>1. /\ e \in Db /\ e.assets = upsertAsset(d.assets, a)
      /\ e.current = [d.current EXCEPT ![<<a.server, a.path>>] = a]
      /\ e.currentShared = IF a.override THEN d.currentShared
                           ELSE [d.currentShared EXCEPT ![a.path] = a]
  BY InsertAssetIs
<1> HIDE DEF e
<1> PICK n : LandsAt(d, a, e.assets, n)
  BY <1>1, UpsertAt
<1>2. /\ n \in DOMAIN e.assets /\ e.assets[n] = a
      /\ DOMAIN e.assets = DOMAIN d.assets \cup {n}
      /\ \A j \in DOMAIN d.assets : j # n => e.assets[j] = d.assets[j]
      /\ \A j \in IdsAt(d, a.server, a.path) : j <= n
      /\ ~a.override => \A j \in SharedIdsAt(d, a.path) : j <= n
      /\ n \in DOMAIN d.assets => /\ SameKey(d.assets[n], a)
                                 /\ (a.override => d.assets[n].override)
  BY DEF LandsAt
<1>3. /\ d.assets \in Seq(Row) /\ e.assets \in Seq(Row) /\ n \in Nat
      /\ d.current \in [Servers \X Paths -> Row \cup {NoRow}]
      /\ d.currentShared \in [Paths -> Row \cup {NoRow}]
      /\ a.server \in Servers /\ a.path \in Paths /\ a.override \in BOOLEAN
  <2>1. d.assets \in Seq(Row) /\ e.assets \in Seq(Row)
    BY <1>1 DEF Db
  <2>2. n \in Nat
    BY <1>2, <2>1, LenProperties
  <2> QED
    BY <2>1, <2>2 DEF Db, Row
<1>4. ASSUME NEW s \in Servers, NEW p \in Paths
      PROVE  e.current[<<s, p>>] = CurrentByServerPath(e, s, p)
  <2>1. CASE s = a.server /\ p = a.path
    <3>1. n \in IdsAt(e, s, p)
      BY <1>2, <2>1 DEF IdsAt
    <3>2. \A j \in IdsAt(e, s, p) : j = n \/ j \in IdsAt(d, s, p)
      BY <1>2 DEF IdsAt
    <3>3. \A j \in IdsAt(e, s, p) : j <= n
      BY <1>2, <1>3, <2>1, <3>2
    <3>4. IdsAt(e, s, p) \in SUBSET DOMAIN e.assets
      BY DEF IdsAt
    <3>5. CurrentByServerPath(e, s, p) = a
      BY <1>2, <1>3, <3>1, <3>3, <3>4, NewestAt DEF CurrentByServerPath
    <3> QED
      BY <1>1, <1>3, <2>1, <3>5
  <2>2. CASE ~(s = a.server /\ p = a.path)
    <3>1. IdsAt(e, s, p) = IdsAt(d, s, p) /\ n \notin IdsAt(d, s, p)
      <4>1. n \notin IdsAt(e, s, p) /\ n \notin IdsAt(d, s, p)
        BY <1>2, <2>2 DEF IdsAt, SameKey
      <4>2. \A j : j # n => (j \in IdsAt(e, s, p) <=> j \in IdsAt(d, s, p))
        BY <1>2 DEF IdsAt
      <4> QED
        BY <4>1, <4>2
    <3>2. IdsAt(d, s, p) \in SUBSET DOMAIN d.assets
      BY DEF IdsAt
    <3>3. \A i \in IdsAt(d, s, p) : e.assets[i] = d.assets[i]
      BY <1>2, <3>1, <3>2
    <3>4. CurrentByServerPath(e, s, p) = CurrentByServerPath(d, s, p)
      <4>1. NewestOf(e, IdsAt(d, s, p)) = NewestOf(d, IdsAt(d, s, p))
        BY <1>3, <3>2, <3>3, NewestSame
      <4> QED
        BY <3>1, <4>1 DEF CurrentByServerPath
    <3>5. e.current[<<s, p>>] = d.current[<<s, p>>]
      BY <1>1, <1>3, <2>2
    <3> QED
      BY <3>4, <3>5 DEF IndexIsNewest
  <2> QED
    BY <2>1, <2>2
<1>5. ASSUME NEW p \in Paths
      PROVE  e.currentShared[p] = CurrentSharedByPath(e, p)
  <2>1. CASE p = a.path /\ ~a.override
    <3>1. n \in SharedIdsAt(e, p)
      BY <1>2, <2>1 DEF SharedIdsAt
    <3>2. \A j \in SharedIdsAt(e, p) : j = n \/ j \in SharedIdsAt(d, p)
      BY <1>2 DEF SharedIdsAt
    <3>3. \A j \in SharedIdsAt(e, p) : j <= n
      BY <1>2, <1>3, <2>1, <3>2
    <3>4. SharedIdsAt(e, p) \in SUBSET DOMAIN e.assets
      BY DEF SharedIdsAt
    <3>5. CurrentSharedByPath(e, p) = a
      BY <1>2, <1>3, <3>1, <3>3, <3>4, NewestAt DEF CurrentSharedByPath
    <3> QED
      BY <1>1, <1>3, <2>1, <3>5
  <2>2. CASE ~(p = a.path /\ ~a.override)
    <3>1. SharedIdsAt(e, p) = SharedIdsAt(d, p) /\ n \notin SharedIdsAt(d, p)
      <4>1. n \notin SharedIdsAt(e, p) /\ n \notin SharedIdsAt(d, p)
        BY <1>2, <2>2 DEF SharedIdsAt, SameKey
      <4>2. \A j : j # n => (j \in SharedIdsAt(e, p) <=> j \in SharedIdsAt(d, p))
        BY <1>2 DEF SharedIdsAt
      <4> QED
        BY <4>1, <4>2
    <3>2. SharedIdsAt(d, p) \in SUBSET DOMAIN d.assets
      BY DEF SharedIdsAt
    <3>3. \A i \in SharedIdsAt(d, p) : e.assets[i] = d.assets[i]
      BY <1>2, <3>1, <3>2
    <3>4. CurrentSharedByPath(e, p) = CurrentSharedByPath(d, p)
      <4>1. NewestOf(e, SharedIdsAt(d, p)) = NewestOf(d, SharedIdsAt(d, p))
        BY <1>3, <3>2, <3>3, NewestSame
      <4> QED
        BY <3>1, <4>1 DEF CurrentSharedByPath
    <3>5. e.currentShared[p] = d.currentShared[p]
      BY <1>1, <1>3, <2>2
    <3> QED
      BY <3>4, <3>5 DEF IndexIsNewest
  <2> QED
    BY <2>1, <2>2
<1> QED
  BY <1>4, <1>5 DEF IndexIsNewest, e

LEMMA NewestFrame ==
    ASSUME NEW d \in Db, NEW e \in Db, e.assets = d.assets,
           e.current = d.current, e.currentShared = d.currentShared, IndexIsNewest(d)
    PROVE  IndexIsNewest(e)
<1>1. \A s, p : CurrentByServerPath(e, s, p) = CurrentByServerPath(d, s, p)
  BY DEF CurrentByServerPath, NewestOf, IdsAt
<1>2. \A p : CurrentSharedByPath(e, p) = CurrentSharedByPath(d, p)
  BY DEF CurrentSharedByPath, NewestOf, SharedIdsAt
<1> QED
  BY <1>1, <1>2 DEF IndexIsNewest

\* A maintained index, committed or in the open transaction, is the one that a
\* rebuild would make.
ExactInv ==
    /\ db.meta = LatestAssetID(db) => IndexIsNewest(db)
    /\ tx # NoTx => IndexIsNewest(work)

LEMMA ExactInit == StoreInit => ExactInv
<1> SUFFICES ASSUME StoreInit, db.meta = LatestAssetID(db) PROVE IndexIsNewest(db)
  BY DEF StoreInit, ExactInv
<1>1. PICK t \in LegacyTables \cup {<<>>} : db = [EmptyDb EXCEPT !.assets = t]
  BY DEF StoreInit
<1>2. t \in Seq(Row)
  BY LegacyAssumption, EmptySeq
<1>3. /\ db.assets = t /\ db.meta = 0
      /\ db.current = [sp \in Servers \X Paths |-> NoRow]
      /\ db.currentShared = [p \in Paths |-> NoRow]
  BY <1>1 DEF EmptyDb
<1>4. DOMAIN t = {}
  BY <1>2, <1>3, LenProperties DEF LatestAssetID
<1>5. \A s, p : IdsAt(db, s, p) = {} /\ SharedIdsAt(db, p) = {}
  BY <1>3, <1>4 DEF IdsAt, SharedIdsAt
<1>6. \A s \in Servers, p \in Paths : db.current[<<s, p>>] = NoRow /\ db.currentShared[p] = NoRow
  BY <1>3
<1> QED
  BY <1>3, <1>5, <1>6 DEF IndexIsNewest, CurrentByServerPath, CurrentSharedByPath, NewestOf

\* One step per action of StoreStep.
LEMMA ExactStep ==
    ASSUME StoreInv, ExactInv, [StoreStep]_storeVars,
           [(\E a \in Row : Put(a)) => \E a \in Row : Put(a) /\ Refreshes(work, a)]_storeVars
    PROVE  ExactInv'
<1>0. /\ db \in Db /\ work \in Db /\ (up => db.meta = LatestAssetID(db)) /\ (tx # NoTx => up)
  BY DEF StoreInv, StoreTypeOK
<1>1. ASSUME NEW s \in Servers, NEW v \in Versions, NEW h \in Hashes, Begin(s, v, h)
      PROVE  ExactInv'
  <2>1. up /\ db' = db /\ work' = InsertVersion(db, s, v, h)
    BY <1>1 DEF Begin
  <2>2. /\ work' \in Db /\ work'.assets = db.assets /\ work'.current = db.current
        /\ work'.currentShared = db.currentShared
    BY <1>0, <2>1, SmallWrites
  <2>3. IndexIsNewest(work')
    BY <1>0, <2>1, <2>2, NewestFrame DEF ExactInv
  <2> QED
    BY <2>1, <2>3 DEF ExactInv
<1>2. ASSUME \E a \in Row : Put(a)
      PROVE  ExactInv'
  <2>1. CASE UNCHANGED storeVars
    BY <2>1 DEF storeVars, ExactInv
  <2>2. CASE \E a \in Row : Put(a) /\ Refreshes(work, a)
    <3>1. PICK a \in Row : Put(a) /\ Refreshes(work, a)
      BY <2>2
    <3>2. tx # NoTx /\ db' = db /\ work' = InsertAsset(work, a)
      BY <3>1 DEF Put, NoTx
    <3>3. IndexIsNewest(work')
      BY <1>0, <3>1, <3>2, InsertKeepsNewest DEF ExactInv
    <3> QED
      BY <3>2, <3>3 DEF ExactInv
  <2> QED
    BY <1>2, <2>1, <2>2
<1>3. ASSUME NEW c \in Completion, Complete(c)
      PROVE  ExactInv'
  <2>1. tx # NoTx /\ db' = db /\ work' = InsertBundleCompletion(work, c)
    BY <1>3 DEF Complete, NoTx
  <2>2. /\ work' \in Db /\ work'.assets = work.assets /\ work'.current = work.current
        /\ work'.currentShared = work.currentShared
    BY <1>0, <2>1, SmallWrites
  <2>3. IndexIsNewest(work')
    BY <1>0, <2>1, <2>2, NewestFrame DEF ExactInv
  <2> QED
    BY <2>1, <2>3 DEF ExactInv
<1>4. ASSUME CommitTx
      PROVE  ExactInv'
  <2>1. tx # NoTx /\ tx' = NoTx /\ work' = MarkReadIndexCurrent(work) /\ db' = work'
    BY <1>4 DEF CommitTx
  <2>2. /\ work' \in Db /\ work'.assets = work.assets /\ work'.current = work.current
        /\ work'.currentShared = work.currentShared
    BY <1>0, <2>1, SmallWrites
  <2>3. IndexIsNewest(work')
    BY <1>0, <2>1, <2>2, NewestFrame DEF ExactInv
  <2> QED
    BY <2>1, <2>3 DEF ExactInv
<1>5. ASSUME Rollback \/ Crash
      PROVE  ExactInv'
  BY <1>5 DEF Rollback, Crash, ExactInv
<1>6. ASSUME Boot
      PROVE  ExactInv'
  <2>1. db' = EnsureReadIndexes(db) /\ work' = db'
    BY <1>6 DEF Boot
  <2>2. IndexIsNewest(db')
    BY <1>0, <2>1, EnsureReadIndexesIs DEF ExactInv
  <2> QED
    BY <2>1, <2>2 DEF ExactInv
<1>7. CASE UNCHANGED storeVars
  BY <1>7 DEF storeVars, ExactInv
<1> QED
  BY <1>1, <1>2, <1>3, <1>4, <1>5, <1>6, <1>7 DEF StoreStep

\* As long as no commit publishes an older version of a path again, the index
\* that InsertAsset maintains row by row is the one that EnsureReadIndexes would
\* build from the whole history.
THEOREM StoreIncremental == StoreRun /\ FreshRows => []IncrementalIsRebuild
<1>1. StoreInv /\ ExactInv => IncrementalIsRebuild
  BY DEF StoreInv, ExactInv, IncrementalIsRebuild
<1>2. StoreRun => []StoreInv
  BY StoreInvariant
<1> QED
  BY <1>1, <1>2, ExactInit, ExactStep, PTL DEF StoreRun, FreshRows

-----------------------------------------------------------------------------
(* The store implements Placements.                                        *)

\* Both parts of the view of a maintained index are what its tables hold.
LEMMA IndexedView ==
    ASSUME NEW d \in Db, CurrentIndexed(d), SharedIndexed(d),
           NEW s \in Servers, NEW p \in Paths
    PROVE  /\ OwnOf(d, s, p) = IF IsOverride(d.current[<<s, p>>])
                               THEN d.current[<<s, p>>] ELSE NoRow
           /\ BaseOf(d, p) = d.currentShared[p]
<1>1. BaseOf(d, p) = d.currentShared[p]
  BY IndexedLookup DEF BaseOf
<1>2. CASE IsOverride(d.current[<<s, p>>])
  BY <1>1, <1>2, IndexedLookup DEF OwnOf
<1>3. CASE ~IsOverride(d.current[<<s, p>>])
  BY <1>1, <1>3, IndexedLookup DEF OwnOf, NotFound
<1> QED
  BY <1>2, <1>3

\* The view of any database that StoreInv allows is well-typed.
LEMMA ViewTyped ==
    ASSUME NEW d \in Db, NEW p \in Paths
    PROVE  /\ \A s \in Servers : OwnOf(d, s, p) \in Row \cup {NoRow}
           /\ BaseOf(d, p) \in Row \cup {NoRow}
<1>1. d.assets \in Seq(Row)
  BY DEF Db
<1>2. ASSUME NEW ids \in SUBSET DOMAIN d.assets
      PROVE  NewestOf(d, ids) \in Row \cup {NoRow}
  <2>1. CASE ids = {}
    BY <2>1 DEF NewestOf
  <2>2. CASE ids # {}
    <3>1. PICK i \in ids : NewestOf(d, ids) = d.assets[i]
      BY <1>1, <2>2, NewestIs
    <3> QED
      BY <1>1, <3>1, ElementOfSeq, LenProperties
  <2> QED
    BY <2>1, <2>2
<1>3. SharedIdsAt(d, p) \in SUBSET DOMAIN d.assets
  BY DEF SharedIdsAt
<1>4. CurrentSharedByPath(d, p) \in Row \cup {NoRow}
  BY <1>2, <1>3 DEF CurrentSharedByPath
<1>5. d.currentShared[p] \in Row \cup {NoRow}
  BY DEF Db
<1>6. BaseOf(d, p) \in Row \cup {NoRow}
  BY <1>4, <1>5 DEF BaseOf
<1>7. ASSUME NEW s \in Servers PROVE OwnOf(d, s, p) \in Row \cup {NoRow}
  <2>1. IdsAt(d, s, p) \in SUBSET DOMAIN d.assets
    BY DEF IdsAt
  <2>2. CurrentByServerPath(d, s, p) \in Row \cup {NoRow}
    BY <1>2, <2>1 DEF CurrentByServerPath
  <2>3. d.current[<<s, p>>] \in Row \cup {NoRow}
    BY DEF Db
  <2> QED
    BY <1>4, <1>5, <2>2, <2>3 DEF OwnOf, LookupPlacement, NotFound
<1> QED
  BY <1>6, <1>7

-----------------------------------------------------------------------------
(* The strengthening of StoreInv.                                          *)

\* A transaction moves the baseline only to rows of its own region.
LEMMA BaselineStep == StoreInv /\ BaselineInv /\ [StoreStep]_storeVars => BaselineInv'
<1> SUFFICES ASSUME StoreInv, BaselineInv, [StoreStep]_storeVars PROVE BaselineInv'
  OBVIOUS
<1>0. db \in Db /\ work \in Db
  BY DEF StoreInv, StoreTypeOK
<1>a. \A s, v, h : <<s, v, h>> # NoTx
  BY DEF NoTx
<1>1. ASSUME NEW s \in Servers, NEW v \in Versions, NEW h \in Hashes, Begin(s, v, h)
      PROVE  BaselineInv'
  <2>1. db' = db /\ work'.currentShared = db.currentShared
    BY <1>0, <1>1, SmallWrites DEF Begin
  <2> QED
    BY <2>1 DEF BaselineInv, OwnBaseline
<1>2. ASSUME NEW a \in Row, Put(a)
      PROVE  BaselineInv'
  <2>1. /\ tx # NoTx /\ tx[1] = a.server /\ tx' = tx /\ db' = db
        /\ work' = InsertAsset(work, a)
    BY <1>2, <1>a DEF Put
  <2>2. work'.currentShared = IF a.override THEN work.currentShared
                              ELSE [work.currentShared EXCEPT ![a.path] = a]
    BY <1>0, <2>1, InsertAssetIs
  <2>3. a.path \in Paths /\ work.currentShared \in [Paths -> Row \cup {NoRow}]
    BY <1>0 DEF Row, Db
  <2>4. OwnBaseline(tx[1])
    BY <2>1 DEF BaselineInv
  <2>5. OwnBaseline(tx[1])'
    <3> SUFFICES ASSUME NEW p \in Paths
                 PROVE  \/ work'.currentShared[p] = db.currentShared[p]
                        \/ /\ work'.currentShared[p] \in Row
                           /\ work'.currentShared[p].server = tx[1]
                           /\ work'.currentShared[p].path = p
                           /\ ~work'.currentShared[p].override
      BY <2>1 DEF OwnBaseline
    <3>1. CASE ~a.override /\ p = a.path
      BY <2>1, <2>2, <2>3, <3>1
    <3>2. CASE a.override \/ p # a.path
      <4>1. work'.currentShared[p] = work.currentShared[p]
        BY <2>2, <2>3, <3>2
      <4> QED
        BY <2>4, <4>1 DEF OwnBaseline
    <3> QED
      BY <3>1, <3>2
  <2> QED
    BY <2>5 DEF BaselineInv
<1>3. ASSUME NEW c \in Completion, Complete(c)
      PROVE  BaselineInv'
  <2>1. tx' = tx /\ db' = db /\ work'.currentShared = work.currentShared
    BY <1>0, <1>3, SmallWrites DEF Complete
  <2> QED
    BY <2>1 DEF BaselineInv, OwnBaseline
<1>4. ASSUME CommitTx \/ Rollback \/ Crash
      PROVE  BaselineInv'
  BY <1>4 DEF CommitTx, Rollback, Crash, BaselineInv
<1>5. ASSUME Boot
      PROVE  BaselineInv'
  BY <1>5 DEF Boot, StoreInv, BaselineInv
<1>6. CASE UNCHANGED storeVars
  BY <1>6 DEF storeVars, BaselineInv, OwnBaseline
<1> QED
  BY <1>1, <1>2, <1>3, <1>4, <1>5, <1>6 DEF StoreStep

-----------------------------------------------------------------------------
(* The refinement.                                                         *)

\* A commit of region s is a step of Placements that s publishes.
LEMMA CommitPublishes ==
    ASSUME StoreInv, BaselineInv, CommitTx
    PROVE  tx[1] \in Servers /\ View!Publish(tx[1])
<1> DEFINE s == tx[1]
<1>1. /\ db \in Db /\ work \in Db /\ tx # NoTx /\ s \in Servers
      /\ CurrentIndexed(db) /\ SharedIndexed(db)
      /\ CurrentIndexed(work) /\ SharedIndexed(work)
      /\ OwnRowsOnly(s) /\ OwnBaseline(s)
  BY DEF StoreInv, StoreTypeOK, BaselineInv, CommitTx
<1>2. /\ db' \in Db /\ db'.assets = work.assets /\ db'.current = work.current
      /\ db'.currentShared = work.currentShared
  BY <1>1, SmallWrites DEF CommitTx
<1>3. CurrentIndexed(db') /\ SharedIndexed(db')
  BY <1>1, <1>2, IndexFrame
<1> HIDE DEF s
<1>4. ASSUME NEW o \in Servers, NEW p \in Paths
      PROVE  /\ ownView[<<o, p>>] = IF IsOverride(db.current[<<o, p>>])
                                    THEN db.current[<<o, p>>] ELSE NoRow
             /\ ownView'[<<o, p>>] = IF IsOverride(work.current[<<o, p>>])
                                     THEN work.current[<<o, p>>] ELSE NoRow
             /\ baseView[p] = db.currentShared[p]
             /\ baseView'[p] = work.currentShared[p]
  <2>1. /\ OwnOf(db, o, p) = IF IsOverride(db.current[<<o, p>>])
                             THEN db.current[<<o, p>>] ELSE NoRow
        /\ BaseOf(db, p) = db.currentShared[p]
    BY <1>1, IndexedView
  <2>2. /\ OwnOf(db', o, p) = IF IsOverride(db'.current[<<o, p>>])
                              THEN db'.current[<<o, p>>] ELSE NoRow
        /\ BaseOf(db', p) = db'.currentShared[p]
    BY <1>2, <1>3, IndexedView
  <2> QED
    BY <1>2, <2>1, <2>2 DEF ownView, baseView
<1>5. \A o \in Servers \ {s}, p \in Paths : ownView'[<<o, p>>] = ownView[<<o, p>>]
  <2> SUFFICES ASSUME NEW o \in Servers \ {s}, NEW p \in Paths
               PROVE  ownView'[<<o, p>>] = ownView[<<o, p>>]
    OBVIOUS
  <2>1. o \in Servers /\ work.current[<<o, p>>] = db.current[<<o, p>>]
    BY <1>1 DEF OwnRowsOnly
  <2>2. /\ ownView[<<o, p>>] = IF IsOverride(db.current[<<o, p>>])
                               THEN db.current[<<o, p>>] ELSE NoRow
        /\ ownView'[<<o, p>>] = IF IsOverride(work.current[<<o, p>>])
                                THEN work.current[<<o, p>>] ELSE NoRow
    BY <1>4, <2>1
  <2> QED
    BY <2>1, <2>2
<1>6. ASSUME NEW p \in Paths, baseView'[p] # baseView[p]
      PROVE  View!IsPlacement(baseView'[p], s, p, FALSE)
  <2>1. work.currentShared[p] \in Row /\ work.currentShared[p].server = s
        /\ work.currentShared[p].path = p /\ ~work.currentShared[p].override
    BY <1>1, <1>4, <1>6 DEF OwnBaseline
  <2>2. work.currentShared[p].override \in BOOLEAN
    BY <2>1 DEF Row
  <2>3. work.currentShared[p].override = FALSE
    BY <2>1, <2>2
  <2> QED
    BY <1>1, <1>4, <2>1, <2>3 DEF View!IsPlacement
<1>7. ASSUME NEW p \in Paths, ownView'[<<s, p>>] # ownView[<<s, p>>]
      PROVE  \/ View!IsPlacement(ownView'[<<s, p>>], s, p, TRUE)
             \/ /\ ownView'[<<s, p>>] = NoRow
                /\ View!IsPlacement(baseView'[p], s, p, FALSE)
  <2> DEFINE r == work.current[<<s, p>>]
  <2>1. Served(work, s, p)
    BY <1>1, <1>4, <1>7 DEF OwnRowsOnly
  <2>2. r # NoRow /\ (r.override \/ work.currentShared[p] = r)
    BY <2>1 DEF Served
  <2>3. PICK i \in IdsAt(work, s, p) : r = work.assets[i]
    BY <1>1, <2>2 DEF CurrentIndexed
  <2>4. r.server = s /\ r.path = p /\ r \in Row
    BY <1>1, <2>3, ElementOfSeq, LenProperties DEF IdsAt, Db
  <2>5. r.override \in BOOLEAN
    BY <2>4 DEF Row
  <2> HIDE DEF r
  <2>6. CASE r.override
    <3>1. ownView'[<<s, p>>] = r
      BY <1>1, <1>4, <2>2, <2>6 DEF r, IsOverride
    <3>2. r.override = TRUE
      BY <2>5, <2>6
    <3> QED
      BY <2>4, <3>1, <3>2 DEF View!IsPlacement
  <2>7. CASE ~r.override
    <3>1. ownView'[<<s, p>>] = NoRow /\ baseView'[p] = r
      BY <1>1, <1>4, <2>2, <2>7 DEF r, IsOverride
    <3>2. r.override = FALSE
      BY <2>5, <2>7
    <3> QED
      BY <2>4, <3>1, <3>2 DEF View!IsPlacement
  <2> QED
    BY <2>6, <2>7
<1> QED
  BY <1>1, <1>5, <1>6, <1>7 DEF View!Publish, s

\* The start-up rebuild is invisible: both parts of the view stay.
LEMMA BootInvisible ==
    ASSUME StoreInv, Boot
    PROVE  ownView' = ownView /\ baseView' = baseView
<1>1. db \in Db /\ db' = EnsureReadIndexes(db)
  BY DEF StoreInv, StoreTypeOK, Boot
<1>2. CASE db.meta = LatestAssetID(db)
  BY <1>1, <1>2, EnsureReadIndexesIs DEF ownView, baseView
<1>3. CASE db.meta # LatestAssetID(db)
  <2>1. IndexIsNewest(db') /\ db'.assets = db.assets /\ EmptyIndex(db)
    BY <1>1, <1>3, EnsureReadIndexesIs DEF StoreInv
  <2>2. ASSUME NEW s \in Servers, NEW p \in Paths
        PROVE  OwnOf(db', s, p) = OwnOf(db, s, p)
    <3>1. /\ CurrentByServerPath(db', s, p) = CurrentByServerPath(db, s, p)
          /\ CurrentSharedByPath(db', p) = CurrentSharedByPath(db, p)
      BY <2>1 DEF CurrentByServerPath, CurrentSharedByPath, NewestOf, IdsAt, SharedIdsAt
    <3>2. /\ db'.current[<<s, p>>] = CurrentByServerPath(db, s, p)
          /\ db'.currentShared[p] = CurrentSharedByPath(db, p)
          /\ db.current[<<s, p>>] = NoRow /\ db.currentShared[p] = NoRow
      BY <2>1, <3>1 DEF IndexIsNewest, EmptyIndex
    <3> QED
      BY <3>1, <3>2 DEF OwnOf, LookupPlacement, IsOverride
  <2>3. ASSUME NEW p \in Paths
        PROVE  BaseOf(db', p) = BaseOf(db, p)
    <3>1. CurrentSharedByPath(db', p) = CurrentSharedByPath(db, p)
      BY <2>1 DEF CurrentSharedByPath, NewestOf, SharedIdsAt
    <3>2. db'.currentShared[p] = CurrentSharedByPath(db, p) /\ db.currentShared[p] = NoRow
      BY <2>1, <3>1 DEF IndexIsNewest, EmptyIndex
    <3> QED
      BY <3>1, <3>2 DEF BaseOf
  <2> QED
    BY <2>2, <2>3 DEF ownView, baseView
<1> QED
  BY <1>2, <1>3

\* The store implements Placements: a commit is a Publish of its region and
\* every other step, a crash or a rebuild included, changes no answer.
THEOREM StoreImplementsPlacements == StoreRun => ImplementsPlacements
<1>1. StoreInit => BaselineInv
  BY DEF StoreInit, BaselineInv
<1>2. StoreInv => View!PlacementInit
  <2> SUFFICES ASSUME StoreInv PROVE View!PlacementInit
    OBVIOUS
  <2>1. db \in Db
    BY DEF StoreInv, StoreTypeOK
  <2>2. \A s \in Servers, p \in Paths : OwnOf(db, s, p) \in Row \cup {NoRow}
    BY <2>1, ViewTyped
  <2>3. ASSUME NEW p \in Paths PROVE BaseOf(db, p) \in Row \cup {NoRow}
    BY <2>1, ViewTyped
  <2>4. ownView \in [Servers \X Paths -> Row \cup {NoRow}]
    BY <2>2 DEF ownView
  <2>5. baseView \in [Paths -> Row \cup {NoRow}]
    BY <2>3 DEF baseView
  <2> QED
    BY <2>4, <2>5 DEF View!PlacementInit
<1>3. StoreInv /\ BaselineInv /\ [StoreStep]_storeVars
        => [View!PlacementNext]_<<ownView, baseView>>
  <2> SUFFICES ASSUME StoreInv, BaselineInv, [StoreStep]_storeVars
               PROVE  [View!PlacementNext]_<<ownView, baseView>>
    OBVIOUS
  <2>1. CASE CommitTx
    BY <2>1, CommitPublishes DEF View!PlacementNext
  <2>2. CASE Boot
    BY <2>2, BootInvisible
  <2>3. CASE db' = db
    BY <2>3 DEF ownView, baseView
  <2> QED
    BY <2>1, <2>2, <2>3 DEF StoreStep, storeVars, Begin, Put, Complete, Rollback, Crash
<1> QED
  BY <1>1, <1>2, <1>3, InitInv, StepInv, BaselineStep, PTL
     DEF StoreRun, ImplementsPlacements, View!PlacementSpec

\* LookupPlacement answers what Placements says a region is served.
LEMMA AnswerIs ==
    ASSUME NEW d, NEW s \in Servers, NEW p \in Paths
    PROVE  LookupPlacement(d, s, p).row =
             IF OwnOf(d, s, p) # NoRow THEN OwnOf(d, s, p) ELSE BaseOf(d, p)
<1>1. CASE IsOverride(d.current[<<s, p>>])
  BY <1>1 DEF LookupPlacement, OwnOf, IsOverride
<1>2. CASE ~IsOverride(d.current[<<s, p>>]) /\ d.currentShared[p] # NoRow
  BY <1>2 DEF LookupPlacement, OwnOf, BaseOf
<1>3. CASE ~IsOverride(d.current[<<s, p>>]) /\ d.currentShared[p] = NoRow
  BY <1>3 DEF LookupPlacement, OwnOf, BaseOf, IsOverride, NotFound
<1> QED
  BY <1>1, <1>2, <1>3

\* A step of Placements takes no answer away, so no step of the store does:
\* a path once served to a region is served to it ever after.
THEOREM StoreFoundStaysFound == StoreRun => FoundStaysFound
<1> DEFINE Kept == \A s \in Servers, p \in Paths :
                     LookupPlacement(db, s, p).row # NoRow
                     => LookupPlacement(db', s, p).row # NoRow
<1>1. [View!PlacementNext]_<<ownView, baseView>> => Kept
  <2> SUFFICES ASSUME [View!PlacementNext]_<<ownView, baseView>>,
                      NEW s \in Servers, NEW p \in Paths,
                      LookupPlacement(db, s, p).row # NoRow
               PROVE  LookupPlacement(db', s, p).row # NoRow
    OBVIOUS
  <2>1. /\ ownView[<<s, p>>] = OwnOf(db, s, p) /\ baseView[p] = BaseOf(db, p)
        /\ ownView'[<<s, p>>] = OwnOf(db', s, p) /\ baseView'[p] = BaseOf(db', p)
    BY DEF ownView, baseView
  <2>2. ownView[<<s, p>>] # NoRow \/ baseView[p] # NoRow
    BY <2>1, AnswerIs
  <2>3. ownView'[<<s, p>>] # NoRow \/ baseView'[p] # NoRow
    <3>1. CASE UNCHANGED <<ownView, baseView>>
      BY <2>2, <3>1
    <3>2. ASSUME NEW t \in Servers, View!Publish(t)
          PROVE  ownView'[<<s, p>>] # NoRow \/ baseView'[p] # NoRow
      <4>1. \A r, o, ov : View!IsPlacement(r, o, p, ov) => r # NoRow
        BY NoRowAssumption DEF View!IsPlacement
      <4>2. baseView[p] # NoRow => baseView'[p] # NoRow
        BY <3>2, <4>1 DEF View!Publish
      <4>3. CASE s = t
        BY <2>2, <3>2, <4>1, <4>2, <4>3 DEF View!Publish
      <4>4. CASE s # t
        BY <2>2, <3>2, <4>2, <4>4 DEF View!Publish
      <4> QED
        BY <4>3, <4>4
    <3> QED
      BY <3>1, <3>2 DEF View!PlacementNext
  <2> QED
    BY <2>1, <2>3, AnswerIs
<1>2. [View!PlacementNext]_<<ownView, baseView>> => [Kept]_storeVars
  BY <1>1
<1> HIDE DEF Kept
<1>3. StoreRun => [][Kept]_storeVars
  BY <1>2, StoreImplementsPlacements, PTL DEF ImplementsPlacements, View!PlacementSpec
<1> QED
  BY <1>3 DEF FoundStaysFound, Kept

-----------------------------------------------------------------------------
(* NoBundleDrift where a path has one bundle.                              *)

\* The rows that a group of bundle b collects depend on the current tables
\* only where a row of b comes or goes.
LEMMA SharedGroupFrame ==
    ASSUME NEW d, NEW e, NEW b,
           \A p \in Paths : \/ e.currentShared[p] = d.currentShared[p]
                            \/ /\ e.currentShared[p] = NoRow \/ e.currentShared[p].bundle # b
                               /\ d.currentShared[p] = NoRow \/ d.currentShared[p].bundle # b
    PROVE  SharedGroup(e, b) = SharedGroup(d, b)
<1>1. \A p \in Paths : (e.currentShared[p] # NoRow /\ e.currentShared[p].bundle = b)
                       <=> (d.currentShared[p] # NoRow /\ d.currentShared[p].bundle = b)
  OBVIOUS
<1>2. \A p \in Paths : (d.currentShared[p] # NoRow /\ d.currentShared[p].bundle = b)
                       => e.currentShared[p] = d.currentShared[p]
  OBVIOUS
<1> QED
  BY <1>1, <1>2 DEF SharedGroup

\* The same for the overrides of one region.
LEMMA OverrideGroupFrame ==
    ASSUME NEW d, NEW e, NEW s, NEW b,
           \A p \in Paths :
              \/ e.current[<<s, p>>] = d.current[<<s, p>>]
              \/ /\ ~IsOverride(e.current[<<s, p>>]) \/ e.current[<<s, p>>].bundle # b
                 /\ ~IsOverride(d.current[<<s, p>>]) \/ d.current[<<s, p>>].bundle # b
    PROVE  OverrideGroup(e, s, b) = OverrideGroup(d, s, b)
<1>1. \A p \in Paths : (IsOverride(e.current[<<s, p>>]) /\ e.current[<<s, p>>].bundle = b)
                       <=> (IsOverride(d.current[<<s, p>>]) /\ d.current[<<s, p>>].bundle = b)
  OBVIOUS
<1>2. \A p \in Paths : (IsOverride(d.current[<<s, p>>]) /\ d.current[<<s, p>>].bundle = b)
                       => e.current[<<s, p>>] = d.current[<<s, p>>]
  OBVIOUS
<1> QED
  BY <1>1, <1>2 DEF OverrideGroup

\* InsertAsset's bundle tables: the two aggregates it refreshes are the
\* groups of the database it returns, and the others stay.
LEMMA InsertAggregates ==
    ASSUME NEW d \in Db, NEW a \in Row
    PROVE  LET e == InsertAsset(d, a)
           IN  /\ \A b \in Bundles : e.sharedBundles[b] =
                     IF b = a.bundle /\ ~a.override /\ SharedGroup(e, b) # {}
                     THEN SharedGroup(e, b) ELSE d.sharedBundles[b]
               /\ \A s \in Servers, b \in Bundles : e.overrideBundles[<<s, b>>] =
                     IF s = a.server /\ b = a.bundle
                     THEN OverrideGroup(e, s, b) ELSE d.overrideBundles[<<s, b>>]
<1> DEFINE d1 == [d EXCEPT !.assets = upsertAsset(@, a)]
           d2 == upsertCurrentAsset(d1, a)
           d3 == IF a.override THEN d2 ELSE upsertCurrentSharedAsset(d2, a)
           e  == InsertAsset(d, a)
<1>1. d1 = [d EXCEPT !.assets = upsertAsset(d.assets, a)]
  BY DEF Db
<1>2. /\ d1.sharedBundles = d.sharedBundles /\ d1.overrideBundles = d.overrideBundles
      /\ DOMAIN d1 = DOMAIN d
  BY <1>1 DEF Db
<1>3. /\ d2.sharedBundles = d.sharedBundles /\ d2.overrideBundles = d.overrideBundles
      /\ DOMAIN d2 = DOMAIN d
  BY <1>2 DEF Db, upsertCurrentAsset
<1>4. /\ d3.sharedBundles = d.sharedBundles /\ d3.overrideBundles = d.overrideBundles
      /\ DOMAIN d3 = DOMAIN d
  BY <1>3 DEF Db, upsertCurrentSharedAsset
<1>5. e = refreshBundleAggregates(d3, a)
  BY DEF InsertAsset
<1>6. a.server \in Servers /\ a.override \in BOOLEAN /\ a.bundle \in Bundles \cup {NoBundle}
  BY DEF Row
<1>7. d.sharedBundles \in [Bundles -> SUBSET Row]
      /\ d.overrideBundles \in [Servers \X Bundles -> SUBSET Row]
  BY DEF Db
<1> HIDE DEF d1, d2, d3, e
<1>8. CASE a.bundle = NoBundle
  <2>1. e = d3 /\ \A b \in Bundles : b # a.bundle
    BY <1>5, <1>8, NoBundleAssumption DEF refreshBundleAggregates
  <2> QED
    BY <1>4, <2>1 DEF e
<1>9. CASE a.bundle # NoBundle
  <2> DEFINE sh == IF a.override \/ SharedGroup(d3, a.bundle) = {} THEN d3.sharedBundles[a.bundle]
                   ELSE SharedGroup(d3, a.bundle)
             ov == OverrideGroup(d3, a.server, a.bundle)
             fs == [d3.sharedBundles EXCEPT ![a.bundle] = sh]
             fo == [d3.overrideBundles EXCEPT ![<<a.server, a.bundle>>] = ov]
  <2>1. a.bundle \in Bundles
    BY <1>6, <1>9
  <2>2. e = [d3 EXCEPT !.sharedBundles = fs, !.overrideBundles = fo]
    BY <1>5, <1>9 DEF refreshBundleAggregates
  <2> HIDE DEF fs, fo
  <2>3. /\ e.sharedBundles = fs /\ e.overrideBundles = fo
        /\ e.current = d3.current /\ e.currentShared = d3.currentShared
    BY <1>4, <2>2 DEF Db
  <2>4. SharedGroup(e, a.bundle) = SharedGroup(d3, a.bundle)
        /\ OverrideGroup(e, a.server, a.bundle) = OverrideGroup(d3, a.server, a.bundle)
    BY <2>3 DEF SharedGroup, OverrideGroup
  <2>5. ASSUME NEW b \in Bundles
        PROVE  e.sharedBundles[b] = IF b = a.bundle /\ ~a.override /\ SharedGroup(e, b) # {}
                                    THEN SharedGroup(e, b) ELSE d.sharedBundles[b]
    BY <1>4, <1>6, <1>7, <2>1, <2>3, <2>4 DEF fs
  <2>6. ASSUME NEW s \in Servers, NEW b \in Bundles
        PROVE  e.overrideBundles[<<s, b>>] = IF s = a.server /\ b = a.bundle
                                             THEN OverrideGroup(e, s, b)
                                             ELSE d.overrideBundles[<<s, b>>]
    BY <1>4, <1>6, <1>7, <2>1, <2>3, <2>4 DEF fo
  <2> QED
    BY <2>5, <2>6 DEF e
<1> QED
  BY <1>8, <1>9

\* A row that comes leaves the rows of a database known.
LEMMA InsertKeepsKnown ==
    ASSUME NEW d \in Db, NEW a \in Row, a \in PutRows, RowsKnown(d)
    PROVE  RowsKnown(InsertAsset(d, a))
<1> DEFINE e == InsertAsset(d, a)
<1>1. /\ e.assets = upsertAsset(d.assets, a)
      /\ e.current = [d.current EXCEPT ![<<a.server, a.path>>] = a]
      /\ e.currentShared = IF a.override THEN d.currentShared
                           ELSE [d.currentShared EXCEPT ![a.path] = a]
  BY InsertAssetIs
<1>2. /\ d.assets \in Seq(Row) /\ d.current \in [Servers \X Paths -> Row \cup {NoRow}]
      /\ d.currentShared \in [Paths -> Row \cup {NoRow}]
  BY DEF Db
<1>3. a \in InputRows
  BY DEF InputRows
<1> HIDE DEF e
<1>4. ASSUME NEW i \in DOMAIN e.assets PROVE e.assets[i] \in InputRows
  <2>1. i \in DOMAIN d.assets => e.assets[i] = a \/ e.assets[i] = d.assets[i]
    BY <1>1, <1>2, UpsertIs
  <2>2. i \notin DOMAIN d.assets => e.assets[i] = a
    BY <1>1, <1>2, UpsertIs
  <2> QED
    BY <1>3, <2>1, <2>2 DEF RowsKnown
<1>5. ASSUME NEW s \in Servers, NEW p \in Paths, e.current[<<s, p>>] # NoRow
      PROVE  e.current[<<s, p>>] \in InputRows /\ e.current[<<s, p>>].path = p
  <2>1. CASE s = a.server /\ p = a.path
    <3>1. e.current[<<s, p>>] = a
      BY <1>1, <1>2, <2>1
    <3> QED
      BY <1>3, <2>1, <3>1
  <2>2. CASE ~(s = a.server /\ p = a.path)
    <3>1. e.current[<<s, p>>] = d.current[<<s, p>>]
      BY <1>1, <1>2, <2>2
    <3> QED
      BY <1>5, <3>1 DEF RowsKnown
  <2> QED
    BY <2>1, <2>2
<1>6. ASSUME NEW p \in Paths, e.currentShared[p] # NoRow
      PROVE  e.currentShared[p] \in InputRows /\ e.currentShared[p].path = p
  <2>1. CASE ~a.override /\ p = a.path
    <3>1. e.currentShared[p] = a
      BY <1>1, <1>2, <2>1
    <3> QED
      BY <1>3, <2>1, <3>1
  <2>2. CASE a.override \/ p # a.path
    <3>1. e.currentShared[p] = d.currentShared[p]
      BY <1>1, <1>2, <2>2
    <3> QED
      BY <1>6, <3>1 DEF RowsKnown
  <2> QED
    BY <2>1, <2>2
<1> QED
  BY <1>4, <1>5, <1>6 DEF RowsKnown, e

\* With one bundle per path, InsertAsset keeps the bundle tables exact: the
\* row that goes belonged to the bundle that is refreshed, or to none.
LEMMA InsertKeepsAggregates ==
    ASSUME OneBundlePerPath, NEW d \in Db, NEW a \in Row, a \in PutRows,
           RowsKnown(d), AggregatesExact(d)
    PROVE  AggregatesExact(InsertAsset(d, a))
<1> DEFINE e == InsertAsset(d, a)
<1>1. /\ e.current = [d.current EXCEPT ![<<a.server, a.path>>] = a]
      /\ e.currentShared = IF a.override THEN d.currentShared
                           ELSE [d.currentShared EXCEPT ![a.path] = a]
  BY InsertAssetIs
<1>2. /\ d.current \in [Servers \X Paths -> Row \cup {NoRow}]
      /\ d.currentShared \in [Paths -> Row \cup {NoRow}]
  BY DEF Db
<1>3. a.server \in Servers /\ a.path \in Paths /\ a.override \in BOOLEAN
  BY DEF Row
<1>4. /\ \A b \in Bundles : e.sharedBundles[b] =
             IF b = a.bundle /\ ~a.override /\ SharedGroup(e, b) # {}
             THEN SharedGroup(e, b) ELSE d.sharedBundles[b]
      /\ \A s \in Servers, b \in Bundles : e.overrideBundles[<<s, b>>] =
             IF s = a.server /\ b = a.bundle
             THEN OverrideGroup(e, s, b) ELSE d.overrideBundles[<<s, b>>]
  BY InsertAggregates
<1> HIDE DEF e
<1>5. ASSUME NEW r \in InputRows, r.path = a.path, NEW b \in Bundles, b # a.bundle
      PROVE  r.bundle # b
  BY <1>5, NoBundleAssumption DEF OneBundlePerPath
<1>6. ASSUME NEW b \in Bundles PROVE e.sharedBundles[b] = SharedGroup(e, b)
  <2>1. d.sharedBundles[b] = SharedGroup(d, b)
    BY DEF AggregatesExact
  <2>2. CASE a.override
    <3>1. SharedGroup(e, b) = SharedGroup(d, b)
      BY <1>1, <2>2 DEF SharedGroup
    <3> QED
      BY <1>4, <2>1, <2>2, <3>1
  <2>3. CASE ~a.override /\ b = a.bundle
    <3>1. e.currentShared[a.path] = a
      BY <1>1, <1>2, <1>3, <2>3
    <3>2. a \in SharedGroup(e, b)
      BY <1>3, <2>3, <3>1, NoRowAssumption DEF SharedGroup
    <3> QED
      BY <1>4, <2>3, <3>2
  <2>4. CASE ~a.override /\ b # a.bundle
    <3>1. ASSUME NEW p \in Paths, e.currentShared[p] # d.currentShared[p]
          PROVE  /\ e.currentShared[p].bundle # b
                 /\ d.currentShared[p] = NoRow \/ d.currentShared[p].bundle # b
      <4>1. p = a.path /\ e.currentShared[p] = a
        BY <1>1, <1>2, <1>3, <2>4, <3>1
      <4>2. d.currentShared[p] # NoRow => d.currentShared[p].bundle # b
        BY <1>5, <2>4, <4>1 DEF RowsKnown
      <4> QED
        BY <2>4, <4>1, <4>2
    <3>2. SharedGroup(e, b) = SharedGroup(d, b)
      BY <3>1, SharedGroupFrame
    <3> QED
      BY <1>4, <2>1, <2>4, <3>2
  <2> QED
    BY <2>2, <2>3, <2>4
<1>7. ASSUME NEW s \in Servers, NEW b \in Bundles
      PROVE  e.overrideBundles[<<s, b>>] = OverrideGroup(e, s, b)
  <2>1. d.overrideBundles[<<s, b>>] = OverrideGroup(d, s, b)
    BY DEF AggregatesExact
  <2>2. CASE s = a.server /\ b = a.bundle
    BY <1>4, <2>2
  <2>3. CASE ~(s = a.server /\ b = a.bundle)
    <3>1. ASSUME NEW p \in Paths, e.current[<<s, p>>] # d.current[<<s, p>>]
          PROVE  /\ e.current[<<s, p>>].bundle # b
                 /\ ~IsOverride(d.current[<<s, p>>]) \/ d.current[<<s, p>>].bundle # b
      <4>1. s = a.server /\ p = a.path /\ e.current[<<s, p>>] = a
        BY <1>1, <1>2, <1>3, <3>1
      <4>2. d.current[<<s, p>>] # NoRow => d.current[<<s, p>>].bundle # b
        BY <1>5, <2>3, <4>1 DEF RowsKnown
      <4> QED
        BY <2>3, <4>1, <4>2 DEF IsOverride
    <3>2. OverrideGroup(e, s, b) = OverrideGroup(d, s, b)
      BY <3>1, OverrideGroupFrame
    <3> QED
      BY <1>4, <2>1, <2>3, <3>2
  <2> QED
    BY <2>2, <2>3
<1> QED
  BY <1>6, <1>7 DEF AggregatesExact, e

\* Both predicates read only the asset tables and the bundle tables.
LEMMA AggregateFrame ==
    ASSUME NEW d, NEW e, e.assets = d.assets, e.current = d.current,
           e.currentShared = d.currentShared, e.sharedBundles = d.sharedBundles,
           e.overrideBundles = d.overrideBundles
    PROVE  /\ RowsKnown(d) => RowsKnown(e)
           /\ AggregatesExact(d) => AggregatesExact(e)
<1>1. \A b : SharedGroup(e, b) = SharedGroup(d, b)
  BY DEF SharedGroup
<1>2. \A s, b : OverrideGroup(e, s, b) = OverrideGroup(d, s, b)
  BY DEF OverrideGroup
<1> QED
  BY <1>1, <1>2 DEF RowsKnown, AggregatesExact

\* The other writes of a transaction leave the bundle tables alone.
LEMMA SmallWritesBundles ==
    ASSUME NEW d \in Db
    PROVE  /\ \A s \in Servers, v \in Versions, h \in Hashes :
                 /\ InsertVersion(d, s, v, h).sharedBundles = d.sharedBundles
                 /\ InsertVersion(d, s, v, h).overrideBundles = d.overrideBundles
           /\ \A c \in Completion :
                 /\ InsertBundleCompletion(d, c).sharedBundles = d.sharedBundles
                 /\ InsertBundleCompletion(d, c).overrideBundles = d.overrideBundles
           /\ MarkReadIndexCurrent(d).sharedBundles = d.sharedBundles
           /\ MarkReadIndexCurrent(d).overrideBundles = d.overrideBundles
<1>1. ASSUME NEW s \in Servers, NEW v \in Versions, NEW h \in Hashes
      PROVE  /\ InsertVersion(d, s, v, h).sharedBundles = d.sharedBundles
             /\ InsertVersion(d, s, v, h).overrideBundles = d.overrideBundles
  BY DEF InsertVersion, Db
<1>2. ASSUME NEW c \in Completion
      PROVE  /\ InsertBundleCompletion(d, c).sharedBundles = d.sharedBundles
             /\ InsertBundleCompletion(d, c).overrideBundles = d.overrideBundles
  BY DEF InsertBundleCompletion, Db
<1>3. /\ MarkReadIndexCurrent(d).sharedBundles = d.sharedBundles
      /\ MarkReadIndexCurrent(d).overrideBundles = d.overrideBundles
  BY DEF MarkReadIndexCurrent, Db
<1> QED
  BY <1>1, <1>2, <1>3

\* The rebuild computes exact bundle tables from known rows.
LEMMA BootAggregates ==
    ASSUME NEW d \in Db, RowsKnown(d), d.meta # LatestAssetID(d)
    PROVE  RowsKnown(EnsureReadIndexes(d)) /\ AggregatesExact(EnsureReadIndexes(d))
<1> DEFINE e == EnsureReadIndexes(d)
<1>1. e \in Db /\ e.assets = d.assets /\ IndexIsNewest(e)
  BY EnsureReadIndexesIs
<1>2. /\ \A b \in Bundles : e.sharedBundles[b] = SharedGroup(e, b)
      /\ \A s \in Servers, b \in Bundles : e.overrideBundles[<<s, b>>] = OverrideGroup(e, s, b)
  <2> DEFINE cur == [sp \in Servers \X Paths |-> CurrentByServerPath(d, sp[1], sp[2])]
             shr == [p \in Paths |-> CurrentSharedByPath(d, p)]
             d1 == [d EXCEPT !.current = cur, !.currentShared = shr,
                             !.meta = LatestAssetID(d)]
             shb == [b \in Bundles |-> SharedGroup(d1, b)]
             ovb == [sb \in Servers \X Bundles |-> OverrideGroup(d1, sb[1], sb[2])]
  <2>1. e = [d1 EXCEPT !.sharedBundles = shb, !.overrideBundles = ovb]
    BY DEF EnsureReadIndexes
  <2>2. DOMAIN d1 = DOMAIN d
    OBVIOUS
  <2> HIDE DEF d1, shb, ovb, e
  <2>3. /\ e.sharedBundles = shb /\ e.overrideBundles = ovb
        /\ e.current = d1.current /\ e.currentShared = d1.currentShared
    BY <2>1, <2>2 DEF Db
  <2>4. \A b : SharedGroup(e, b) = SharedGroup(d1, b)
    BY <2>3 DEF SharedGroup
  <2>5. \A s, b : OverrideGroup(e, s, b) = OverrideGroup(d1, s, b)
    BY <2>3 DEF OverrideGroup
  <2>6. \A b \in Bundles : shb[b] = SharedGroup(d1, b)
    BY DEF shb
  <2>7. \A s \in Servers, b \in Bundles : ovb[<<s, b>>] = OverrideGroup(d1, s, b)
    BY DEF ovb
  <2> QED
    BY <2>3, <2>4, <2>5, <2>6, <2>7
<1> HIDE DEF e
<1>3. e.assets \in Seq(Row)
  BY <1>1 DEF Db
<1>4. ASSUME NEW s \in Servers, NEW p \in Paths, e.current[<<s, p>>] # NoRow
      PROVE  e.current[<<s, p>>] \in InputRows /\ e.current[<<s, p>>].path = p
  <2>1. e.current[<<s, p>>] = NewestOf(e, IdsAt(e, s, p))
    BY <1>1 DEF IndexIsNewest, CurrentByServerPath
  <2>2. IdsAt(e, s, p) # {} /\ IdsAt(e, s, p) \in SUBSET DOMAIN e.assets
    BY <1>4, <2>1 DEF NewestOf, IdsAt
  <2>3. PICK i \in IdsAt(e, s, p) : NewestOf(e, IdsAt(e, s, p)) = e.assets[i]
    BY <1>3, <2>2, NewestIs
  <2> QED
    BY <1>1, <2>1, <2>3 DEF IdsAt, RowsKnown
<1>5. ASSUME NEW p \in Paths, e.currentShared[p] # NoRow
      PROVE  e.currentShared[p] \in InputRows /\ e.currentShared[p].path = p
  <2>1. e.currentShared[p] = NewestOf(e, SharedIdsAt(e, p))
    BY <1>1 DEF IndexIsNewest, CurrentSharedByPath
  <2>2. SharedIdsAt(e, p) # {} /\ SharedIdsAt(e, p) \in SUBSET DOMAIN e.assets
    BY <1>5, <2>1 DEF NewestOf, SharedIdsAt
  <2>3. PICK i \in SharedIdsAt(e, p) : NewestOf(e, SharedIdsAt(e, p)) = e.assets[i]
    BY <1>3, <2>2, NewestIs
  <2> QED
    BY <1>1, <2>1, <2>3 DEF SharedIdsAt, RowsKnown
<1>6. \A i \in DOMAIN e.assets : e.assets[i] \in InputRows
  BY <1>1 DEF RowsKnown
<1> QED
  BY <1>2, <1>4, <1>5, <1>6 DEF RowsKnown, AggregatesExact, e

-----------------------------------------------------------------------------
(* The theorem.                                                            *)

\* An empty index has empty bundle tables, and legacy rows are known.
LEMMA AggregateInit == StoreInit => AggregateInv
<1> SUFFICES ASSUME StoreInit PROVE AggregateInv
  OBVIOUS
<1>1. PICK t \in LegacyTables \cup {<<>>} : db = [EmptyDb EXCEPT !.assets = t]
  BY DEF StoreInit
<1>2. /\ db.assets = t
      /\ db.current = [sp \in Servers \X Paths |-> NoRow]
      /\ db.currentShared = [p \in Paths |-> NoRow]
      /\ db.sharedBundles = [b \in Bundles |-> {}]
      /\ db.overrideBundles = [sb \in Servers \X Bundles |-> {}]
  BY <1>1 DEF EmptyDb
<1>3. \A i \in DOMAIN t : t[i] \in InputRows
  <2>1. CASE t \in LegacyTables
    BY <2>1 DEF InputRows
  <2>2. CASE t = <<>>
    BY <2>2
  <2> QED
    BY <2>1, <2>2
<1>4. RowsKnown(db)
  BY <1>2, <1>3 DEF RowsKnown
<1>5. \A b \in Bundles : SharedGroup(db, b) = {}
  BY <1>2 DEF SharedGroup
<1>6. \A s \in Servers, b \in Bundles : OverrideGroup(db, s, b) = {}
  <2> SUFFICES ASSUME NEW s \in Servers, NEW b \in Bundles
               PROVE  OverrideGroup(db, s, b) = {}
    OBVIOUS
  <2>1. \A q \in Paths : db.current[<<s, q>>] = NoRow
    BY <1>2
  <2>2. \A q \in Paths : ~IsOverride(db.current[<<s, q>>])
    BY <2>1 DEF IsOverride
  <2> QED
    BY <2>2, Zenon DEF OverrideGroup
<1>7. AggregatesExact(db)
  BY <1>2, <1>5, <1>6 DEF AggregatesExact
<1> QED
  BY <1>4, <1>7 DEF AggregateInv, StoreInit

\* Every step keeps the aggregates, when a path has one bundle.
LEMMA AggregateStep ==
    ASSUME OneBundlePerPath
    PROVE  StoreInv /\ AggregateInv /\ [StoreNext]_storeVars => AggregateInv'
<1> SUFFICES ASSUME StoreInv, AggregateInv, [StoreNext]_storeVars PROVE AggregateInv'
  OBVIOUS
<1>0. /\ db \in Db /\ work \in Db /\ RowsKnown(db) /\ RowsKnown(work)
      /\ db.meta = LatestAssetID(db) => AggregatesExact(db)
      /\ tx # NoTx => AggregatesExact(work)
      /\ up => db.meta = LatestAssetID(db)
      /\ tx # NoTx => up
  BY DEF StoreInv, StoreTypeOK, AggregateInv
<1>a. \A s, v, h : <<s, v, h>> # NoTx
  BY DEF NoTx
<1>1. ASSUME NEW s \in Servers, NEW v \in Versions, NEW h \in Hashes, Begin(s, v, h)
      PROVE  AggregateInv'
  <2>1. up /\ db' = db /\ work' = InsertVersion(db, s, v, h)
    BY <1>1 DEF Begin
  <2>2. RowsKnown(work') /\ AggregatesExact(work')
    BY <1>0, <2>1, SmallWrites, SmallWritesBundles, AggregateFrame
  <2> QED
    BY <1>0, <2>1, <2>2 DEF AggregateInv
<1>2. ASSUME NEW a \in PutRows, Put(a)
      PROVE  AggregateInv'
  <2>1. tx # NoTx /\ db' = db /\ work' = InsertAsset(work, a) /\ a \in Row
    BY <1>2, <1>a, InputsAssumption DEF Put
  <2>2. RowsKnown(work') /\ AggregatesExact(work')
    BY <1>0, <2>1, InsertKeepsKnown, InsertKeepsAggregates
  <2> QED
    BY <1>0, <2>1, <2>2 DEF AggregateInv
<1>3. ASSUME NEW c \in Completions, Complete(c)
      PROVE  AggregateInv'
  <2>1. tx # NoTx /\ db' = db /\ work' = InsertBundleCompletion(work, c) /\ c \in Completion
    BY <1>3, <1>a, InputsAssumption DEF Complete
  <2>2. RowsKnown(work') /\ AggregatesExact(work')
    BY <1>0, <2>1, SmallWrites, SmallWritesBundles, AggregateFrame
  <2> QED
    BY <1>0, <2>1, <2>2 DEF AggregateInv
<1>4. ASSUME CommitTx
      PROVE  AggregateInv'
  <2>1. tx # NoTx /\ tx' = NoTx /\ work' = MarkReadIndexCurrent(work) /\ db' = work'
    BY <1>4 DEF CommitTx
  <2>2. RowsKnown(work') /\ AggregatesExact(work')
    BY <1>0, <2>1, SmallWrites, SmallWritesBundles, AggregateFrame
  <2> QED
    BY <2>1, <2>2 DEF AggregateInv
<1>5. ASSUME Rollback \/ Crash
      PROVE  AggregateInv'
  <2>1. tx' = NoTx /\ db' = db /\ work' = db
    BY <1>5 DEF Rollback, Crash
  <2> QED
    BY <1>0, <2>1 DEF AggregateInv
<1>6. ASSUME Boot
      PROVE  AggregateInv'
  <2>1. db' = EnsureReadIndexes(db) /\ work' = db' /\ tx' = tx /\ tx = NoTx
    BY <1>0, <1>6 DEF Boot
  <2>2. CASE db.meta = LatestAssetID(db)
    <3>1. db' = db
      BY <1>0, <2>1, <2>2, EnsureReadIndexesIs
    <3> QED
      BY <1>0, <2>1, <3>1 DEF AggregateInv
  <2>3. CASE db.meta # LatestAssetID(db)
    <3>1. RowsKnown(db') /\ AggregatesExact(db')
      BY <1>0, <2>1, <2>3, BootAggregates
    <3> QED
      BY <2>1, <3>1 DEF AggregateInv
  <2> QED
    BY <2>2, <2>3
<1>7. CASE UNCHANGED storeVars
  BY <1>7 DEF storeVars, AggregateInv
<1> QED
  BY <1>1, <1>2, <1>3, <1>4, <1>5, <1>6, <1>7 DEF StoreNext

\* The bundle tables never drift from the asset tables as long as the rows of
\* a path agree on its bundle, for any number of regions, paths and commits.
THEOREM StoreNoBundleDrift ==
    ASSUME OneBundlePerPath
    PROVE  StoreSpec => []NoBundleDrift
<1>1. StoreInv /\ AggregateInv => NoBundleDrift
  BY DEF StoreInv, AggregateInv, NoBundleDrift
<1> QED
  BY <1>1, InitInv, NextInv, AggregateInit, AggregateStep, PTL DEF StoreSpec

-----------------------------------------------------------------------------
(* The queries.                                                            *)

\* A row that a query returns is a row of the table.
LEMMA QueriedRow ==
    ASSUME NEW d, d.assets \in Seq(Row), NEW ids \in SUBSET DOMAIN d.assets, ids # {}
    PROVE  OldestOf(d, ids) \in RowsOf(d) /\ NewestOf(d, ids) \in RowsOf(d)
<1>1. DOMAIN d.assets = 1..Len(d.assets) /\ Len(d.assets) \in Nat
  BY LenProperties
<1>2. \E i \in ids : \A j \in ids : i <= j
  BY <1>1, LeastNat
<1>3. OldestOf(d, ids) \in RowsOf(d)
  BY <1>2 DEF OldestOf, RowsOf
<1> QED
  BY <1>3, NewestIs DEF RowsOf

\* The queries of CHECK, UPLOAD_BEGIN, UPLOAD_END and COMMIT answer rows of the
\* table they read.
LEMMA QueriesAnswerRows ==
    ASSUME NEW d, d.assets \in Seq(Row)
    PROVE  /\ \A sha : ReusableAssetBySHA(d, sha) \in RowsOf(d) \cup {NoRow}
           /\ \A p, f : SharedExactMatch(d, p, f) \in RowsOf(d) \cup {NoRow}
           /\ \A p : CurrentSharedByPath(d, p) \in RowsOf(d) \cup {NoRow}
           /\ \A b, f : ReusableBundleAssets(d, b, f) \subseteq RowsOf(d)
<1>1. ASSUME NEW sha PROVE ReusableAssetBySHA(d, sha) \in RowsOf(d) \cup {NoRow}
  <2> DEFINE ids == {i \in DOMAIN d.assets : sha # NoSha /\ d.assets[i].sha = sha}
             shared == {i \in ids : ~d.assets[i].override}
             S == IF shared # {} THEN shared ELSE ids
  <2>1. S \in SUBSET DOMAIN d.assets
    OBVIOUS
  <2>2. ReusableAssetBySHA(d, sha) = OldestOf(d, S)
    BY DEF ReusableAssetBySHA
  <2> HIDE DEF S
  <2>3. CASE S = {}
    BY <2>2, <2>3 DEF OldestOf
  <2>4. CASE S # {}
    BY <2>1, <2>2, <2>4, QueriedRow
  <2> QED
    BY <2>3, <2>4
<1>2. ASSUME NEW p, NEW f PROVE SharedExactMatch(d, p, f) \in RowsOf(d) \cup {NoRow}
  <2> DEFINE S == {i \in SharedIdsAt(d, p) : d.assets[i].fp = f}
  <2>1. S \in SUBSET DOMAIN d.assets
    BY DEF SharedIdsAt
  <2>2. SharedExactMatch(d, p, f) = OldestOf(d, S)
    BY DEF SharedExactMatch
  <2> HIDE DEF S
  <2>3. CASE S = {}
    BY <2>2, <2>3 DEF OldestOf
  <2>4. CASE S # {}
    BY <2>1, <2>2, <2>4, QueriedRow
  <2> QED
    BY <2>3, <2>4
<1>3. ASSUME NEW p PROVE CurrentSharedByPath(d, p) \in RowsOf(d) \cup {NoRow}
  <2>1. SharedIdsAt(d, p) \in SUBSET DOMAIN d.assets
    BY DEF SharedIdsAt
  <2>2. CASE SharedIdsAt(d, p) = {}
    BY <2>2 DEF CurrentSharedByPath, NewestOf
  <2>3. CASE SharedIdsAt(d, p) # {}
    BY <2>1, <2>3, QueriedRow DEF CurrentSharedByPath
  <2> QED
    BY <2>2, <2>3
<1>4. ASSUME NEW b, NEW f PROVE ReusableBundleAssets(d, b, f) \subseteq RowsOf(d)
  <2> DEFINE ids(p) == {i \in DOMAIN d.assets : /\ d.assets[i].path = p
                                               /\ d.assets[i].bundle = b
                                               /\ d.assets[i].fp = f}
             shared(p) == {i \in ids(p) : ~d.assets[i].override}
             S(p) == IF shared(p) # {} THEN shared(p) ELSE ids(p)
  <2>1. \A p : S(p) \in SUBSET DOMAIN d.assets /\ (ids(p) # {} => S(p) # {})
    OBVIOUS
  <2>2. ReusableBundleAssets(d, b, f) = {OldestOf(d, S(p)) : p \in {q \in Paths : ids(q) # {}}}
    BY DEF ReusableBundleAssets
  <2> HIDE DEF S, ids
  <2>3. \A p : ids(p) # {} => OldestOf(d, S(p)) \in RowsOf(d)
    BY <2>1, QueriedRow
  <2> QED
    BY <2>2, <2>3
<1> QED
  BY <1>1, <1>2, <1>3, <1>4

\* InsertAsset adds its row and no other, and leaves the completions alone.
LEMMA InsertRows ==
    ASSUME NEW d \in Db, NEW a \in Row
    PROVE  /\ RowsOf(InsertAsset(d, a)) \subseteq RowsOf(d) \cup {a}
           /\ InsertAsset(d, a).completions = d.completions
<1>1. RowsOf(InsertAsset(d, a)) \subseteq RowsOf(d) \cup {a}
  <2>1. d.assets \in Seq(Row) /\ InsertAsset(d, a).assets = upsertAsset(d.assets, a)
    BY InsertAssetIs, Zenon DEF Db
  <2>2. \A i \in DOMAIN upsertAsset(d.assets, a) :
            \/ upsertAsset(d.assets, a)[i] = a
            \/ i \in DOMAIN d.assets /\ upsertAsset(d.assets, a)[i] = d.assets[i]
    BY <2>1, UpsertIs
  <2> QED
    BY <2>1, <2>2 DEF RowsOf
<1>2. InsertAsset(d, a).completions = d.completions
  BY DEF InsertAsset, upsertCurrentAsset, upsertCurrentSharedAsset,
         refreshBundleAggregates, Db
<1> QED
  BY <1>1, <1>2

\* An upserted row is in the table.
LEMMA InsertHas ==
    ASSUME NEW d \in Db, NEW a \in Row
    PROVE  a \in RowsOf(InsertAsset(d, a))
<1>1. d.assets \in Seq(Row) /\ InsertAsset(d, a).assets = upsertAsset(d.assets, a)
  BY InsertAssetIs DEF Db
<1>2. \E n \in DOMAIN upsertAsset(d.assets, a) : upsertAsset(d.assets, a)[n] = a
  <2>1. CASE \E i \in DOMAIN d.assets : SameKey(d.assets[i], a)
    BY <2>1 DEF upsertAsset
  <2>2. CASE ~\E i \in DOMAIN d.assets : SameKey(d.assets[i], a)
    BY <1>1, <2>2, AppendProperties, LenProperties DEF upsertAsset
  <2> QED
    BY <2>1, <2>2
<1> QED
  BY <1>1, <1>2 DEF RowsOf

\* An upsert that refreshes keeps the baseline of every path.
LEMMA RefreshKeeps ==
    ASSUME NEW d \in Db, NEW a \in Row, Refreshes(d, a), NEW p,
           \E r \in RowsOf(d) : ~r.override /\ r.path = p
    PROVE  \E r \in RowsOf(InsertAsset(d, a)) : ~r.override /\ r.path = p
<1> DEFINE u == upsertAsset(d.assets, a)
<1>1. InsertAsset(d, a).assets = u
  BY InsertAssetIs
<1>2. PICK n : LandsAt(d, a, u, n)
  BY UpsertAt
<1>3. PICK i \in DOMAIN d.assets : ~d.assets[i].override /\ d.assets[i].path = p
  BY DEF RowsOf
<1> HIDE DEF u
<1>4. i \in DOMAIN u /\ n \in DOMAIN u /\ u[n] = a
  BY <1>2 DEF LandsAt
<1>5. CASE i # n
  BY <1>1, <1>2, <1>3, <1>4, <1>5 DEF LandsAt, RowsOf
<1>6. CASE i = n
  <2>1. SameKey(d.assets[i], a) /\ ~a.override
    BY <1>2, <1>3, <1>6 DEF LandsAt, Row
  <2>2. a.path = p
    BY <1>3, <2>1 DEF SameKey
  <2> QED
    BY <1>1, <1>4, <2>1, <2>2 DEF RowsOf
<1> QED
  BY <1>5, <1>6

\* CurrentSharedByPath answers the newest shared row of a path, if there is one.
LEMMA BaselineOf ==
    ASSUME NEW d, d.assets \in Seq(Row), NEW p
    PROVE  /\ CurrentSharedByPath(d, p) # NoRow =>
                  \E x \in RowsOf(d) : ~x.override /\ x.path = p /\ x = CurrentSharedByPath(d, p)
           /\ CurrentSharedByPath(d, p) = NoRow => \A x \in RowsOf(d) : x.path = p => x.override
<1>1. SharedIdsAt(d, p) \in SUBSET DOMAIN d.assets
  BY DEF SharedIdsAt
<1>2. CASE SharedIdsAt(d, p) = {}
  BY <1>2 DEF CurrentSharedByPath, NewestOf, SharedIdsAt, RowsOf
<1>3. CASE SharedIdsAt(d, p) # {}
  <2>1. PICK i \in SharedIdsAt(d, p) : CurrentSharedByPath(d, p) = d.assets[i]
    BY <1>1, <1>3, NewestIs DEF CurrentSharedByPath
  <2>2. /\ d.assets[i] \in RowsOf(d) /\ ~d.assets[i].override /\ d.assets[i].path = p
    BY <2>1 DEF SharedIdsAt, RowsOf
  <2>3. d.assets[i] # NoRow
    BY <1>1, <2>1, NoRowAssumption, ElementOfSeq, LenProperties
  <2> QED
    BY <2>1, <2>2, <2>3
<1> QED
  BY <1>2, <1>3

\* ReusableAssetBySHA answers a row with the sha256.
LEMMA ReusedRow ==
    ASSUME NEW d, d.assets \in Seq(Row), NEW sha, ReusableAssetBySHA(d, sha) # NoRow
    PROVE  \E r \in RowsOf(d) : r.sha = sha /\ r = ReusableAssetBySHA(d, sha)
<1> DEFINE ids == {i \in DOMAIN d.assets : sha # NoSha /\ d.assets[i].sha = sha}
           shared == {i \in ids : ~d.assets[i].override}
           S == IF shared # {} THEN shared ELSE ids
<1>1. ReusableAssetBySHA(d, sha) = OldestOf(d, S)
  BY DEF ReusableAssetBySHA
<1>2. S \in SUBSET Nat /\ \A i \in S : i \in DOMAIN d.assets /\ d.assets[i].sha = sha
  BY LenProperties
<1> HIDE DEF S
<1>3. S # {}
  BY <1>1 DEF OldestOf
<1>4. \E i \in S : \A j \in S : i <= j
  BY <1>2, <1>3, LeastNat, Zenon
<1>5. \E i \in S : OldestOf(d, S) = d.assets[i]
  BY <1>3, <1>4 DEF OldestOf
<1> QED
  BY <1>1, <1>2, <1>5 DEF RowsOf

\* A non-empty set of positions of a sequence of rows has a first one.
LEMMA FirstOf ==
    ASSUME NEW s \in Seq(Row), NEW ids \in SUBSET DOMAIN s, ids # {}
    PROVE  \E i \in ids : \A j \in ids : i <= j
<1>1. ids \in SUBSET Nat
  BY LenProperties
<1> QED
  BY <1>1, LeastNat, Zenon

=============================================================================
