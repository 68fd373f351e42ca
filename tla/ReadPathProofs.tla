--------------------------- MODULE ReadPathProofs ---------------------------
(***************************************************************************)
(* The safety of the read path, for any number of requests, regions, paths *)
(* and commits and every capacity and lifetime of the cache.               *)
(***************************************************************************)
EXTENDS ReadPath, AssetStoreProofs, FiniteSetTheorems

USE ZenonT(5), SMTT(30)

-----------------------------------------------------------------------------
(* The list operators of the cache.                                        *)

\* The first i positions hold at most one more kept element than the first
\* i - 1, so every rank up to the number of kept elements is taken.
LEMMA RankTaken ==
    ASSUME NEW len \in Nat, NEW ids \in SUBSET (1..len), NEW n \in 1..Cardinality(ids)
    PROVE  \E i \in ids : Cardinality(ids \cap 1..i) = n
<1> DEFINE upto(k) == ids \cap 1..k
           T == {k \in Nat : k <= len /\ n <= Cardinality(upto(k))}
<1>1. \A k \in Nat : IsFiniteSet(upto(k)) /\ Cardinality(upto(k)) \in Nat
  <2> SUFFICES ASSUME NEW k \in Nat PROVE IsFiniteSet(upto(k))
    BY FS_CardinalityType
  <2>1. IsFiniteSet(1..k)
    BY FS_Interval
  <2> QED
    BY <2>1, FS_Subset
<1>a. upto(len) = ids
  OBVIOUS
<1>b. Cardinality(ids) \in Nat
  BY <1>1, <1>a
<1>c. n \in Nat /\ n <= Cardinality(ids)
  BY <1>b
<1>2. len \in T
  BY <1>a, <1>c
<1>3. PICK k \in T : \A j \in T : k <= j
  <2>1. T \in SUBSET Nat /\ T # {}
    BY <1>2
  <2> QED
    BY <2>1, LeastNat
<1>4. k # 0
  <2>1. upto(0) = {}
    OBVIOUS
  <2> QED
    BY <2>1, FS_EmptySet
<1>5. k \in Nat /\ k - 1 \in Nat /\ k <= len /\ n <= Cardinality(upto(k))
  BY <1>4
<1>6. Cardinality(upto(k - 1)) < n
  <2>1. k - 1 \notin T
    BY <1>3, <1>5
  <2>2. Cardinality(upto(k - 1)) \in Nat
    BY <1>1, <1>5
  <2> QED
    BY <1>5, <1>c, <2>1, <2>2
<1>7. k \in ids
  <2> SUFFICES ASSUME k \notin ids PROVE FALSE
    OBVIOUS
  <2>1. upto(k) = upto(k - 1)
    BY <1>5
  <2> QED
    BY <1>1, <1>5, <1>6, <2>1
<1>8. Cardinality(upto(k)) = Cardinality(upto(k - 1)) + 1
  <2>1. upto(k) = upto(k - 1) \cup {k} /\ k \notin upto(k - 1)
    BY <1>5, <1>7
  <2> HIDE DEF upto
  <2> QED
    BY <1>1, <1>5, <2>1, FS_AddElement
<1>9. Cardinality(upto(k)) = n
  <2>1. Cardinality(upto(k)) \in Nat /\ Cardinality(upto(k - 1)) \in Nat
    BY <1>1, <1>5
  <2> HIDE DEF upto
  <2> QED
    BY <1>5, <1>6, <1>8, <1>c, <2>1
<1> QED
  BY <1>7, <1>9

\* Keep returns a list of elements at distinct kept positions, and as many as
\* there are.
LEMMA KeepIs ==
    ASSUME NEW S, NEW c \in Seq(S), NEW ids \in SUBSET DOMAIN c
    PROVE  /\ Keep(c, ids) \in Seq(S)
           /\ Len(Keep(c, ids)) = Cardinality(ids)
           /\ Len(Keep(c, ids)) <= Len(c)
           /\ ids # DOMAIN c => Len(Keep(c, ids)) < Len(c)
           /\ \E at \in [DOMAIN Keep(c, ids) -> ids] :
                 /\ \A i \in DOMAIN Keep(c, ids) : Keep(c, ids)[i] = c[at[i]]
                 /\ \A i, j \in DOMAIN Keep(c, ids) : at[i] = at[j] => i = j
<1> DEFINE rank(i) == Cardinality(ids \cap 1..i)
           at == [n \in 1..Cardinality(ids) |-> CHOOSE i \in ids : rank(i) = n]
           k == Keep(c, ids)
<1>1. DOMAIN c = 1..Len(c) /\ Len(c) \in Nat /\ c \in [1..Len(c) -> S]
  BY LenProperties
<1>2. IsFiniteSet(DOMAIN c) /\ Cardinality(DOMAIN c) = Len(c)
  <2>1. /\ IsFiniteSet(1..Len(c))
        /\ Cardinality(1..Len(c)) = IF 1 > Len(c) THEN 0 ELSE Len(c) - 1 + 1
    BY <1>1, FS_Interval
  <2>2. Cardinality(1..Len(c)) = Len(c)
    BY <1>1, <2>1
  <2> QED
    BY <1>1, <2>1, <2>2
<1>3. /\ Cardinality(ids) \in Nat /\ Cardinality(ids) <= Len(c)
      /\ ids # DOMAIN c => Cardinality(ids) < Len(c)
  BY <1>1, <1>2, FS_Subset, FS_CardinalityType
<1>4. \A n \in 1..Cardinality(ids) : at[n] \in ids /\ rank(at[n]) = n
  BY <1>1, RankTaken
<1>5. k = [n \in 1..Cardinality(ids) |-> c[at[n]]]
  BY DEF Keep
<1> HIDE DEF at, rank
<1>6. k \in [1..Cardinality(ids) -> S]
  BY <1>1, <1>4, <1>5
<1>7. k \in Seq(S) /\ Len(k) = Cardinality(ids) /\ DOMAIN k = 1..Cardinality(ids)
  BY <1>3, <1>6, IsASeq, LenProperties
<1>8. at \in [DOMAIN k -> ids]
  BY <1>4, <1>7 DEF at
<1>9. \A i, j \in DOMAIN k : at[i] = at[j] => i = j
  BY <1>4, <1>7
<1>10. \A i \in DOMAIN k : k[i] = c[at[i]]
  BY <1>5, <1>7
<1> HIDE DEF k
<1> QED
  BY <1>3, <1>7, <1>8, <1>9, <1>10 DEF k

-----------------------------------------------------------------------------
(* The methods of the cache.                                               *)

\* Every entry of c1 is an entry of c.
EntriesFrom(c1, c) == \A i \in DOMAIN c1 : \E j \in DOMAIN c : c1[i] = c[j]

\* Removing entries leaves a cache.
LEMMA KeepCache ==
    ASSUME NEW c, CacheOK(c), NEW ids \in SUBSET DOMAIN c
    PROVE  /\ CacheOK(Keep(c, ids))
           /\ \A i \in DOMAIN Keep(c, ids) : \E j \in ids : Keep(c, ids)[i] = c[j]
           /\ Len(Keep(c, ids)) \in Nat
           /\ ids # DOMAIN c => Len(Keep(c, ids)) < Len(c)
<1> DEFINE k == Keep(c, ids)
<1>1. c \in Seq(Entry) /\ Len(c) \in Nat
  BY LenProperties DEF CacheOK
<1>2. /\ k \in Seq(Entry) /\ Len(k) <= Len(c)
      /\ ids # DOMAIN c => Len(k) < Len(c)
  BY <1>1, KeepIs
<1>3. PICK at \in [DOMAIN k -> ids] :
         /\ \A i \in DOMAIN k : k[i] = c[at[i]]
         /\ \A i, j \in DOMAIN k : at[i] = at[j] => i = j
  BY <1>1, KeepIs
<1> HIDE DEF k
<1>4. Len(k) \in Nat /\ Len(k) <= MaxItems
  BY <1>1, <1>2, LenProperties, CacheAssumption DEF CacheOK
<1>5. \A i \in DOMAIN k : at[i] \in DOMAIN c /\ k[i] = c[at[i]]
  BY <1>3
<1>6. \A i, j \in DOMAIN k : k[i].key = k[j].key => i = j
  BY <1>3, <1>5 DEF CacheOK
<1>7. \A i \in DOMAIN k : k[i].value.row # NoRow
  BY <1>5 DEF CacheOK
<1>8. CacheOK(k)
  BY <1>2, <1>4, <1>6, <1>7 DEF CacheOK
<1> QED
  BY <1>2, <1>3, <1>4, <1>8 DEF k

\* PushFront of an entry whose key the list does not hold.
LEMMA PushFront ==
    ASSUME NEW x \in Entry, x.value.row # NoRow,
           NEW w, CacheOK(w), \A i \in DOMAIN w : w[i].key # x.key
    PROVE  /\ <<x>> \o w \in Seq(Entry)
           /\ Len(<<x>> \o w) = Len(w) + 1
           /\ \A i \in DOMAIN (<<x>> \o w) :
                 \/ (<<x>> \o w)[i] = x
                 \/ \E j \in DOMAIN w : (<<x>> \o w)[i] = w[j]
           /\ \A i, j \in DOMAIN (<<x>> \o w) :
                 (<<x>> \o w)[i].key = (<<x>> \o w)[j].key => i = j
<1> DEFINE n == <<x>> \o w
<1>1. w \in Seq(Entry) /\ Len(w) \in Nat /\ DOMAIN w = 1..Len(w)
  BY LenProperties DEF CacheOK
<1>2. <<x>> \in Seq(Entry) /\ Len(<<x>>) = 1 /\ <<x>>[1] = x
  OBVIOUS
<1>3. /\ n \in Seq(Entry) /\ Len(n) = 1 + Len(w)
      /\ \A i \in 1..(1 + Len(w)) : n[i] = IF i <= 1 THEN <<x>>[i] ELSE w[i - 1]
  BY <1>1, <1>2, ConcatProperties
<1> HIDE DEF n
<1>4. DOMAIN n = 1..(1 + Len(w))
  BY <1>3, LenProperties
<1>5. n[1] = x
  BY <1>1, <1>2, <1>3
<1>6. \A i \in DOMAIN n : i # 1 => i - 1 \in DOMAIN w /\ n[i] = w[i - 1]
  BY <1>1, <1>3, <1>4
<1>7. \A i, j \in DOMAIN n : n[i].key = n[j].key => i = j
  <2> SUFFICES ASSUME NEW i \in DOMAIN n, NEW j \in DOMAIN n, n[i].key = n[j].key
               PROVE  i = j
    OBVIOUS
  <2>1. CASE i # 1 /\ j # 1
    <3>1. i - 1 = j - 1
      BY <1>6, <2>1 DEF CacheOK
    <3> QED
      BY <1>1, <1>4, <3>1
  <2>2. CASE i = 1 /\ j # 1
    BY <1>5, <1>6, <2>2
  <2>3. CASE i # 1 /\ j = 1
    BY <1>5, <1>6, <2>3
  <2> QED
    BY <2>1, <2>2, <2>3
<1>8. \A i \in DOMAIN n : n[i] = x \/ \E j \in DOMAIN w : n[i] = w[j]
  BY <1>5, <1>6
<1>9. Len(n) = Len(w) + 1
  BY <1>1, <1>3
<1> QED
  BY <1>3, <1>7, <1>8, <1>9 DEF n

\* Get only moves or removes entries.
LEMMA GetCache ==
    ASSUME NEW c, CacheOK(c), NEW k
    PROVE  CacheOK(Get(c, k)) /\ EntriesFrom(Get(c, k), c)
<1> DEFINE ids == {i \in DOMAIN c : c[i].key # k}
           w == Without(c, k)
<1>1. /\ CacheOK(w) /\ Len(w) \in Nat
      /\ \A i \in DOMAIN w : \E j \in ids : w[i] = c[j]
      /\ ids # DOMAIN c => Len(w) < Len(c)
  <2>1. w = Keep(c, ids) /\ ids \in SUBSET DOMAIN c
    BY DEF Without
  <2> HIDE DEF w, ids
  <2> QED
    BY <2>1, KeepCache
<1> HIDE DEF w
<1>2. CASE ~Hit(c, k)
  <2>1. Get(c, k) = w
    BY <1>2 DEF Get, w
  <2> QED
    BY <1>1, <2>1 DEF EntriesFrom
<1>3. CASE Hit(c, k)
  <2> DEFINE x == EntryOf(c, k)
  <2>1. PICK h \in DOMAIN c : c[h].key = k
    BY <1>3 DEF Hit
  <2>2. PICK j \in DOMAIN c : x = c[j] /\ x.key = k
    BY <2>1 DEF EntryOf
  <2> HIDE DEF x
  <2>3. x \in Entry /\ x.value.row # NoRow
    BY <2>2, ElementOfSeq, LenProperties DEF CacheOK
  <2>4. \A i \in DOMAIN w : w[i].key # x.key
    BY <1>1, <2>2
  <2>5. Get(c, k) = <<x>> \o w
    BY <1>3 DEF Get, w, x
  <2>6. /\ Get(c, k) \in Seq(Entry) /\ Len(Get(c, k)) = Len(w) + 1
        /\ \A i \in DOMAIN Get(c, k) : Get(c, k)[i] = x \/ \E m \in DOMAIN w : Get(c, k)[i] = w[m]
        /\ \A i, m \in DOMAIN Get(c, k) : Get(c, k)[i].key = Get(c, k)[m].key => i = m
    BY <1>1, <2>3, <2>4, <2>5, PushFront
  <2>7. EntriesFrom(Get(c, k), c)
    BY <1>1, <2>2, <2>6 DEF EntriesFrom
  <2>8. Len(w) < Len(c)
    BY <1>1, <2>1
  <2>9. Len(Get(c, k)) <= MaxItems
    <3>1. Len(c) \in Nat /\ Len(c) <= MaxItems
      BY LenProperties DEF CacheOK
    <3> QED
      BY <1>1, <2>6, <2>8, <3>1, CacheAssumption
  <2>10. \A i \in DOMAIN Get(c, k) : Get(c, k)[i].value.row # NoRow
    BY <2>7 DEF EntriesFrom, CacheOK
  <2> QED
    BY <2>6, <2>7, <2>9, <2>10 DEF CacheOK
<1> QED
  BY <1>2, <1>3

\* Set adds one entry, in place of the one its key had, and evicts the rest
\* beyond the capacity.
LEMMA SetCache ==
    ASSUME NEW c, CacheOK(c), NEW e \in Entry, e.value.row # NoRow
    PROVE  /\ CacheOK(Set(c, e))
           /\ \A i \in DOMAIN Set(c, e) :
                 \/ Set(c, e)[i] = [e EXCEPT !.left = Ttl]
                 \/ \E j \in DOMAIN c : Set(c, e)[i] = c[j]
<1> DEFINE ids == {i \in DOMAIN c : c[i].key # e.key}
           w == Without(c, e.key)
           x == [e EXCEPT !.left = Ttl]
           new == <<x>> \o w
           m == IF Len(new) > MaxItems THEN MaxItems ELSE Len(new)
<1>1. CASE Disabled
  BY <1>1 DEF Set
<1>2. CASE ~Disabled
  <2>1. CacheOK(w) /\ Len(w) \in Nat /\ \A i \in DOMAIN w : \E j \in ids : w[i] = c[j]
    <3>1. w = Keep(c, ids) /\ ids \in SUBSET DOMAIN c
      BY DEF Without
    <3> HIDE DEF w, ids
    <3> QED
      BY <3>1, KeepCache
  <2>2. x \in Entry /\ x.key = e.key /\ x.value = e.value
    BY CacheAssumption DEF Entry
  <2>3. Set(c, e) = SubSeq(new, 1, m)
    BY <1>2 DEF Set
  <2> HIDE DEF w, x
  <2>4. /\ new \in Seq(Entry) /\ Len(new) = Len(w) + 1
        /\ \A i \in DOMAIN new : new[i] = x \/ \E j \in DOMAIN w : new[i] = w[j]
        /\ \A i, j \in DOMAIN new : new[i].key = new[j].key => i = j
    BY <2>1, <2>2, PushFront
  <2>5. \A i \in DOMAIN new : new[i] = x \/ \E j \in DOMAIN c : new[i] = c[j]
    BY <2>1, <2>4
  <2> HIDE DEF new
  <2>6. DOMAIN new = 1..Len(new) /\ Len(new) \in Nat
    BY <2>4, LenProperties
  <2>7. m \in Nat /\ m <= MaxItems /\ m <= Len(new)
    BY <2>6, CacheAssumption
  <2> HIDE DEF m
  <2>8. \A i \in 1..m : new[i] \in Entry /\ i \in DOMAIN new
    BY <2>4, <2>6, <2>7, ElementOfSeq
  <2>9. /\ SubSeq(new, 1, m) \in Seq(Entry)
        /\ Len(SubSeq(new, 1, m)) = IF 1 <= m THEN m - 1 + 1 ELSE 0
        /\ \A i \in 1..(m - 1 + 1) : SubSeq(new, 1, m)[i] = new[1 + i - 1]
    BY <2>7, <2>8, SubSeqProperties
  <2> DEFINE s == Set(c, e)
  <2>10. /\ s \in Seq(Entry) /\ Len(s) = m
         /\ \A i \in 1..m : s[i] = new[i]
    BY <2>3, <2>7, <2>9
  <2> HIDE DEF s
  <2>11. DOMAIN s = 1..m
    BY <2>10, LenProperties
  <2>12. \A i \in DOMAIN s : s[i] = x \/ \E j \in DOMAIN c : s[i] = c[j]
    BY <2>5, <2>8, <2>10, <2>11
  <2>13. \A i, j \in DOMAIN s : s[i].key = s[j].key => i = j
    BY <2>4, <2>8, <2>10, <2>11
  <2>14. \A i \in DOMAIN s : s[i].value.row # NoRow
    BY <2>2, <2>12 DEF CacheOK
  <2> QED
    BY <2>7, <2>10, <2>12, <2>13, <2>14 DEF CacheOK, s, x
<1> QED
  BY <1>1, <1>2

\* InvalidatePaths leaves no entry of the paths, whatever its server.
LEMMA InvalidateCache ==
    ASSUME NEW c, CacheOK(c), NEW paths
    PROVE  /\ CacheOK(InvalidatePaths(c, paths))
           /\ \A i \in DOMAIN InvalidatePaths(c, paths) :
                 \E j \in DOMAIN c : /\ InvalidatePaths(c, paths)[i] = c[j]
                                    /\ c[j].key[2] \notin paths
<1> DEFINE ids == {i \in DOMAIN c : c[i].key[2] \notin paths}
           k == InvalidatePaths(c, paths)
<1>1. k = Keep(c, ids) /\ ids \in SUBSET DOMAIN c
  BY DEF InvalidatePaths
<1>2. \A j \in ids : j \in DOMAIN c /\ c[j].key[2] \notin paths
  OBVIOUS
<1> HIDE DEF k, ids
<1>3. CacheOK(k) /\ \A i \in DOMAIN k : \E j \in ids : k[i] = c[j]
  BY <1>1, KeepCache
<1> QED
  BY <1>2, <1>3 DEF k

\* Time passing only lets entries expire.
LEMMA AgeCache ==
    ASSUME NEW c, CacheOK(c)
    PROVE  /\ CacheOK(Age(c))
           /\ DOMAIN Age(c) = DOMAIN c
           /\ \A i \in DOMAIN c : /\ Age(c)[i].key = c[i].key
                                  /\ Age(c)[i].value = c[i].value
                                  /\ Age(c)[i].raced = c[i].raced
                                  /\ Age(c)[i].left > 0 => c[i].left > 0
<1> DEFINE a == Age(c)
           older(i) == [c[i] EXCEPT !.left = IF @ = 0 THEN 0 ELSE @ - 1]
<1>1. c \in Seq(Entry) /\ DOMAIN c = 1..Len(c) /\ Len(c) \in Nat
  BY LenProperties DEF CacheOK
<1>2. \A i \in 1..Len(c) : c[i] \in Entry
  BY <1>1, ElementOfSeq
<1>3. \A i \in 1..Len(c) :
         /\ older(i) \in Entry
         /\ older(i).key = c[i].key /\ older(i).value = c[i].value
         /\ older(i).raced = c[i].raced
         /\ older(i).left > 0 => c[i].left > 0
  BY <1>2, CacheAssumption DEF Entry
<1>4. a = [i \in 1..Len(c) |-> older(i)]
  BY <1>1 DEF Age
<1> HIDE DEF older, a
<1>5. a \in [1..Len(c) -> Entry] /\ \A i \in 1..Len(c) : a[i] = older(i)
  BY <1>3, <1>4
<1>6. a \in Seq(Entry) /\ Len(a) = Len(c) /\ DOMAIN a = DOMAIN c
  BY <1>1, <1>5, LenProperties
<1>7. CacheOK(a)
  BY <1>1, <1>3, <1>5, <1>6 DEF CacheOK
<1> QED
  BY <1>1, <1>3, <1>5, <1>6, <1>7 DEF a

-----------------------------------------------------------------------------
(* The read path changes the store only by the store's own actions.        *)

\* A step of the read path is a step of AssetStore or leaves it alone.
LEMMA StepOfStore == [ReadNext]_readVars => [StoreNext]_storeVars
<1> SUFFICES ASSUME [ReadNext]_readVars PROVE [StoreNext]_storeVars
  OBVIOUS
<1>1. CASE UNCHANGED readVars
  BY <1>1 DEF readVars
<1>2. ASSUME NEW r \in Readers, NEW s \in Servers, NEW p \in Paths, ServeHTTP(r, s, p)
      PROVE  UNCHANGED storeVars
  BY <1>2 DEF ServeHTTP, ReaderFrame
<1>3. ASSUME NEW r \in Readers, LookupStep(r)
      PROVE  UNCHANGED storeVars
  BY <1>3 DEF LookupStep, QueryCurrent, QueryShared, QueryLegacyCurrent, QueryLegacyShared,
              LookupFails, Fill, Respond, Query, ReaderFrame
<1>4. ASSUME NEW s \in Servers, NEW v \in Versions, NEW h \in Hashes, BeginCommit(s, v, h)
      PROVE  StoreNext
  BY <1>4 DEF BeginCommit, StoreNext
<1>5. ASSUME NEW a \in PutRows, PutRow(a)
      PROVE  StoreNext
  BY <1>5 DEF PutRow, StoreNext
<1>6. CommitReturns \/ RollbackCommit \/ StopProcess \/ StartProcess => StoreNext
  BY DEF CommitReturns, RollbackCommit, StopProcess, StartProcess, StoreNext
<1>7. ASSUME NEW i \in DOMAIN unswept, Invalidate(i)
      PROVE  UNCHANGED storeVars
  BY <1>7 DEF Invalidate
<1>8. Tick => UNCHANGED storeVars
  BY DEF Tick
<1> QED
  BY <1>1, <1>2, <1>3, <1>4, <1>5, <1>6, <1>7, <1>8 DEF ReadNext

\* The read path implements AssetStore, so every theorem about StoreSpec
\* (the backed index, no false 404, reads across restarts, own commits,
\* override isolation) holds under its requests and invalidations too.
THEOREM ReadImplementsStore == ReadSpec => StoreSpec
<1>1. ReadInit => StoreInit
  BY DEF ReadInit
<1> QED
  BY <1>1, StepOfStore, PTL DEF ReadSpec, StoreSpec

-----------------------------------------------------------------------------
(* What the lookup queries return.                                         *)

\* The newest shared row of a path is a row of assets and no override.
LEMMA SharedRowPlain ==
    ASSUME NEW d \in Db, NEW p \in Paths
    PROVE  /\ CurrentSharedByPath(d, p) \in Row \cup {NoRow}
           /\ ~IsOverride(CurrentSharedByPath(d, p))
<1>1. d.assets \in Seq(Row) /\ \A i \in DOMAIN d.assets : d.assets[i] \in Row
  BY ElementOfSeq, LenProperties DEF Db
<1>2. CASE SharedIdsAt(d, p) = {}
  BY <1>2 DEF CurrentSharedByPath, NewestOf, IsOverride
<1>3. CASE SharedIdsAt(d, p) # {}
  <2>1. SharedIdsAt(d, p) \in SUBSET DOMAIN d.assets
    BY DEF SharedIdsAt
  <2>2. PICK i \in SharedIdsAt(d, p) : CurrentSharedByPath(d, p) = d.assets[i]
    BY <1>1, <1>3, <2>1, NewestIs DEF CurrentSharedByPath
  <2> QED
    BY <1>1, <2>2 DEF SharedIdsAt, IsOverride
<1> QED
  BY <1>2, <1>3

\* The row each query of LookupPlacement returns: typed, of the region asked
\* for, and not an override where only shared rows are asked for.
LEMMA QueryRows ==
    ASSUME NEW d \in Db, NEW s \in Servers, NEW p \in Paths
    PROVE  /\ d.current[<<s, p>>] \in Row \cup {NoRow}
           /\ d.currentShared[p] \in Row \cup {NoRow}
           /\ CurrentByServerPath(d, s, p) \in Row \cup {NoRow}
           /\ CurrentSharedByPath(d, p) \in Row \cup {NoRow}
           /\ CurrentByServerPath(d, s, p) # NoRow => CurrentByServerPath(d, s, p).server = s
           /\ ~IsOverride(CurrentSharedByPath(d, p))
           /\ CurrentIndexed(d) /\ d.current[<<s, p>>] # NoRow => d.current[<<s, p>>].server = s
           /\ LookupPlacement(d, s, p) \in Placement
<1>1. d.current[<<s, p>>] \in Row \cup {NoRow} /\ d.currentShared[p] \in Row \cup {NoRow}
  BY DEF Db
<1>2. d.assets \in Seq(Row) /\ \A i \in DOMAIN d.assets : d.assets[i] \in Row
  BY ElementOfSeq, LenProperties DEF Db
<1>3. /\ CurrentByServerPath(d, s, p) \in Row \cup {NoRow}
      /\ CurrentByServerPath(d, s, p) # NoRow => CurrentByServerPath(d, s, p).server = s
  <2>1. CASE IdsAt(d, s, p) = {}
    BY <2>1 DEF CurrentByServerPath, NewestOf
  <2>2. CASE IdsAt(d, s, p) # {}
    <3>1. IdsAt(d, s, p) \in SUBSET DOMAIN d.assets
      BY DEF IdsAt
    <3>2. PICK i \in IdsAt(d, s, p) : CurrentByServerPath(d, s, p) = d.assets[i]
      BY <1>2, <2>2, <3>1, NewestIs DEF CurrentByServerPath
    <3> QED
      BY <1>2, <3>2 DEF IdsAt
  <2> QED
    BY <2>1, <2>2
<1>4. /\ CurrentSharedByPath(d, p) \in Row \cup {NoRow}
      /\ ~IsOverride(CurrentSharedByPath(d, p))
  BY SharedRowPlain
<1>5. CurrentIndexed(d) /\ d.current[<<s, p>>] # NoRow => d.current[<<s, p>>].server = s
  BY DEF CurrentIndexed, IdsAt
<1>6. LookupPlacement(d, s, p) \in Placement
  <2>1. \A row \in Row \cup {NoRow}, b \in BOOLEAN : [row |-> row, shared |-> b] \in Placement
    BY DEF Placement
  <2> QED
    BY <1>1, <1>3, <1>4, <2>1 DEF LookupPlacement, NotFound
<1> QED
  BY <1>1, <1>3, <1>4, <1>5, <1>6

\* A placement depends on the two index tables at its key only, once they
\* are maintained.
LEMMA SamePlacement ==
    ASSUME NEW d \in Db, NEW e \in Db, CurrentIndexed(d), SharedIndexed(d),
           CurrentIndexed(e), SharedIndexed(e), NEW s \in Servers, NEW p \in Paths,
           e.current[<<s, p>>] = d.current[<<s, p>>], e.currentShared[p] = d.currentShared[p]
    PROVE  LookupPlacement(e, s, p) = LookupPlacement(d, s, p)
BY IndexedLookup

\* What a request is by the step it has reached.
LEMMA RequestCases ==
    ASSUME NEW q \in {Idle} \cup Request \cup Answer
    PROVE  /\ q.op \in {"idle", "current", "shared", "legacyCurrent", "legacyShared",
                        "set", "respond"}
           /\ q.op = "idle" <=> q = Idle
           /\ q.op \in {"current", "shared", "legacyCurrent", "legacyShared"} <=> q \in Request
           /\ q.op \in {"set", "respond"} <=> q \in Answer
           /\ q.op # "idle" => q.s \in Servers /\ q.p \in Paths /\ q.seen \in SUBSET Placement
           /\ q \in Answer => q.place \in Placement
<1>1. CASE q = Idle
  BY <1>1 DEF Idle, Request, Answer
<1>2. CASE q \in Request
  BY <1>2 DEF Idle, Request, Answer
<1>3. CASE q \in Answer
  BY <1>3 DEF Idle, Request, Answer
<1> QED
  BY <1>1, <1>2, <1>3

-----------------------------------------------------------------------------
(* The inductive invariant: steps of requests.                             *)

\* A cache entry is right: of its region, and fresh unless an invalidation is
\* due or a commit overtook the request that filled it.
EntryInv(e) ==
    /\ IsolatedAnswer(e.value, e.key[1])
    /\ Fresh1(e) \/ e.key[2] \in Unswept \/ e.raced

\* The two clauses of ReadInv about the cache, entry by entry.
LEMMA CacheClauses ==
    /\ (\A i \in DOMAIN cache : EntryInv(cache[i]))
          <=> /\ \A i \in DOMAIN cache : IsolatedAnswer(cache[i].value, cache[i].key[1])
              /\ StaleOnlyByRace
BY DEF EntryInv, StaleOnlyByRace

\* A step of request r keeps the invariant when the state it reaches and the
\* entry it may add to the cache are right.
LEMMA ReaderStep ==
    ASSUME ReadInv, ReaderFrame, up, NEW r \in Readers,
           NEW q \in {Idle} \cup Request \cup Answer, LookupInv(q),
           rd' = [rd EXCEPT ![r] = q],
           CacheOK(cache'),
           \A i \in DOMAIN cache' : \/ EntryInv(cache'[i])
                                    \/ \E j \in DOMAIN cache : cache'[i] = cache[j]
    PROVE  ReadInv'
<1>1. /\ db' = db /\ work' = work /\ tx' = tx /\ up' = up
      /\ changed' = changed /\ unswept' = unswept /\ commits' = commits
  BY DEF ReaderFrame, storeVars
<1>2. rd \in [Readers -> {Idle} \cup Request \cup Answer]
  BY DEF ReadInv, ReadTypeOK
<1>3. /\ rd' \in [Readers -> {Idle} \cup Request \cup Answer]
      /\ \A x \in Readers : rd'[x] = IF x = r THEN q ELSE rd[x]
  BY <1>2
<1>4. ReadTypeOK'
  BY <1>1, <1>3 DEF ReadInv, ReadTypeOK, StoreTypeOK, CacheOK
<1>6. \A x \in Readers : LookupInv(rd[x])'
  <2>1. \A x \in Readers : LookupInv(rd'[x])
    BY <1>3 DEF ReadInv
  <2> QED
    BY <1>1, <2>1 DEF LookupInv, SawNothing, IsolatedAnswer
<1>7. \A i \in DOMAIN cache' : EntryInv(cache'[i])
  BY CacheClauses DEF ReadInv
<1>8. /\ \A i \in DOMAIN cache' : IsolatedAnswer(cache'[i].value, cache'[i].key[1])
      /\ StaleOnlyByRace'
  BY <1>1, <1>7 DEF EntryInv, StaleOnlyByRace, Fresh1, Unswept
<1>9. (tx # NoTx => commits < MaxCommits /\ ChangedOnly)' /\ (SharedPlain(db) /\ SharedPlain(work))'
  BY <1>1 DEF ReadInv, ChangedOnly, SharedPlain
<1> QED
  BY <1>1, <1>4, <1>6, <1>8, <1>9 DEF ReadInv, IsolatedAnswer

\* Facts about the request of a running lookup.
LEMMA RequestIs ==
    ASSUME ReadInv, StoreInv, up, NEW r \in Readers, rd[r] # Idle
    PROVE  /\ rd[r].s \in Servers /\ rd[r].p \in Paths /\ rd[r].seen \in SUBSET Placement
           /\ rd[r] \in Request \cup Answer /\ LookupInv(rd[r])
           /\ db \in Db /\ CurrentIndexed(db) /\ SharedIndexed(db) /\ SharedPlain(db)
<1>1. rd[r] \in {Idle} \cup Request \cup Answer
  BY DEF ReadInv, ReadTypeOK
<1>2. rd[r].op # "idle"
  BY <1>1, RequestCases
<1>3. rd[r].s \in Servers /\ rd[r].p \in Paths /\ rd[r].seen \in SUBSET Placement
  BY <1>1, <1>2, RequestCases
<1>4. LookupInv(rd[r]) /\ SharedPlain(db)
  BY DEF ReadInv
<1>5. db \in Db /\ CurrentIndexed(db) /\ SharedIndexed(db)
  BY DEF StoreInv, StoreTypeOK
<1> QED
  BY <1>1, <1>3, <1>4, <1>5

\* The cache lookup: a hit answers with an entry of the request's own key.
LEMMA ServeHTTPInv ==
    ASSUME ReadInv, StoreInv, NEW r \in Readers, NEW s \in Servers, NEW p \in Paths,
           ServeHTTP(r, s, p)
    PROVE  ReadInv'
<1> DEFINE k == cacheKey(s, p)
<1>1. up /\ ReaderFrame /\ cache' = Get(cache, k) /\ CacheOK(cache)
  BY DEF ServeHTTP, ReadInv, ReadTypeOK
<1>2. CacheOK(cache') /\ \A i \in DOMAIN cache' : \E j \in DOMAIN cache : cache'[i] = cache[j]
  BY <1>1, GetCache DEF EntriesFrom
<1>3. CASE Hit(cache, k)
  <2> DEFINE e == EntryOf(cache, k)
             q == [op |-> "respond", s |-> s, p |-> p, seen |-> {}, place |-> e.value]
  <2>1. PICK h \in DOMAIN cache : cache[h].key = k
    BY <1>3 DEF Hit
  <2>2. PICK j \in DOMAIN cache : e = cache[j] /\ e.key = k
    BY <2>1 DEF EntryOf
  <2>3. cache[j] \in Entry
    BY <1>1, ElementOfSeq, LenProperties DEF CacheOK
  <2>4. e.value \in Placement
    BY <2>2, <2>3 DEF Entry
  <2>5. IsolatedAnswer(e.value, s)
    BY <2>2 DEF ReadInv, cacheKey
  <2>6. rd' = [rd EXCEPT ![r] = q]
    BY <1>3 DEF ServeHTTP, Goto
  <2> HIDE DEF e
  <2>7. q \in Answer /\ LookupInv(q)
    BY <2>4, <2>5 DEF Answer, LookupInv
  <2> HIDE DEF q
  <2> QED
    BY <1>1, <1>2, <2>6, <2>7, ReaderStep
<1>4. CASE ~Hit(cache, k)
  <2> DEFINE q == Request0(s, p)
  <2>1. rd' = [rd EXCEPT ![r] = q]
    BY <1>4 DEF ServeHTTP, Goto
  <2>2. LookupPlacement(db, s, p) \in Placement
    BY QueryRows DEF StoreInv, StoreTypeOK
  <2>3. q \in Request /\ LookupInv(q)
    BY <2>2 DEF Request, Request0, LookupInv
  <2> HIDE DEF q
  <2> QED
    BY <1>1, <1>2, <2>1, <2>3, ReaderStep
<1> QED
  BY <1>3, <1>4

\* A query that finds a row ends the lookup with it.
LEMMA FoundInv ==
    ASSUME ReadInv, StoreInv, up, ReaderFrame, UNCHANGED cache,
           NEW r \in Readers, rd[r] # Idle, rd[r].op # "respond",
           NEW row \in Row \cup {NoRow}, NEW shared \in BOOLEAN, Found(r, row, shared),
           IsOverride(row) => row.server = rd[r].s /\ ~shared,
           row = NoRow => SawNothing(rd[r])
    PROVE  ReadInv'
<1> DEFINE q == [op |-> "set", s |-> rd[r].s, p |-> rd[r].p, seen |-> rd[r].seen,
                 place |-> [row |-> row, shared |-> shared]]
<1>1. rd' = [rd EXCEPT ![r] = q]
  BY DEF Found, Goto
<1>2. /\ rd[r].s \in Servers /\ rd[r].p \in Paths /\ rd[r].seen \in SUBSET Placement
      /\ LookupInv(rd[r]) /\ rd[r] \in Request \cup Answer
  BY RequestIs
<1>3. [row |-> row, shared |-> shared] \in Placement
  BY DEF Placement
<1>4. q \in Answer
  BY <1>2, <1>3 DEF Answer
<1>5. rd[r].op \notin {"idle", "respond"}
  BY <1>2, RequestCases
<1>6. LookupInv(q)
  BY <1>2, <1>5 DEF LookupInv, IsolatedAnswer, SawNothing
<1>7. CacheOK(cache') /\ \A i \in DOMAIN cache' : \E j \in DOMAIN cache : cache'[i] = cache[j]
  BY DEF ReadInv, ReadTypeOK
<1> HIDE DEF q
<1> QED
  BY <1>1, <1>4, <1>6, <1>7, ReaderStep

\* A query that finds no row hands over to the next one.
LEMMA NextQueryInv ==
    ASSUME ReadInv, StoreInv, up, ReaderFrame, UNCHANGED cache,
           NEW r \in Readers, rd[r] \in Request,
           NEW op \in {"shared", "legacyCurrent", "legacyShared"},
           rd' = [rd EXCEPT ![r] = [rd[r] EXCEPT !.op = op]],
           SawNothing(rd[r]) \/ (op = "shared" /\ db.currentShared[rd[r].p] # NoRow)
    PROVE  ReadInv'
<1> DEFINE q == [rd[r] EXCEPT !.op = op]
<1>1. /\ q \in Request /\ q.op = op /\ q.s = rd[r].s /\ q.p = rd[r].p /\ q.seen = rd[r].seen
      /\ rd[r].op \notin {"idle", "respond"}
  BY DEF Request
<1>2. LookupInv(rd[r])
  BY DEF ReadInv
<1>3. LookupInv(q)
  BY <1>1, <1>2 DEF LookupInv, SawNothing
<1>4. CacheOK(cache') /\ \A i \in DOMAIN cache' : \E j \in DOMAIN cache : cache'[i] = cache[j]
  BY DEF ReadInv, ReadTypeOK
<1> HIDE DEF q
<1>5. rd' = [rd EXCEPT ![r] = q]
  BY DEF q
<1> QED
  BY <1>1, <1>3, <1>4, <1>5, ReaderStep

\* The request returns to its pool with an answer given or an error.
LEMMA IdleInv ==
    ASSUME ReadInv, up, ReaderFrame, UNCHANGED cache, NEW r \in Readers, Goto(r, Idle)
    PROVE  ReadInv'
<1>1. LookupInv(Idle)
  BY DEF LookupInv, Idle
<1>2. CacheOK(cache') /\ \A i \in DOMAIN cache' : \E j \in DOMAIN cache : cache'[i] = cache[j]
  BY DEF ReadInv, ReadTypeOK
<1> QED
  BY <1>1, <1>2, ReaderStep DEF Goto

\* Each query of LookupPlacement, on the database of its moment.
LEMMA QueryInv ==
    ASSUME ReadInv, StoreInv, NEW r \in Readers,
           QueryCurrent(r) \/ QueryShared(r) \/ QueryLegacyCurrent(r) \/ QueryLegacyShared(r)
    PROVE  ReadInv'
<1> DEFINE s == rd[r].s
           p == rd[r].p
<1>1. /\ up /\ ReaderFrame /\ UNCHANGED cache
      /\ rd[r].op \in {"current", "shared", "legacyCurrent", "legacyShared"}
  BY DEF QueryCurrent, QueryShared, QueryLegacyCurrent, QueryLegacyShared, Query
<1>2. rd[r] \in {Idle} \cup Request \cup Answer
  BY DEF ReadInv, ReadTypeOK
<1>3. rd[r] \in Request /\ rd[r] # Idle
  BY <1>1, <1>2, RequestCases DEF Idle
<1>4. /\ s \in Servers /\ p \in Paths /\ LookupInv(rd[r])
      /\ db \in Db /\ CurrentIndexed(db) /\ SharedIndexed(db) /\ SharedPlain(db)
  BY <1>1, <1>3, RequestIs
<1>5. LookupPlacement(db, s, p) \in rd[r].seen
  BY <1>1, <1>4 DEF LookupInv
<1>6. CASE QueryCurrent(r)
  <2> DEFINE c == db.current[<<s, p>>]
  <2>1. c \in Row \cup {NoRow} /\ (c # NoRow => c.server = s)
    BY <1>4, QueryRows
  <2>2. CASE IsOverride(c)
    <3>1. Found(r, c, FALSE) /\ c # NoRow
      BY <1>6, <2>2 DEF QueryCurrent, IsOverride
    <3> HIDE DEF c
    <3> QED
      BY <1>1, <1>3, <2>1, <3>1, FoundInv
  <2>3. CASE ~IsOverride(c)
    <3>1. rd' = [rd EXCEPT ![r] = [rd[r] EXCEPT !.op = "shared"]]
      BY <1>6, <2>3 DEF QueryCurrent, Goto
    <3>2. SawNothing(rd[r]) \/ db.currentShared[p] # NoRow
      <4> SUFFICES ASSUME db.currentShared[p] = NoRow PROVE SawNothing(rd[r])
        OBVIOUS
      <4>1. LookupPlacement(db, s, p) = NotFound
        BY <1>4, <2>3, IndexedLookup
      <4> QED
        BY <1>5, <4>1 DEF SawNothing, NotFound
    <3> QED
      BY <1>1, <1>3, <3>1, <3>2, NextQueryInv
  <2> QED
    BY <2>2, <2>3
<1>7. CASE QueryShared(r)
  <2> DEFINE c == db.currentShared[p]
  <2>1. c \in Row \cup {NoRow} /\ ~IsOverride(c)
    BY <1>4, QueryRows DEF SharedPlain
  <2>2. CASE c # NoRow
    <3>1. Found(r, c, TRUE)
      BY <1>7, <2>2 DEF QueryShared
    <3> HIDE DEF c
    <3> QED
      BY <1>1, <1>3, <2>1, <2>2, <3>1, FoundInv
  <2>3. CASE c = NoRow
    <3>1. rd' = [rd EXCEPT ![r] = [rd[r] EXCEPT !.op = "legacyCurrent"]]
      BY <1>7, <2>3 DEF QueryShared, Goto
    <3>2. SawNothing(rd[r])
      BY <1>4, <1>7, <2>3 DEF LookupInv, QueryShared, Query
    <3> QED
      BY <1>1, <1>3, <3>1, <3>2, NextQueryInv
  <2> QED
    BY <2>2, <2>3
<1>8. CASE QueryLegacyCurrent(r)
  <2> DEFINE c == CurrentByServerPath(db, s, p)
  <2>1. c \in Row \cup {NoRow} /\ (c # NoRow => c.server = s)
    BY <1>4, QueryRows
  <2>2. CASE IsOverride(c)
    <3>1. Found(r, c, FALSE) /\ c # NoRow
      BY <1>8, <2>2 DEF QueryLegacyCurrent, IsOverride
    <3> HIDE DEF c
    <3> QED
      BY <1>1, <1>3, <2>1, <3>1, FoundInv
  <2>3. CASE ~IsOverride(c)
    <3>1. rd' = [rd EXCEPT ![r] = [rd[r] EXCEPT !.op = "legacyShared"]]
      BY <1>8, <2>3 DEF QueryLegacyCurrent, Goto
    <3>2. SawNothing(rd[r])
      BY <1>4, <1>8 DEF LookupInv, QueryLegacyCurrent, Query
    <3> QED
      BY <1>1, <1>3, <3>1, <3>2, NextQueryInv
  <2> QED
    BY <2>2, <2>3
<1>9. CASE QueryLegacyShared(r)
  <2> DEFINE c == CurrentSharedByPath(db, p)
  <2>1. c \in Row \cup {NoRow} /\ ~IsOverride(c)
    BY <1>4, QueryRows
  <2>2. Found(r, c, c # NoRow)
    BY <1>9 DEF QueryLegacyShared
  <2>3. SawNothing(rd[r])
    BY <1>4, <1>9 DEF LookupInv, QueryLegacyShared, Query
  <2>4. (c # NoRow) \in BOOLEAN
    OBVIOUS
  <2> HIDE DEF c
  <2> QED
    BY <1>1, <1>3, <2>1, <2>2, <2>3, <2>4, FoundInv
<1> QED
  BY <1>6, <1>7, <1>8, <1>9

\* Cache.Set: an entry whose request no commit overtook is what SQLite holds,
\* for the request has seen the placement of this moment and no other.
LEMMA FillInv ==
    ASSUME ReadInv, StoreInv, NEW r \in Readers, Fill(r)
    PROVE  ReadInv'
<1> DEFINE place == rd[r].place
           e == [key |-> cacheKey(rd[r].s, rd[r].p), value |-> place, left |-> Ttl,
                 raced |-> rd[r].seen # {place}]
           q == [rd[r] EXCEPT !.op = "respond"]
<1>1. /\ up /\ rd[r].op = "set" /\ ReaderFrame /\ rd' = [rd EXCEPT ![r] = q]
      /\ cache' = IF place.row = NoRow THEN cache ELSE Set(cache, e)
  BY DEF Fill, Goto
<1>2. rd[r] \in Answer /\ rd[r] # Idle
  <2>1. rd[r] \in {Idle} \cup Request \cup Answer
    BY DEF ReadInv, ReadTypeOK
  <2> QED
    BY <1>1, <2>1, RequestCases DEF Idle
<1>3. /\ rd[r].s \in Servers /\ rd[r].p \in Paths /\ LookupInv(rd[r]) /\ place \in Placement
  BY <1>1, <1>2, RequestIs DEF Answer
<1>4. /\ LookupPlacement(db, rd[r].s, rd[r].p) \in rd[r].seen
      /\ IsolatedAnswer(place, rd[r].s)
  BY <1>1, <1>3 DEF LookupInv
<1>5. q \in Answer /\ LookupInv(q)
  <2>1. q \in Answer /\ q.op = "respond" /\ q.place = place /\ q.s = rd[r].s
    BY <1>2 DEF Answer
  <2> HIDE DEF q
  <2> QED
    BY <1>4, <2>1 DEF LookupInv
<1>6. CacheOK(cache)
  BY DEF ReadInv, ReadTypeOK
<1>7. CASE place.row = NoRow
  <2>1. cache' = cache
    BY <1>1, <1>7
  <2> HIDE DEF q, place, e
  <2> QED
    BY <1>1, <1>5, <1>6, <2>1, ReaderStep
<1>8. CASE place.row # NoRow
  <2>1. e \in Entry /\ e.value.row # NoRow /\ [e EXCEPT !.left = Ttl] = e
    BY <1>3, <1>8, CacheAssumption DEF Entry, cacheKey
  <2>2. EntryInv(e)
    <3>1. e.key[1] = rd[r].s /\ e.key[2] = rd[r].p /\ e.value = place
          /\ (e.raced <=> rd[r].seen # {place})
      BY DEF cacheKey
    <3>2. ~e.raced => e.value = LookupPlacement(db, e.key[1], e.key[2])
      BY <1>4, <3>1
    <3> HIDE DEF e
    <3> QED
      BY <1>4, <3>1, <3>2 DEF EntryInv, Fresh1
  <2> HIDE DEF e, q, place
  <2>3. CacheOK(cache') /\ \A i \in DOMAIN cache' :
           cache'[i] = e \/ \E j \in DOMAIN cache : cache'[i] = cache[j]
    BY <1>1, <1>6, <1>8, <2>1, SetCache
  <2> QED
    BY <1>1, <1>5, <2>2, <2>3, ReaderStep
<1> QED
  BY <1>7, <1>8

-----------------------------------------------------------------------------
(* The inductive invariant: commits, invalidation, time and the process.   *)

\* A step that leaves the committed database, the cache, the requests and the
\* pending invalidations alone disturbs only the clauses about the transaction.
LEMMA WriterStep ==
    ASSUME ReadInv, StoreInv', UNCHANGED <<db, up, cache, rd, unswept, commits>>,
           changed' \subseteq Paths,
           tx' # NoTx => commits < MaxCommits /\ ChangedOnly',
           SharedPlain(work')
    PROVE  ReadInv'
<1>1. ReadTypeOK'
  BY DEF ReadInv, ReadTypeOK, CacheOK, StoreInv
<1>2. \A r \in Readers : LookupInv(rd[r])'
  BY DEF ReadInv, LookupInv, SawNothing, IsolatedAnswer
<1>3. /\ \A i \in DOMAIN cache' : IsolatedAnswer(cache'[i].value, cache'[i].key[1])
      /\ StaleOnlyByRace'
  BY DEF ReadInv, StaleOnlyByRace, Fresh1, Unswept
<1> QED
  BY <1>1, <1>2, <1>3 DEF ReadInv, SharedPlain, IsolatedAnswer

\* The transaction begins with the committed tables.
LEMMA BeginCommitInv ==
    ASSUME ReadInv, StoreInv, StoreInv',
           NEW s \in Servers, NEW v \in Versions, NEW h \in Hashes, BeginCommit(s, v, h)
    PROVE  ReadInv'
<1>1. /\ work' = InsertVersion(db, s, v, h) /\ commits < MaxCommits
      /\ UNCHANGED <<db, up, cache, rd, unswept, commits>> /\ changed' = changed
  BY DEF BeginCommit, Begin
<1>2. work'.current = db.current /\ work'.currentShared = db.currentShared
  BY <1>1, SmallWrites DEF StoreInv, StoreTypeOK
<1>3. ChangedOnly' /\ SharedPlain(work')
  BY <1>1, <1>2 DEF ChangedOnly, SharedPlain, ReadInv
<1>4. changed' \subseteq Paths
  BY <1>1 DEF ReadInv, ReadTypeOK
<1> QED
  BY <1>1, <1>3, <1>4, WriterStep

\* A row moves the index at its own path only, and that path is recorded.
LEMMA PutRowInv ==
    ASSUME ReadInv, StoreInv, StoreInv', NEW a \in Row, PutRow(a)
    PROVE  ReadInv'
<1>1. /\ work' = InsertAsset(work, a) /\ tx' = tx /\ changed' = changed \cup {a.path}
      /\ UNCHANGED <<db, up, cache, rd, unswept, commits>>
  BY DEF PutRow, Put
<1>2. tx # NoTx
  BY DEF PutRow, Put, NoTx
<1>3. work \in Db /\ a.server \in Servers /\ a.path \in Paths /\ a.override \in BOOLEAN
  BY DEF StoreInv, StoreTypeOK, Row
<1>4. /\ work'.current = [work.current EXCEPT ![<<a.server, a.path>>] = a]
      /\ work'.currentShared = IF a.override THEN work.currentShared
                               ELSE [work.currentShared EXCEPT ![a.path] = a]
  BY <1>1, <1>3, InsertAssetIs
<1>5. /\ work.current \in [Servers \X Paths -> Row \cup {NoRow}]
      /\ work.currentShared \in [Paths -> Row \cup {NoRow}]
  BY <1>3 DEF Db
<1>6. ChangedOnly /\ commits < MaxCommits /\ SharedPlain(work)
  BY <1>2 DEF ReadInv
<1>7. \A p \in Paths : work'.currentShared[p] \in {work.currentShared[p], a}
      /\ (p # a.path => work'.currentShared[p] = work.currentShared[p])
      /\ (work'.currentShared[p] # work.currentShared[p] => work'.currentShared[p] = a /\ ~a.override)
  BY <1>3, <1>4, <1>5
<1>8. \A p \in Paths, s \in Servers : p # a.path => work'.current[<<s, p>>] = work.current[<<s, p>>]
  BY <1>3, <1>4, <1>5
<1>9. ChangedOnly'
  BY <1>1, <1>6, <1>7, <1>8, NoRowAssumption DEF ChangedOnly
<1>10. SharedPlain(work')
  BY <1>6, <1>7 DEF SharedPlain, IsOverride
<1>11. changed' \subseteq Paths
  BY <1>1, <1>3 DEF ReadInv, ReadTypeOK
<1> QED
  BY <1>1, <1>6, <1>9, <1>10, <1>11, WriterStep

\* A rollback leaves the committed tables.
LEMMA RollbackInv ==
    ASSUME ReadInv, StoreInv', RollbackCommit
    PROVE  ReadInv'
<1>1. /\ work' = db /\ tx' = NoTx /\ changed' = {}
      /\ UNCHANGED <<db, up, cache, rd, unswept, commits>>
  BY DEF RollbackCommit, Rollback
<1>2. SharedPlain(work')
  BY <1>1 DEF ReadInv
<1> QED
  BY <1>1, <1>2, WriterStep

\* tx.Commit: an answer that the commit changes is of a changed path, whose
\* invalidation is now due.
LEMMA CommitInv ==
    ASSUME ReadInv, StoreInv, StoreInv', CommitReturns
    PROVE  ReadInv'
<1>1. /\ tx # NoTx /\ tx' = NoTx /\ up' = up /\ db' = MarkReadIndexCurrent(work) /\ work' = db'
      /\ changed' = {} /\ commits' = commits + 1 /\ cache' = cache
      /\ unswept' = IF changed = {} THEN unswept ELSE Append(unswept, changed)
      /\ rd' = [r \in Readers |->
                  IF Looking(r)
                  THEN [rd[r] EXCEPT !.seen = @ \cup {LookupPlacement(db', rd[r].s, rd[r].p)}]
                  ELSE rd[r]]
  BY DEF CommitReturns, CommitTx
<1>2. up /\ db \in Db /\ work \in Db /\ db' \in Db
  BY <1>1 DEF StoreInv, StoreTypeOK
<1>3. db'.current = work.current /\ db'.currentShared = work.currentShared
  BY <1>1, <1>2, SmallWrites
<1>4. CurrentIndexed(db) /\ SharedIndexed(db) /\ CurrentIndexed(db') /\ SharedIndexed(db')
  BY <1>1, <1>2 DEF StoreInv
<1>5. ChangedOnly /\ commits < MaxCommits /\ changed \subseteq Paths
      /\ unswept \in Seq(SUBSET Paths) /\ CacheOK(cache) /\ commits \in 0..MaxCommits
      /\ rd \in [Readers -> {Idle} \cup Request \cup Answer]
  BY <1>1 DEF ReadInv, ReadTypeOK
<1>6. unswept' \in Seq(SUBSET Paths)
      /\ \A p : p \in Unswept \/ p \in changed => p \in Unswept'
  <2>1. CASE changed = {}
    BY <1>1, <1>5, <2>1 DEF Unswept
  <2>2. CASE changed # {}
    <3>1. /\ unswept' \in Seq(SUBSET Paths) /\ Len(unswept') = Len(unswept) + 1
          /\ \A i \in 1..Len(unswept) : unswept'[i] = unswept[i]
          /\ unswept'[Len(unswept) + 1] = changed
      BY <1>1, <1>5, <2>2, AppendProperties
    <3>2. /\ DOMAIN unswept = 1..Len(unswept) /\ Len(unswept) \in Nat
          /\ DOMAIN unswept' = 1..(Len(unswept) + 1)
      BY <1>5, <3>1, LenProperties
    <3>3. \A i \in DOMAIN unswept : i \in DOMAIN unswept' /\ unswept'[i] = unswept[i]
      BY <3>1, <3>2
    <3>4. Len(unswept) + 1 \in DOMAIN unswept'
      BY <3>2
    <3> QED
      BY <3>1, <3>3, <3>4 DEF Unswept
  <2> QED
    BY <2>1, <2>2
<1>7. \A r \in Readers : /\ rd'[r] \in {Idle} \cup Request \cup Answer
                         /\ LookupInv(rd[r])'
  <2> SUFFICES ASSUME NEW r \in Readers
               PROVE  rd'[r] \in {Idle} \cup Request \cup Answer /\ LookupInv(rd[r])'
    OBVIOUS
  <2> DEFINE l == LookupPlacement(db', rd[r].s, rd[r].p)
             q == [rd[r] EXCEPT !.seen = @ \cup {l}]
  <2>0. rd[r] \in {Idle} \cup Request \cup Answer /\ LookupInv(rd[r])
    BY <1>5 DEF ReadInv
  <2>1. CASE ~Looking(r)
    <3>1. rd'[r] = rd[r] /\ rd[r].op \in {"idle", "respond"}
      BY <1>1, <2>1 DEF Looking
    <3> QED
      BY <2>0, <3>1 DEF LookupInv, IsolatedAnswer
  <2>2. CASE Looking(r)
    <3>1. rd'[r] = q /\ rd[r].op \notin {"idle", "respond"}
      BY <1>1, <2>2 DEF Looking
    <3>2. rd[r].s \in Servers /\ rd[r].p \in Paths
      BY <2>0, <3>1, RequestCases
    <3>3. l \in Placement
      BY <1>2, <3>2, QueryRows
    <3> HIDE DEF l
    <3>4. /\ q \in Request \cup Answer /\ q.op = rd[r].op /\ q.s = rd[r].s /\ q.p = rd[r].p
          /\ q.seen = rd[r].seen \cup {l}
          /\ q.op = "set" => q.place = rd[r].place
      <4>1. CASE rd[r] \in Request
        BY <3>3, <4>1 DEF Request
      <4>2. CASE rd[r] \in Answer
        BY <3>3, <4>2 DEF Answer
      <4> QED
        BY <2>0, <3>1, <4>1, <4>2 DEF Idle
    <3> HIDE DEF q
    <3>5. SawNothing(rd[r]) => SawNothing(q)
      BY <3>4 DEF SawNothing
    <3>6. db.currentShared[rd[r].p] # NoRow => db'.currentShared[q.p] # NoRow
      BY <1>3, <1>5, <3>2, <3>4 DEF ChangedOnly
    <3>7. LookupPlacement(db', q.s, q.p) \in q.seen
      BY <3>4 DEF l
    <3>8. LookupInv(rd[r])'
      BY <2>0, <3>1, <3>4, <3>5, <3>6, <3>7 DEF LookupInv, SawNothing, IsolatedAnswer
    <3> QED
      BY <3>1, <3>4, <3>8
  <2> QED
    BY <2>1, <2>2
<1>8. rd' \in [Readers -> {Idle} \cup Request \cup Answer]
  BY <1>1, <1>7
<1>9. StaleOnlyByRace'
  <2> SUFFICES ASSUME NEW i \in DOMAIN cache
               PROVE  (Fresh1(cache[i]) \/ cache[i].key[2] \in Unswept \/ cache[i].raced)'
    BY <1>1 DEF StaleOnlyByRace
  <2>1. cache[i] \in Entry
    BY <1>5, ElementOfSeq, LenProperties DEF CacheOK
  <2>2. PICK s \in Servers, p \in Paths : cache[i].key = <<s, p>>
    BY <2>1 DEF Entry
  <2>3. CASE p \in changed
    BY <1>1, <1>6, <2>2, <2>3
  <2>4. CASE p \notin changed
    <3>1. LookupPlacement(db', s, p) = LookupPlacement(db, s, p)
      <4>1. db'.current[<<s, p>>] = db.current[<<s, p>>] /\ db'.currentShared[p] = db.currentShared[p]
        BY <1>3, <1>5, <2>4 DEF ChangedOnly
      <4> QED
        BY <1>2, <1>4, <4>1, SamePlacement
    <3>2. Fresh1(cache[i]) \/ p \in Unswept \/ cache[i].raced
      BY <2>2 DEF ReadInv, StaleOnlyByRace
    <3> QED
      BY <1>1, <1>6, <2>2, <3>1, <3>2 DEF Fresh1
  <2> QED
    BY <2>3, <2>4
<1>10. ReadTypeOK'
  <2>1. commits' \in 0..MaxCommits
    BY <1>1, <1>5, ReadersAssumption
  <2>2. StoreTypeOK'
    BY DEF StoreInv
  <2> QED
    BY <1>1, <1>5, <1>6, <1>8, <2>1, <2>2 DEF ReadTypeOK, CacheOK
<1>11. SharedPlain(db') /\ SharedPlain(work')
  BY <1>1, <1>3 DEF ReadInv, SharedPlain
<1>12. \A i \in DOMAIN cache' : IsolatedAnswer(cache'[i].value, cache'[i].key[1])
  BY <1>1 DEF ReadInv
<1> QED
  BY <1>1, <1>2, <1>7, <1>9, <1>10, <1>11, <1>12 DEF ReadInv, IsolatedAnswer, SharedPlain

\* Taking element i out of a list leaves every other element in it.
LEMMA OthersStay ==
    ASSUME NEW S, NEW u \in Seq(S), NEW i \in DOMAIN u
    PROVE  LET w == SubSeq(u, 1, i - 1) \o SubSeq(u, i + 1, Len(u))
           IN  w \in Seq(S) /\ \A j \in DOMAIN u : j # i => \E k \in DOMAIN w : w[k] = u[j]
<1> DEFINE a == SubSeq(u, 1, i - 1)
           b == SubSeq(u, i + 1, Len(u))
           w == a \o b
<1>1. DOMAIN u = 1..Len(u) /\ Len(u) \in Nat /\ \A j \in 1..Len(u) : u[j] \in S
  BY LenProperties, ElementOfSeq
<1>2. i \in 1..Len(u) /\ i \in Nat
  BY <1>1
<1>3. /\ a \in Seq(S) /\ Len(a) = i - 1 /\ \A j \in 1..(i - 1) : a[j] = u[j]
  <2>1. i - 1 \in Int /\ 1 \in Int /\ \A j \in 1..(i - 1) : u[j] \in S
    BY <1>1, <1>2
  <2>2. /\ a \in Seq(S) /\ Len(a) = IF 1 <= i - 1 THEN i - 1 - 1 + 1 ELSE 0
        /\ \A j \in 1..(i - 1 - 1 + 1) : a[j] = u[1 + j - 1]
    BY <2>1, SubSeqProperties
  <2> HIDE DEF a
  <2> QED
    BY <1>1, <1>2, <2>2
<1>4. /\ b \in Seq(S) /\ Len(b) = Len(u) - i
      /\ \A j \in DOMAIN u : j > i => b[j - i] = u[j]
  <2>1. i + 1 \in Int /\ Len(u) \in Int /\ \A j \in (i + 1)..Len(u) : u[j] \in S
    BY <1>1, <1>2
  <2>2. /\ b \in Seq(S) /\ Len(b) = IF i + 1 <= Len(u) THEN Len(u) - (i + 1) + 1 ELSE 0
        /\ \A j \in 1..(Len(u) - (i + 1) + 1) : b[j] = u[(i + 1) + j - 1]
    BY <2>1, SubSeqProperties
  <2> HIDE DEF b
  <2>3. Len(b) = Len(u) - i
    BY <1>1, <1>2, <2>2
  <2>4. ASSUME NEW j \in DOMAIN u, j > i PROVE b[j - i] = u[j]
    <3>1. j - i \in 1..(Len(u) - (i + 1) + 1) /\ (i + 1) + (j - i) - 1 = j
      BY <1>1, <1>2, <2>4
    <3>2. b[j - i] = u[(i + 1) + (j - i) - 1]
      BY <2>2, <3>1
    <3> QED
      BY <3>1, <3>2
  <2> QED
    BY <2>2, <2>3, <2>4
<1> HIDE DEF a, b
<1>5. /\ w \in Seq(S) /\ Len(w) = Len(a) + Len(b)
      /\ \A j \in 1..(Len(a) + Len(b)) : w[j] = IF j <= Len(a) THEN a[j] ELSE b[j - Len(a)]
  BY <1>3, <1>4, ConcatProperties
<1> HIDE DEF w
<1>6. DOMAIN w = 1..(Len(a) + Len(b)) /\ Len(a) \in Nat /\ Len(b) \in Nat
  BY <1>3, <1>4, <1>5, LenProperties
<1>7. ASSUME NEW j \in DOMAIN u, j # i
      PROVE  \E k \in DOMAIN w : w[k] = u[j]
  <2>0. j \in Nat /\ 1 <= j /\ j <= Len(u)
    BY <1>1
  <2>1. CASE j < i
    <3>1. j \in 1..(Len(a) + Len(b)) /\ j <= Len(a) /\ j \in 1..(i - 1)
      BY <1>2, <1>3, <1>6, <2>0, <2>1
    <3>2. w[j] = u[j]
      BY <1>3, <1>5, <3>1
    <3> QED
      BY <1>6, <3>1, <3>2
  <2>2. CASE j > i
    <3>1. j - 1 \in 1..(Len(a) + Len(b)) /\ ~(j - 1 <= Len(a)) /\ (j - 1) - Len(a) = j - i
      BY <1>1, <1>2, <1>3, <1>4, <2>0, <2>2
    <3>2. w[j - 1] = b[(j - 1) - Len(a)]
      BY <1>5, <3>1
    <3>3. w[j - 1] = u[j]
      BY <1>4, <2>2, <3>1, <3>2
    <3> QED
      BY <1>6, <3>1, <3>3
  <2> QED
    BY <1>2, <1>7, <2>0, <2>1, <2>2
<1> QED
  BY <1>5, <1>7 DEF w, a, b

\* A step of the cache alone.
LEMMA CacheStep ==
    ASSUME ReadInv, UNCHANGED <<storeVars, rd, changed, commits>>, up,
           unswept' \in Seq(SUBSET Paths), CacheOK(cache'),
           \A i \in DOMAIN cache' : /\ IsolatedAnswer(cache'[i].value, cache'[i].key[1])
                                   /\ \/ Fresh1(cache'[i])
                                      \/ cache'[i].key[2] \in Unswept'
                                      \/ cache'[i].raced
    PROVE  ReadInv'
<1>1. /\ db' = db /\ work' = work /\ tx' = tx /\ up' = up
      /\ rd' = rd /\ changed' = changed /\ commits' = commits
  BY DEF storeVars
<1>2. ReadTypeOK'
  BY <1>1 DEF ReadInv, ReadTypeOK, StoreTypeOK, CacheOK
<1>3. \A r \in Readers : LookupInv(rd[r])'
  BY <1>1 DEF ReadInv, LookupInv, SawNothing, IsolatedAnswer
<1>4. StaleOnlyByRace'
  BY <1>1 DEF StaleOnlyByRace, Fresh1
<1>5. (tx # NoTx => commits < MaxCommits /\ ChangedOnly)' /\ (SharedPlain(db) /\ SharedPlain(work))'
  BY <1>1 DEF ReadInv, ChangedOnly, SharedPlain
<1> QED
  BY <1>1, <1>2, <1>3, <1>4, <1>5 DEF ReadInv, IsolatedAnswer

\* InvalidatePaths: what is not invalidated is of a path no longer, or still, due.
LEMMA InvalidateInv ==
    ASSUME ReadInv, NEW i \in DOMAIN unswept, Invalidate(i)
    PROVE  ReadInv'
<1>1. /\ cache' = InvalidatePaths(cache, unswept[i])
      /\ unswept' = SubSeq(unswept, 1, i - 1) \o SubSeq(unswept, i + 1, Len(unswept))
      /\ UNCHANGED <<storeVars, rd, changed, commits>>
  BY DEF Invalidate
<1>2. unswept \in Seq(SUBSET Paths) /\ CacheOK(cache)
  BY DEF ReadInv, ReadTypeOK
<1>3. up
  <2>1. DOMAIN <<>> = {}
    OBVIOUS
  <2> QED
    BY <2>1 DEF ReadInv, ReadTypeOK, StoreTypeOK
<1>4. /\ unswept' \in Seq(SUBSET Paths)
      /\ \A j \in DOMAIN unswept : j # i => \E k \in DOMAIN unswept' : unswept'[k] = unswept[j]
  BY <1>1, <1>2, OthersStay
<1>5. CacheOK(cache') /\ \A j \in DOMAIN cache' : \E k \in DOMAIN cache :
         cache'[j] = cache[k] /\ cache[k].key[2] \notin unswept[i]
  BY <1>1, <1>2, InvalidateCache
<1>6. \A p : p \in Unswept /\ p \notin unswept[i] => p \in Unswept'
  BY <1>4 DEF Unswept
<1>7. \A k \in DOMAIN cache : /\ IsolatedAnswer(cache[k].value, cache[k].key[1])
                              /\ Fresh1(cache[k]) \/ cache[k].key[2] \in Unswept \/ cache[k].raced
  BY DEF ReadInv, StaleOnlyByRace
<1>8. \A j \in DOMAIN cache' : /\ IsolatedAnswer(cache'[j].value, cache'[j].key[1])
                               /\ \/ Fresh1(cache'[j])
                                  \/ cache'[j].key[2] \in Unswept'
                                  \/ cache'[j].raced
  <2> SUFFICES ASSUME NEW j \in DOMAIN cache'
               PROVE  /\ IsolatedAnswer(cache'[j].value, cache'[j].key[1])
                      /\ \/ Fresh1(cache'[j])
                         \/ cache'[j].key[2] \in Unswept'
                         \/ cache'[j].raced
    OBVIOUS
  <2>1. PICK k \in DOMAIN cache : cache'[j] = cache[k] /\ cache[k].key[2] \notin unswept[i]
    BY <1>5
  <2> QED
    BY <1>6, <1>7, <2>1
<1> QED
  BY <1>1, <1>3, <1>4, <1>5, <1>8, CacheStep

\* Time passing makes no entry stale.
LEMMA TickInv ==
    ASSUME ReadInv, Tick
    PROVE  ReadInv'
<1>1. cache' = Age(cache) /\ UNCHANGED <<storeVars, rd, changed, unswept, commits>> /\ CacheOK(cache)
  BY DEF Tick, ReadInv, ReadTypeOK
<1>2. up
  <2>1. DOMAIN <<>> = {}
    OBVIOUS
  <2> QED
    BY <2>1 DEF Tick, ReadInv, ReadTypeOK, StoreTypeOK
<1>3. /\ CacheOK(cache') /\ DOMAIN cache' = DOMAIN cache
      /\ \A i \in DOMAIN cache : /\ cache'[i].key = cache[i].key
                                 /\ cache'[i].value = cache[i].value
                                 /\ cache'[i].raced = cache[i].raced
                                 /\ cache'[i].left > 0 => cache[i].left > 0
  BY <1>1, AgeCache
<1>4. Unswept' = Unswept /\ unswept' \in Seq(SUBSET Paths)
  BY <1>1 DEF Unswept, ReadInv, ReadTypeOK
<1>5. \A i \in DOMAIN cache : /\ IsolatedAnswer(cache[i].value, cache[i].key[1])
                              /\ Fresh1(cache[i]) \/ cache[i].key[2] \in Unswept \/ cache[i].raced
  BY DEF ReadInv, StaleOnlyByRace
<1>6. \A i \in DOMAIN cache' : /\ IsolatedAnswer(cache'[i].value, cache'[i].key[1])
                               /\ \/ Fresh1(cache'[i])
                                  \/ cache'[i].key[2] \in Unswept'
                                  \/ cache'[i].raced
  BY <1>3, <1>4, <1>5 DEF Fresh1
<1> QED
  BY <1>1, <1>2, <1>3, <1>4, <1>6, CacheStep

\* A process that starts or stops has no requests and an empty cache.
EmptyState ==
    /\ StoreTypeOK /\ cache = <<>> /\ rd = [r \in Readers |-> Idle] /\ unswept = <<>>
    /\ changed \subseteq Paths /\ commits \in 0..MaxCommits /\ tx = NoTx
    /\ SharedPlain(db) /\ SharedPlain(work)

\* Such a state satisfies the invariant.
LEMMA EmptyStateInv == EmptyState => ReadInv
<1> SUFFICES ASSUME EmptyState PROVE ReadInv
  OBVIOUS
<1> USE DEF EmptyState
<1>1. cache \in Seq(Entry) /\ Len(cache) = 0 /\ DOMAIN cache = {} /\ unswept \in Seq(SUBSET Paths)
  BY EmptySeq
<1>2. CacheOK(cache)
  BY <1>1, CacheAssumption DEF CacheOK
<1>3. ReadTypeOK
  BY <1>1, <1>2 DEF ReadTypeOK
<1>4. \A r \in Readers : LookupInv(rd[r])
  BY DEF LookupInv, Idle
<1> QED
  BY <1>1, <1>3, <1>4 DEF ReadInv, StaleOnlyByRace

\* The process stops, or starts and runs EnsureReadIndexes.
LEMMA ProcessInv ==
    ASSUME ReadInv, StoreInv, StoreInv', StopProcess \/ StartProcess
    PROVE  ReadInv'
<1>1. ASSUME StopProcess PROVE EmptyState'
  <2>1. /\ db' = db /\ work' = db /\ tx' = NoTx /\ cache' = <<>> /\ changed' = {}
        /\ rd' = [r \in Readers |-> Idle] /\ unswept' = <<>> /\ commits' = commits
    BY <1>1 DEF StopProcess, Crash
  <2>2. commits' \in 0..MaxCommits /\ SharedPlain(db') /\ SharedPlain(work')
    BY <2>1 DEF ReadInv, ReadTypeOK
  <2>3. StoreTypeOK' /\ changed' \subseteq Paths
    BY <2>1 DEF StoreInv
  <2> QED
    BY <2>1, <2>2, <2>3 DEF EmptyState, SharedPlain
<1>2. ASSUME StartProcess PROVE EmptyState'
  <2>1. /\ ~up /\ db' = EnsureReadIndexes(db) /\ work' = db' /\ tx' = tx
        /\ UNCHANGED <<cache, rd, changed, unswept, commits>>
    BY <1>2 DEF StartProcess, Boot
  <2>2. /\ tx' = NoTx /\ cache' = <<>> /\ unswept' = <<>> /\ rd' = [r \in Readers |-> Idle]
        /\ changed' \subseteq Paths /\ commits' \in 0..MaxCommits /\ db \in Db /\ SharedPlain(db)
    BY <2>1 DEF StoreInv, StoreTypeOK, ReadInv, ReadTypeOK
  <2>3. SharedPlain(db')
    <3>1. CASE db.meta = LatestAssetID(db)
      BY <2>1, <2>2, <3>1, EnsureReadIndexesIs
    <3>2. CASE db.meta # LatestAssetID(db)
      <4>1. db' \in Db /\ IndexIsNewest(db')
        BY <2>1, <2>2, <3>2, EnsureReadIndexesIs
      <4>2. \A p \in Paths : db'.currentShared[p] = CurrentSharedByPath(db', p)
        BY <4>1 DEF IndexIsNewest
      <4>3. \A p \in Paths : ~IsOverride(CurrentSharedByPath(db', p))
        BY <4>1, SharedRowPlain
      <4> QED
        BY <4>2, <4>3 DEF SharedPlain
    <3> QED
      BY <3>1, <3>2
  <2>4. StoreTypeOK'
    BY DEF StoreInv
  <2> QED
    BY <2>1, <2>2, <2>3, <2>4 DEF EmptyState, SharedPlain
<1>3. EmptyState'
  BY <1>1, <1>2
<1> QED
  BY <1>3, EmptyStateInv, PTL

-----------------------------------------------------------------------------
(* The invariant holds, and the safety properties with it.                 *)

\* At the start nothing is cached and no shared row is indexed.
LEMMA ReadInitInv == ReadInit => ReadInv
<1> SUFFICES ASSUME ReadInit PROVE ReadInv
  OBVIOUS
<1>1. StoreInit
  BY DEF ReadInit
<1>2. StoreTypeOK
  BY <1>1, InitInv DEF StoreInv
<1>3. tx = NoTx /\ work = db /\ \A p \in Paths : db.currentShared[p] = NoRow
  BY <1>1 DEF StoreInit, EmptyDb
<1>4. SharedPlain(db) /\ SharedPlain(work)
  BY <1>3 DEF SharedPlain, IsOverride
<1>5. commits \in 0..MaxCommits /\ changed \subseteq Paths
  BY ReadersAssumption DEF ReadInit
<1> QED
  BY <1>2, <1>3, <1>4, <1>5, EmptyStateInv DEF ReadInit, EmptyState

\* Every step of the read path keeps the invariant.
LEMMA ReadNextInv == ReadInv /\ StoreInv /\ StoreInv' /\ [ReadNext]_readVars => ReadInv'
<1> SUFFICES ASSUME ReadInv, StoreInv, StoreInv', [ReadNext]_readVars PROVE ReadInv'
  OBVIOUS
<1>1. CASE UNCHANGED readVars
  BY <1>1 DEF readVars, storeVars, ReadInv, ReadTypeOK, StoreTypeOK, CacheOK, ChangedOnly,
              SharedPlain, LookupInv, SawNothing, IsolatedAnswer, StaleOnlyByRace, Fresh1, Unswept
<1>2. ASSUME NEW r \in Readers, LookupStep(r)
      PROVE  ReadInv'
  BY <1>2, QueryInv, FillInv, IdleInv DEF LookupStep, LookupFails, Respond
<1>3. ASSUME NEW r \in Readers, NEW s \in Servers, NEW p \in Paths, ServeHTTP(r, s, p)
      PROVE  ReadInv'
  BY <1>3, ServeHTTPInv
<1>4. ASSUME NEW s \in Servers, NEW v \in Versions, NEW h \in Hashes, BeginCommit(s, v, h)
      PROVE  ReadInv'
  BY <1>4, BeginCommitInv
<1>5. ASSUME NEW a \in PutRows, PutRow(a)
      PROVE  ReadInv'
  BY <1>5, PutRowInv, InputsAssumption
<1>6. CASE CommitReturns
  BY <1>6, CommitInv
<1>7. CASE RollbackCommit
  BY <1>7, RollbackInv
<1>8. ASSUME NEW i \in DOMAIN unswept, Invalidate(i)
      PROVE  ReadInv'
  BY <1>8, InvalidateInv
<1>9. CASE Tick
  BY <1>9, TickInv
<1>10. CASE StopProcess \/ StartProcess
  BY <1>10, ProcessInv
<1> QED
  BY <1>1, <1>2, <1>3, <1>4, <1>5, <1>6, <1>7, <1>8, <1>9, <1>10 DEF ReadNext

\* The inductive invariant of the read path holds in every reachable state,
\* whatever requests, commits, invalidations, expiries and crashes interleave.
THEOREM ReadInvariant == ReadSpec => []ReadInv
<1>1. ReadSpec => []StoreInv
  BY ReadImplementsStore, BoundedRun, StoreInvariant, PTL
<1> QED
  BY <1>1, ReadInitInv, ReadNextInv, PTL DEF ReadSpec

\* The cache stays a list of found placements, within its capacity and with
\* one entry per key, under every interleaving of Get, Set and invalidation.
THEOREM ReadTyped == ReadSpec => []ReadTypeOK
<1>1. ReadInv => ReadTypeOK
  BY DEF ReadInv
<1> QED
  BY <1>1, ReadInvariant, PTL

\* InvalidatePaths after tx.Commit is complete: a stale entry is about to be
\* invalidated, or was filled by a request that a commit overtook.
THEOREM ReadStaleOnlyByRace == ReadSpec => []StaleOnlyByRace
<1>1. ReadInv => StaleOnlyByRace
  BY DEF ReadInv
<1> QED
  BY <1>1, ReadInvariant, PTL

\* LookupPlacement answers 404 only when the path had no placement at some
\* moment of the lookup, although its four queries straddle commits.
THEOREM ReadLookupFinds == ReadSpec => []LookupFinds
<1>1. ReadInv => LookupFinds
  BY DEF ReadInv, LookupFinds, LookupInv, SawNothing
<1> QED
  BY <1>1, ReadInvariant, PTL

\* No request is answered with another region's override, from the cache or
\* from SQLite.
THEOREM ReadRegionIsolation == ReadSpec => []RegionIsolation
<1>1. ReadInv => RegionIsolation
  BY DEF ReadInv, RegionIsolation, LookupInv, IsolatedAnswer
<1> QED
  BY <1>1, ReadInvariant, PTL

=============================================================================
