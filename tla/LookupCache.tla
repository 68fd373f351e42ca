---------------------------- MODULE LookupCache -----------------------------
(***************************************************************************)
(* The read path's LookupCache (internal/httpapi/lookup_cache.go): a       *)
(* bounded LRU list of placements with a time to live.  A cache is the     *)
(* list, most recently used entry first; the items map is its index.  Each *)
(* method runs under the cache's mutex and is an operator on the list.     *)
(* expires is kept as the ticks an entry has left; 0 means expired.        *)
(***************************************************************************)
EXTENDS Naturals, Sequences, FiniteSets

CONSTANTS MaxItems,  \* capacity; 0 is the disabled (nil) cache
          Ttl        \* ticks an entry lives; 0 is the disabled cache

ASSUME CacheAssumption == MaxItems \in Nat /\ Ttl \in Nat

Disabled == MaxItems = 0 \/ Ttl = 0

\* Both the server and the path are part of the key.
cacheKey(s, p) == <<s, p>>

\* What is left of the list when only the elements at positions ids stay.
Keep(c, ids) ==
    [n \in 1..Cardinality(ids) |-> c[CHOOSE i \in ids : Cardinality(ids \cap 1..i) = n]]

Without(c, k) == Keep(c, {i \in DOMAIN c : c[i].key # k})

EntryOf(c, k) == CHOOSE e \in {c[i] : i \in DOMAIN c} : e.key = k

\* Get finds key k: the entry is there and has not expired.
Hit(c, k) == \E i \in DOMAIN c : c[i].key = k /\ c[i].left > 0

\* Mutant: a hit renews the entry.
GetRenews(c, k) ==
    IF Hit(c, k) THEN <<[EntryOf(c, k) EXCEPT !.left = Ttl]>> \o Without(c, k)
    ELSE Without(c, k)

\* The list after Get: a hit moves to the front and keeps its expiry, an
\* expired entry is removed.
Get(c, k) ==
    IF Hit(c, k) THEN <<EntryOf(c, k)>> \o Without(c, k) ELSE Without(c, k)

\* Mutant: one entry too many stays.
SetOneOver(c, e) ==
    LET new == <<[e EXCEPT !.left = Ttl]>> \o Without(c, e.key)
    IN  IF Disabled THEN c
        ELSE SubSeq(new, 1, IF Len(new) > MaxItems + 1 THEN MaxItems + 1 ELSE Len(new))

\* The list after Set: the entry is new or refreshed in place, at the front;
\* the least recently used entries beyond maxItems are evicted.
Set(c, e) ==
    LET new == <<[e EXCEPT !.left = Ttl]>> \o Without(c, e.key)
    IN  IF Disabled THEN c
        ELSE SubSeq(new, 1, IF Len(new) > MaxItems THEN MaxItems ELSE Len(new))

\* Mutant: stops at the first server that caches the path.
InvalidateFirst(c, paths) ==
    LET ids == {i \in DOMAIN c : c[i].key[2] \in paths}
    IN  IF ids = {} THEN c
        ELSE Without(c, c[CHOOSE i \in ids : \A j \in ids : i <= j].key)

\* Every server's entry for one of the paths goes.
InvalidatePaths(c, paths) == Keep(c, {i \in DOMAIN c : c[i].key[2] \notin paths})

\* Time passes.
Age(c) == [i \in DOMAIN c |->
             [c[i] EXCEPT !.left = IF @ = 0 THEN 0 ELSE @ - 1]]

=============================================================================
