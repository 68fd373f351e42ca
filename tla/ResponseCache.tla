--------------------------- MODULE ResponseCache ---------------------------
(***************************************************************************)
(* The in-process response cache that each of the three listing handlers   *)
(* of internal/httpapi keeps: a map from request keys to bodies with an    *)
(* expiry time, emptied whole when it is full.  A cache is a function on   *)
(* its keys; its operations run under the handler's mutex.  Time is the    *)
(* flag fresh: now.After(expires) may become true at any moment.           *)
(***************************************************************************)
EXTENDS Naturals, FiniteSets, Functions

EmptyCache == <<>>

\* A hit; an expired entry is no hit and is deleted by the request that
\* finds it.
getCachedOk(cache, key) == key \in DOMAIN cache /\ cache[key].fresh

getCachedDrops(cache, key) ==
    IF key \in DOMAIN cache /\ ~cache[key].fresh
    THEN Restrict(cache, DOMAIN cache \ {key}) ELSE cache

setCached(cache, key, body, maxItems) ==
    LET kept == IF Cardinality(DOMAIN cache) >= maxItems THEN EmptyCache ELSE cache
    IN  [k \in DOMAIN kept \cup {key} |->
            IF k = key THEN [body |-> body, fresh |-> TRUE] ELSE kept[k]]

expire(cache, key) == [cache EXCEPT ![key].fresh = FALSE]

=============================================================================
