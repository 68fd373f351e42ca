---------------------------- MODULE MCAssetStore ----------------------------
(* Small instances of AssetStore: two regions, two versions, two paths of  *)
(* one bundle, and databases written before the read index existed.        *)
EXTENDS StoreRefinement, BundleAggregates

CONSTANTS jp, en, p1, p2, b1, b2, v1, v2, f1, f2, x, k, h1

TheRow(s, b, p, v, f, o) ==
    [server |-> s, bundle |-> b, path |-> p, version |-> v, fp |-> f,
     sha |-> x, override |-> o, key |-> k]

\* p1 comes and goes between shared and override in both regions; p2 is the
\* second file of the bundle.
RowsOneBundle ==
    {TheRow(s, b1, p1, v, f1, o) : s \in {jp, en}, v \in {v1, v2}, o \in BOOLEAN}
    \cup {TheRow(en, b1, p2, v1, f2, o) : o \in BOOLEAN}

\* The canonical path is bundle_path/asset_path: two splits of the same path
\* name it under two bundles.
RowsTwoBundles ==
    {TheRow(jp, b1, p1, v1, f1, FALSE), TheRow(jp, b2, p1, v2, f1, FALSE)}

OneCompletion == {[server |-> jp, version |-> v1, hash |-> h1, bundle |-> b1, fp |-> f1,
                   source |-> "uploaded"]}

\* Two versions of one region; a shared row and another region's override;
\* a region whose override went back to shared.
Legacy == {<<TheRow(jp, NoBundle, p1, v1, f1, FALSE),
             TheRow(jp, NoBundle, p1, v2, f2, FALSE)>>,
           <<TheRow(jp, NoBundle, p1, v1, f1, FALSE),
             TheRow(en, b1, p1, v1, f2, TRUE)>>,
           <<TheRow(en, b1, p1, v1, f2, TRUE),
             TheRow(en, b1, p1, v2, f1, FALSE)>>}

=============================================================================
