----------------------------- MODULE MCReadApi -----------------------------
(* A small instance of ReadApi.  Paths around the bytes that decide the    *)
(* order: "a" < "a.m" < "a/b.w" < "a/c" < "a0".  Bundle "a" holds the file *)
(* of its own name and "a/b.w"; the others are single files.               *)
EXTENDS ReadApi, SnapshotIndex

CONSTANTS jp, en, kr, v1, v2, h1, h2, f1, f2, x1, x2, obj, c1, c2

a  == <<97>>
am == <<97, 46, 109>>
ab == <<97, 47, 98, 46, 119>>
ac == <<97, 47, 99>>
a0 == <<97, 48>>
EmptyPath == <<>>

ThePaths == {a, am, ab, ac, a0}
TheBundles == {a, am, ac, a0}
BundleOf(p) == IF p = ab THEN a ELSE p

m == <<109>>
w == <<119>>
Sizes == (x1 :> 1) @@ (x2 :> 2)
Types == {m, w}

Put1(s, p, v, f, x, o) ==
    [server |-> s, bundle |-> BundleOf(p), path |-> p, version |-> v, fp |-> f,
     sha |-> x, override |-> o, key |-> obj]
Done(s, v, h, b) ==
    [server |-> s, version |-> v, hash |-> h, bundle |-> b, fp |-> f1, source |-> "uploaded"]
Batch(s, v, h, rows, done) ==
    [server |-> s, version |-> v, hash |-> h, rows |-> rows, completions |-> done]

\* jp published three files; en overrides one of them.
Before1 ==
    <<Batch(jp, v1, h1, <<Put1(jp, ab, v1, f1, x1, FALSE), Put1(jp, ac, v1, f1, x2, FALSE),
                          Put1(jp, am, v1, f1, x1, FALSE)>>,
            <<Done(jp, v1, h1, a), Done(jp, v1, h1, ac)>>),
      Batch(en, v1, h1, <<Put1(en, ab, v1, f2, x2, TRUE)>>, <<>>)>>

NewPaths == Batch(jp, v2, h1, <<Put1(jp, a, v2, f1, x2, FALSE), Put1(jp, a0, v2, f1, x1, FALSE)>>,
                  <<Done(jp, v2, h1, a0)>>)
\* The override goes back to shared, by reuse: the row has no hash.
BackToShared == Batch(en, v2, h1, <<Put1(en, ab, v2, f1, NoSha, FALSE)>>, <<Done(en, v2, h1, a)>>)
NewOverride == Batch(en, v1, h1, <<Put1(en, ac, v1, f2, x1, TRUE)>>, <<Done(en, v1, h1, ac)>>)
\* The same version again: an upsert, which mints no id.
Upsert == Batch(jp, v1, h1, <<Put1(jp, ab, v1, f2, x2, FALSE)>>, <<>>)
\* The same version again under another asset hash.
OtherHash == Batch(jp, v1, h2, <<>>, <<Done(jp, v1, h2, a), Done(jp, v1, h2, am)>>)

Absent == [kind |-> "absent", exts |-> {}]
AllTypes == [kind |-> "all", exts |-> {}]
OnlyM == [kind |-> "list", exts |-> {m}]

Get(ep, s, prefix, v, action, types, limit) ==
    [ep |-> ep, server |-> s, prefix |-> prefix, version |-> v, action |-> action,
     types |-> types, limit |-> limit]

Scene(asks, commits) == [asks |-> asks, commits |-> commits]

aDir == <<97, 47>>

Browsing ==
    {Scene({Get("browse", en, <<>>, v1, "", Absent, 1)}, {NewPaths, BackToShared, NewOverride}),
     Scene({Get("browse", en, a, v1, "", Absent, NoLimit), Get("browse", jp, aDir, v1, "", Absent, 9)},
           {BackToShared, Upsert}),
     Scene({Get("browse", kr, <<>>, v1, "", Absent, 1), Get("browse", en, <<47>>, v1, "", Absent, 1),
            Get("browse", en, a, v1, "", Absent, 0), Get("bundleDiffFiles", en, <<47>>, v1, "", Absent, 1),
            Get("diff", en, <<>>, v1, "deleted", Absent, 1)}, {}),
     Scene({Get("bundles", en, <<>>, v1, "", Absent, 1), Get("bundles", en, a, v1, "", Absent, 1)},
           {NewPaths, BackToShared}),
     Scene({Get("bundleFiles", en, a, v1, "", Absent, 1), Get("bundleFiles", jp, a0, v1, "", Absent, 1)},
           {NewPaths, BackToShared})}

History ==
    {Scene({Get("versions", jp, <<>>, v1, "", Absent, 1)}, {NewPaths, OtherHash}),
     Scene({Get("diff", jp, <<>>, v1, "", Absent, 1), Get("diff", jp, <<>>, v1, "all", AllTypes, 1)},
           {NewPaths, Upsert}),
     Scene({Get("diff", en, <<>>, v2, "replaced", AllTypes, 2), Get("diff", jp, <<>>, v1, "", OnlyM, 2)},
           {BackToShared, Upsert}),
     Scene({Get("bundleDiffs", jp, <<>>, v1, "", Absent, 1)}, {Upsert, OtherHash}),
     Scene({Get("bundleDiffs", en, aDir, v1, "", Absent, 1)}, {NewOverride}),
     Scene({Get("bundleDiffFiles", jp, a, v1, "all", Absent, 1),
            Get("bundleDiffFiles", jp, a, v1, "", Absent, 1)}, {NewPaths, Upsert})}

AllScenes == Browsing \cup History

\* The same bundle's files, once of every type and once of one.
TypedScenes ==
    {Scene({Get("bundleDiffFiles", jp, a, v1, "all", AllTypes, 1),
            Get("bundleDiffFiles", jp, a, v1, "all", OnlyM, 1)}, {Upsert})}

=============================================================================
