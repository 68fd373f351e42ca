---------------------------- MODULE MCHipIngest -----------------------------
(* Small instances of HipIngest: which regions run which sessions, and the *)
(* files each has to publish.                                              *)
EXTENDS HipIngest, TLC

CONSTANTS jp, en, p1, p2, b1, v1, v2, f1, f2, f3, x1, x2, x3, h1,
          j1, j2, e1, e2, r1, m1, m2

AllKeys == {SharedKey(p) : p \in Paths}
           \cup {OverrideKey(s, p) : s \in Servers, p \in Paths}
AllRows == Row
AllCompletions == Completion
NoLegacy == {}

FileOf(p, f, x) == [bundle |-> b1, path |-> p, fp |-> f, sha |-> x]

ServerMap == [z \in Sessions |-> IF z \in {j1, j2} THEN jp ELSE en]
VersionMap == [z \in Sessions |-> IF z \in {j1, e1} THEN v1 ELSE v2]
HashMap == [z \in Sessions |-> h1]
\* Stream ids are interchangeable.
StreamSymmetry == Permutations(Streams)
RunMap == [z \in Sessions |-> z]
RunSame == [z \in Sessions |-> r1]
\* The client lists its bundles with a source of lower rank than an upload.
OffersDeclared == [z \in Sessions |->
    {[bundle |-> f.bundle, fp |-> f.fp, source |-> "zero_file"] : f \in Offers[z]}]
NothingDeclared == [z \in Sessions |-> {}]

\* Both regions start from the same content, two files with the same bytes;
\* then each gets its own.
OffersDiverge == [z \in Sessions |->
    CASE z = j1 -> {FileOf(p1, f1, x1), FileOf(p2, f1, x1)}
      [] z = e1 -> {FileOf(p1, f1, x1), FileOf(p2, f1, x1)}
      [] z = j2 -> {FileOf(p1, f2, x2)}
      [] z = e2 -> {FileOf(p1, f3, x3)}]

\* The regions differ from the start.
OffersDiffer == [z \in Sessions |->
    IF z = j1 THEN {FileOf(p1, f1, x1)} ELSE {FileOf(p1, f2, x2)}]

=============================================================================
