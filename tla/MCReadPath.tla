----------------------------- MODULE MCReadPath -----------------------------
(* A small instance of ReadPath: one path three regions read; jp moves the *)
(* shared baseline, en comes and goes between override and shared, kr only *)
(* reads.                                                                  *)
EXTENDS ReadPath

CONSTANTS jp, en, kr, p1, b1, v1, v2, f1, f2, x, k, h1, r1

TheRow(s, p, v, f, o) ==
    [server |-> s, bundle |-> b1, path |-> p, version |-> v, fp |-> f,
     sha |-> x, override |-> o, key |-> k]

RowsMove == {TheRow(jp, p1, v1, f1, FALSE), TheRow(jp, p1, v2, f2, FALSE),
             TheRow(en, p1, v1, f2, TRUE), TheRow(en, p1, v2, f2, FALSE)}

NoCompletions == {}

\* An index that is only built when the process starts.
Legacy == {<<TheRow(jp, p1, v1, f1, FALSE)>>}

=============================================================================
