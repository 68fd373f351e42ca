----------------------------- MODULE PathOrder -----------------------------
(***************************************************************************)
(* Public paths as SQLite and Go compare them: strings of bytes under the  *)
(* BINARY collation, the seek keys the browser computes from them          *)
(* (internal/store/readpath.go) and the validation of the paths, prefixes  *)
(* and cursors a request carries (internal/storage, internal/httpapi).     *)
(* Bytes keep their values, because '.' < '/' < '0' and the 0xFF boundary  *)
(* decide which keys a seek skips.                                         *)
(***************************************************************************)
EXTENDS Naturals, Sequences

MaxByte == 255
Byte == 0..MaxByte
NUL == 0
Dot == 46
Slash == 47
Backslash == 92

Str == Seq(Byte)

\* a < b, byte by byte; a proper prefix is smaller.
Less(a, b) ==
    \E k \in 1..Len(b) :
        /\ \A i \in 1..(k - 1) : i <= Len(a) /\ a[i] = b[i]
        /\ k = Len(a) + 1 \/ (k <= Len(a) /\ a[k] < b[k])

LessEq(a, b) == a = b \/ Less(a, b)

HasPrefix(s, p) == Len(p) <= Len(s) /\ \A i \in 1..Len(p) : s[i] = p[i]

HasByte(s, c) == \E i \in DOMAIN s : s[i] = c

IsDir(s) == s # <<>> /\ s[Len(s)] = Slash

TrimSlash(s) == IF IsDir(s) THEN SubSeq(s, 1, Len(s) - 1) ELSE s

-----------------------------------------------------------------------------
(* Seek keys.                                                              *)

\* The smallest string above every key that starts with p: the last byte
\* that can grow is incremented and the 0xFF bytes behind it are dropped.
nextAfterPrefix(p) ==
    LET grow == {i \in 1..Len(p) : p[i] < MaxByte}
        k    == CHOOSE i \in grow : \A j \in grow : j <= i
    IN  IF grow = {} THEN <<>>
        ELSE [i \in 1..k |-> IF i = k THEN p[i] + 1 ELSE p[i]]

\* Mutant: the key behind a directory is taken for an exclusive bound.
pastNextSubtree(dir) == Append(nextAfterPrefix(dir), NUL)

nextAfterSubtree(dir) ==
    IF nextAfterPrefix(dir) # <<>> THEN nextAfterPrefix(dir) ELSE Append(dir, MaxByte)

\* path + "\x00": the smallest key above path itself.
nextAfterFile(path) == Append(path, NUL)

-----------------------------------------------------------------------------
(* Validation.  A refused value is Bad, which is no byte string.           *)

Bad == <<MaxByte + 1>>

SafeRelPath(p) ==
    LET starts == {1} \cup {i + 1 : i \in {j \in DOMAIN p : p[j] = Slash}}
        ends(i) == i > Len(p) \/ p[i] = Slash
    IN  /\ p # <<>>
        /\ ~HasByte(p, Backslash) /\ ~HasByte(p, NUL)
        /\ p[1] \notin {Slash, Dot}
        /\ \A i \in starts : /\ ~ends(i)
                             /\ ~(p[i] = Dot /\ ends(i + 1))
                             /\ ~(p[i] = Dot /\ p[i + 1] = Dot /\ ends(i + 2))

\* "event" and "event/" both name the directory "event/".
normalizeBrowsePrefix(raw) ==
    IF raw = <<>> THEN <<>>
    ELSE IF SafeRelPath(TrimSlash(raw)) THEN Append(TrimSlash(raw), Slash) ELSE Bad

\* Mutant: a cursor must be the path of a file.
fileCursor(raw, prefix) ==
    IF raw = <<>> THEN <<>> ELSE IF SafeRelPath(raw) /\ HasPrefix(raw, prefix) THEN raw ELSE Bad

normalizeBrowseCursor(raw, prefix) ==
    IF raw = <<>> THEN <<>>
    ELSE IF SafeRelPath(TrimSlash(raw)) /\ HasPrefix(raw, prefix) THEN raw ELSE Bad

normalizeBundlePath(raw) ==
    IF SafeRelPath(TrimSlash(raw)) THEN TrimSlash(raw) ELSE Bad

=============================================================================
