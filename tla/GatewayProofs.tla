---------------------------- MODULE GatewayProofs ----------------------------
(***************************************************************************)
(* Proofs about the two small components: the seek keys of the browser     *)
(* (PathOrder) select exactly the keys they should, for paths of every     *)
(* length and every byte value; and the process (Gateway) always comes to  *)
(* an end with its errors collected.                                       *)
(***************************************************************************)
EXTENDS PathOrder, Gateway, SequenceTheorems, TLAPS

\* A path is a sequence of natural numbers.
LEMMA StrBytes ==
    ASSUME NEW s \in Str
    PROVE  Len(s) \in Nat /\ DOMAIN s = 1..Len(s) /\ \A i \in 1..Len(s) : s[i] \in Nat
<1>1. s \in Seq(Byte)
  BY DEF Str
<1>2. \A x \in Byte : x \in Nat
  BY DEF Byte
<1> QED
  BY <1>1, <1>2, LenProperties, ElementOfSeq

\* Two keys are never each below the other: the order BrowseCurrent's seeks,
\* its merge of two tables and its cursors all rely on.
THEOREM LessAsymmetric ==
    ASSUME NEW a \in Str, NEW b \in Str, Less(a, b)
    PROVE  ~Less(b, a)
<1>1. PICK k \in 1..Len(b) :
        /\ \A i \in 1..(k - 1) : i <= Len(a) /\ a[i] = b[i]
        /\ k = Len(a) + 1 \/ (k <= Len(a) /\ a[k] < b[k])
  BY DEF Less
<1> SUFFICES ASSUME NEW m \in 1..Len(a),
                    \A i \in 1..(m - 1) : i <= Len(b) /\ b[i] = a[i],
                    m = Len(b) + 1 \/ (m <= Len(b) /\ b[m] < a[m])
             PROVE  FALSE
  BY DEF Less
<1>2. Len(a) \in Nat /\ Len(b) \in Nat /\ k \in Nat /\ m \in Nat
  BY StrBytes
<1>3. \A i \in 1..Len(a) : a[i] \in Nat
  BY StrBytes
<1>4. \A i \in 1..Len(b) : b[i] \in Nat
  BY StrBytes
<1>5. CASE k < m
  <2>1. k \in 1..(m - 1) /\ k <= Len(a) /\ k <= Len(b)
    BY <1>2, <1>5
  <2> QED
    BY <1>1, <1>2, <1>3, <1>4, <2>1
<1>6. CASE m < k
  <2>1. m \in 1..(k - 1) /\ m <= Len(a) /\ m <= Len(b)
    BY <1>2, <1>6
  <2> QED
    BY <1>1, <1>2, <1>3, <1>4, <2>1
<1>7. CASE k = m
  BY <1>1, <1>2, <1>3, <1>4, <1>7
<1> QED
  BY <1>2, <1>5, <1>6, <1>7

\* The key after a directory: its last byte is '/', so only that byte grows.
LEMMA NextAfterDir ==
    ASSUME NEW p \in Str, p # <<>>, p[Len(p)] < MaxByte
    PROVE  /\ nextAfterPrefix(p) # <<>>
           /\ Len(nextAfterPrefix(p)) = Len(p)
           /\ \A i \in 1..(Len(p) - 1) : nextAfterPrefix(p)[i] = p[i]
           /\ nextAfterPrefix(p)[Len(p)] = p[Len(p)] + 1
<1> DEFINE n == Len(p)
           grow == {i \in 1..n : p[i] < MaxByte}
           q == [i \in 1..n |-> IF i = n THEN p[i] + 1 ELSE p[i]]
<1>1. n \in Nat /\ n # 0 /\ n \in 1..n
  BY StrBytes, EmptySeq, LenProperties DEF Str
<1>2. n \in grow /\ \A j \in grow : j <= n
  BY <1>1
<1>3. ASSUME NEW i \in grow, \A j \in grow : j <= i
      PROVE  i = n
  <2>1. n <= i /\ i <= n /\ i \in Nat
    BY <1>1, <1>2, <1>3
  <2> QED
    BY <1>1, <2>1
<1>4. (CHOOSE i \in grow : \A j \in grow : j <= i) = n
  <2> HIDE DEF grow, n
  <2> QED
    BY <1>2, <1>3
<1>5. nextAfterPrefix(p) = q
  BY <1>2, <1>4 DEF nextAfterPrefix
<1>6. q \in [1..n -> Nat]
  BY <1>1, StrBytes
<1>7. q \in Seq(Nat)
  BY <1>1, <1>6, SeqDef
<1>8. Len(q) = n
  <2>1. DOMAIN q = 1..n /\ DOMAIN q = 1..Len(q) /\ Len(q) \in Nat
    BY <1>7, LenProperties
  <2> QED
    BY <1>1, <2>1
<1>9. q # <<>>
  BY <1>1, <1>7, <1>8, EmptySeq, LenProperties
<1>10. (\A i \in 1..(n - 1) : q[i] = p[i]) /\ q[n] = p[n] + 1
  BY <1>1
<1> HIDE DEF q
<1> QED
  BY <1>5, <1>8, <1>9, <1>10

\* A range scan from a directory prefix to nextAfterPrefix of it sees exactly
\* the keys under the directory: nothing beside it is listed (upper bound of
\* BrowseCurrent and BrowseBundles) and, since nextAfterSubtree is the same
\* key, skipping a listed directory drops its subtree and nothing else.
THEOREM PrefixRange ==
    ASSUME NEW p \in Str, p # <<>>, p[Len(p)] < MaxByte, NEW k \in Str
    PROVE  HasPrefix(k, p) <=> (LessEq(p, k) /\ Less(k, nextAfterPrefix(p)))
<1> DEFINE n == Len(p)
           q == nextAfterPrefix(p)
<1>1. /\ n \in Nat /\ n # 0 /\ Len(k) \in Nat /\ Len(q) = n
      /\ \A i \in 1..n : p[i] \in Nat
      /\ \A i \in 1..Len(k) : k[i] \in Nat
      /\ \A i \in 1..(n - 1) : q[i] = p[i]
      /\ q[n] = p[n] + 1
  BY StrBytes, NextAfterDir, EmptySeq, LenProperties DEF Str
<1> HIDE DEF q
<1>2. ASSUME HasPrefix(k, p)
      PROVE  LessEq(p, k) /\ Less(k, q)
  <2>1. n <= Len(k) /\ \A i \in 1..n : k[i] = p[i]
    BY <1>2 DEF HasPrefix
  <2>2. Less(k, q)
    <3>1. n \in 1..Len(q) /\ n <= Len(k) /\ k[n] < q[n]
      BY <1>1, <2>1
    <3>2. \A i \in 1..(n - 1) : i <= Len(k) /\ k[i] = q[i]
      BY <1>1, <2>1
    <3> QED
      BY <3>1, <3>2 DEF Less
  <2>3. CASE Len(k) = n
    <3>1. k = p
      BY <1>1, <2>1, <2>3, SeqEqual DEF Str
    <3> QED
      BY <2>2, <3>1 DEF LessEq
  <2>4. CASE Len(k) # n
    <3>1. n + 1 \in 1..Len(k) /\ \A i \in 1..((n + 1) - 1) : i <= n /\ p[i] = k[i]
      BY <1>1, <2>1, <2>4
    <3>2. Less(p, k)
      BY <3>1 DEF Less
    <3> QED
      BY <2>2, <3>2 DEF LessEq
  <2> QED
    BY <2>3, <2>4
<1>3. ASSUME LessEq(p, k), Less(k, q)
      PROVE  HasPrefix(k, p)
  <2>1. CASE p = k
    BY <1>1, <2>1 DEF HasPrefix
  <2>2. CASE Less(p, k)
    <3>1. PICK m \in 1..Len(k) :
            /\ \A i \in 1..(m - 1) : i <= n /\ p[i] = k[i]
            /\ m = n + 1 \/ (m <= n /\ p[m] < k[m])
      BY <2>2 DEF Less
    <3>2. PICK j \in 1..n :
            /\ \A i \in 1..(j - 1) : i <= Len(k) /\ k[i] = q[i]
            /\ j = Len(k) + 1 \/ (j <= Len(k) /\ k[j] < q[j])
      BY <1>1, <1>3 DEF Less
    <3>3. CASE m = n + 1
      BY <1>1, <3>1, <3>3 DEF HasPrefix
    <3>4. CASE m <= n /\ m < j
      <4>1. m \in 1..(j - 1) /\ m \in 1..(n - 1)
        BY <1>1, <3>4
      <4>2. k[m] = q[m] /\ q[m] = p[m] /\ p[m] < k[m] /\ p[m] \in Nat
        BY <1>1, <3>1, <3>2, <3>4, <4>1
      <4> QED
        BY <4>2
    <3>5. CASE m <= n /\ m = j
      <4>1. k[m] < q[m] /\ p[m] < k[m] /\ k[m] \in Nat /\ p[m] \in Nat
        BY <1>1, <3>1, <3>2, <3>5
      <4>2. q[m] = p[m] \/ q[m] = p[m] + 1
        BY <1>1, <3>5
      <4> QED
        BY <4>1, <4>2
    <3>6. CASE m <= n /\ j < m
      <4>1. j \in 1..(m - 1) /\ j \in 1..(n - 1) /\ j <= Len(k)
        BY <1>1, <3>6
      <4>2. k[j] = p[j] /\ q[j] = p[j] /\ p[j] \in Nat /\ k[j] < q[j]
        BY <1>1, <3>1, <3>2, <4>1
      <4> QED
        BY <4>2
    <3> QED
      BY <1>1, <3>1, <3>3, <3>4, <3>5, <3>6
  <2> QED
    BY <1>3, <2>1, <2>2 DEF LessEq
<1> QED
  BY <1>2, <1>3 DEF q

\* The key path + NUL, from which BrowseCurrent resumes after a file, is the
\* immediate successor of path: resuming there repeats and skips nothing.
THEOREM FileSeek ==
    ASSUME NEW p \in Str, NEW k \in Str
    PROVE  Less(p, k) <=> LessEq(nextAfterFile(p), k)
<1> DEFINE n == Len(p)
           q == nextAfterFile(p)
<1>1. /\ n \in Nat /\ Len(k) \in Nat /\ Len(q) = n + 1 /\ q \in Str
      /\ \A i \in 1..Len(k) : k[i] \in Nat
      /\ \A i \in 1..n : q[i] = p[i]
      /\ q[n + 1] = 0
  <2>1. NUL \in Byte /\ NUL = 0
    BY DEF NUL, Byte, MaxByte
  <2> QED
    BY <2>1, StrBytes, AppendProperties DEF Str, nextAfterFile
<1> HIDE DEF q
<1>2. ASSUME Less(p, k)
      PROVE  LessEq(q, k)
  <2>1. PICK m \in 1..Len(k) :
          /\ \A i \in 1..(m - 1) : i <= n /\ p[i] = k[i]
          /\ m = n + 1 \/ (m <= n /\ p[m] < k[m])
    BY <1>2 DEF Less
  <2>2. CASE m <= n
    <3>1. /\ \A i \in 1..(m - 1) : i <= Len(q) /\ q[i] = k[i]
          /\ m <= Len(q) /\ q[m] < k[m]
      BY <1>1, <2>1, <2>2
    <3> QED
      BY <3>1 DEF Less, LessEq
  <2>3. CASE m = n + 1 /\ k[m] # 0
    <3>1. /\ \A i \in 1..(m - 1) : i <= Len(q) /\ q[i] = k[i]
          /\ m <= Len(q) /\ q[m] < k[m]
      BY <1>1, <2>1, <2>3
    <3> QED
      BY <3>1 DEF Less, LessEq
  <2>4. CASE m = n + 1 /\ k[m] = 0
    <3>1. Len(k) >= n + 1 /\ \A i \in 1..(n + 1) : q[i] = k[i]
      BY <1>1, <2>1, <2>4
    <3>2. CASE Len(k) = n + 1
      BY <1>1, <3>1, <3>2, SeqEqual DEF Str, LessEq
    <3>3. CASE Len(k) # n + 1
      <4>1. n + 2 \in 1..Len(k) /\ \A i \in 1..((n + 2) - 1) : i <= Len(q) /\ q[i] = k[i]
        BY <1>1, <3>1, <3>3
      <4>2. n + 2 = Len(q) + 1
        BY <1>1
      <4> QED
        BY <4>1, <4>2 DEF Less, LessEq
    <3> QED
      BY <3>2, <3>3
  <2> QED
    BY <2>1, <2>2, <2>3, <2>4
<1>3. ASSUME LessEq(q, k)
      PROVE  Less(p, k)
  <2>1. CASE q = k
    <3>1. n + 1 \in 1..Len(k) /\ \A i \in 1..((n + 1) - 1) : i <= n /\ p[i] = k[i]
      BY <1>1, <2>1
    <3> QED
      BY <3>1 DEF Less
  <2>2. CASE Less(q, k)
    <3>1. PICK m \in 1..Len(k) :
            /\ \A i \in 1..(m - 1) : i <= Len(q) /\ q[i] = k[i]
            /\ m = Len(q) + 1 \/ (m <= Len(q) /\ q[m] < k[m])
      BY <2>2 DEF Less
    <3>2. CASE m > n
      <4>1. n + 1 \in 1..Len(k) /\ \A i \in 1..((n + 1) - 1) : i <= n /\ p[i] = k[i]
        BY <1>1, <3>1, <3>2
      <4> QED
        BY <4>1 DEF Less
    <3>3. CASE m <= n
      <4>1. /\ \A i \in 1..(m - 1) : i <= n /\ p[i] = k[i]
            /\ m <= n /\ p[m] < k[m]
        BY <1>1, <3>1, <3>3
      <4> QED
        BY <4>1 DEF Less
    <3> QED
      BY <1>1, <3>2, <3>3
  <2> QED
    BY <1>3, <2>1, <2>2 DEF LessEq
<1> QED
  BY <1>2, <1>3 DEF q

-----------------------------------------------------------------------------
(* Gateway.  The inductive invariant counts the values of errCh: every     *)
(* exited component has put one there, and run has taken one at its select *)
(* (unless a signal woke it) and one at its end.                           *)

Exits == (IF http = "exited" THEN 1 ELSE 0) + (IF hip = "exited" THEN 1 ELSE 0)

Tokens ==
    /\ main = "select" => errCh = Exits
    /\ main \in {"drain", "closeHip", "wait"} =>
         /\ errCh = Exits \/ errCh + 1 = Exits
         /\ ~ctxDone => errCh + 1 = Exits
    /\ (main = "stopped" /\ ~ctxDone) => errCh + 2 = Exits

SessionsCounted == hip \in {"starting", "exited"} => sessions = 0

Inv == TypeOK /\ Tokens /\ SessionsCounted

\* run starts with nothing reported and no session.
LEMMA InvInit == Init => Inv
<1> SUFFICES ASSUME Init PROVE Inv
    OBVIOUS
<1>1. ctxDone \in BOOLEAN
      BY Zenon DEF Init
<1>2. QED
      BY <1>1, GatewayAssumption DEF Init, Inv, TypeOK, Tokens, Exits, SessionsCounted

\* No step of run, of a server or of the signal loses or invents a report.
LEMMA InvStep == Inv /\ [Next]_vars => Inv'
<1> SUFFICES ASSUME Inv, [Next]_vars PROVE Inv'
    OBVIOUS
<1> USE GatewayAssumption DEF Inv, TypeOK, Tokens, Exits, SessionsCounted, Alive
<1>1. CASE StartShutdown
      BY <1>1 DEF StartShutdown
<1>2. CASE Drained
      BY <1>2 DEF Drained
<1>3. CASE Shutdown
      BY <1>3 DEF Shutdown
<1>4. CASE Stop
      BY <1>4 DEF Stop
<1>5. CASE HttpListens \/ Request \/ RequestDone
      BY <1>5 DEF HttpListens, Request, RequestDone
<1>6. CASE HttpExits
      BY <1>6 DEF HttpExits
<1>7. CASE HipListens \/ CloseListener
      BY <1>7 DEF HipListens, CloseListener
<1>8. CASE HipFails
      BY <1>8 DEF HipFails
<1>9. CASE Accept \/ runSession
      BY <1>9 DEF Accept, runSession
<1>10. CASE HipExits
      BY <1>10 DEF HipExits
<1>11. CASE Signal
      BY <1>11 DEF Signal
<1>12. CASE UNCHANGED vars
      BY <1>12 DEF vars
<1>13. QED
      BY <1>1, <1>2, <1>3, <1>4, <1>5, <1>6, <1>7, <1>8, <1>9, <1>10, <1>11, <1>12
      DEF Next, RunStep

\* The two places of errCh are enough for whatever run and the servers do, for
\* any number of sessions and requests.
THEOREM GatewayTyped == Spec => []TypeOK
<1>1. Inv => TypeOK
      BY DEF Inv
<1>2. QED
      BY InvInit, InvStep, <1>1, PTL DEF Spec

\* Without a signal, run returns only after both servers and every HIP session
\* have ended, for any number of sessions and requests.
THEOREM GatewayFailureWaits == Spec => []FailureWaits
<1>1. Inv => FailureWaits
      BY DEF Inv, TypeOK, Tokens, Exits, SessionsCounted, FailureWaits
<1>2. QED
      BY InvInit, InvStep, <1>1, PTL DEF Spec

==============================================================================
