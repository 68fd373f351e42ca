-------------------------- MODULE HipSessionProofs ---------------------------
(***************************************************************************)
(* Proofs about HipSession.  The inductive invariant adds to the checked   *)
(* ones what each stage of runSession's teardown has already done.         *)
(***************************************************************************)
EXTENDS HipSession, TLAPS

\* The reader sends only what a handler answered, and finishes a stream only
\* when there is one.
ReaderReady ==
    /\ pc = "send" => reply \in {"FRAME", "ERROR"}
    /\ pc = "finish" => open > 0

\* The stages of the teardown, in the order of the deferred calls.
Teardown ==
    /\ pc \in {"waitHeartbeat", "waitWriter", "ended"} =>
         conn = "closed" /\ open = 0 /\ counted # "none"
    /\ pc \in {"waitWriter", "ended"} => chClosed /\ gauge = 0
    /\ wpc = "done" => chClosed
    /\ pc = "ended" => wpc = "done"

Inv == TypeOK /\ SlotsExact /\ NoSendOnClosed /\ ReaderReady /\ Teardown

\* A fresh connection holds no slot, and its queue is open.
LEMMA InvInit == Init => Inv
<1> SUFFICES ASSUME Init PROVE Inv
    OBVIOUS
<1>1. /\ processing \in BOOLEAN /\ chClosed \in BOOLEAN
      /\ ctxDone \in BOOLEAN /\ ticked \in BOOLEAN
      BY Zenon DEF Init
<1>2. ~chClosed
      BY Zenon DEF Init
<1>3. QED
      BY <1>1, <1>2, SessionAssumption
      DEF Init, Inv, TypeOK, SlotsExact, NoSendOnClosed, ReaderReady, Teardown

\* Whatever frame arrives leaves the slots and the teardown alone.
LEMMA PeerStep == Inv /\ PeerFrame => Inv'
<1> SUFFICES ASSUME Inv, PeerFrame PROVE Inv'
    OBVIOUS
<1> USE SessionAssumption
    DEF Inv, TypeOK, SlotsExact, NoSendOnClosed, ReaderReady, Teardown, Receive,
        writerVars
<1>1. CASE Quiet
      BY <1>1 DEF Quiet
<1>2. CASE Hello
      BY <1>2 DEF Hello
<1>3. CASE Request
      BY <1>3 DEF Request
<1>4. CASE UploadBegin
      BY <1>4 DEF UploadBegin
<1>5. CASE UploadEnd
      BY <1>5 DEF UploadEnd
<1>6. CASE Commit
      BY <1>6 DEF Commit
<1>7. CASE Violation
      BY <1>7 DEF Violation
<1>8. CASE Farewell
      BY <1>8 DEF Farewell
<1>9. QED
      BY <1>1, <1>2, <1>3, <1>4, <1>5, <1>6, <1>7, <1>8 DEF PeerFrame

\* The reader's own steps: a slot is taken and given back exactly once, and
\* the queue is closed only after the heartbeat has returned.
LEMMA ReaderSteps == Inv /\ ReaderStep => Inv'
<1> SUFFICES ASSUME Inv, ReaderStep PROVE Inv'
    OBVIOUS
<1> USE SessionAssumption
    DEF Inv, TypeOK, SlotsExact, NoSendOnClosed, ReaderReady, Teardown, ReaderOnly,
        writerVars, envVars, timeVars, Return, Handled, Answer
<1>0. processing' \in BOOLEAN
      BY Zenon
      DEF ReaderStep, LoopTop, ReadFails, FinishFrame, AcquireSlot, SemCancelled,
          BeginRejected, BeginAccepted, FinishStream, Send, SendCancelled, AbortUploads,
          CloseQueue, End
<1>1. CASE LoopTop
      BY <1>0, <1>1 DEF LoopTop
<1>2. CASE ReadFails
      BY <1>0, <1>2 DEF ReadFails
<1>3. CASE FinishFrame
      BY <1>0, <1>3 DEF FinishFrame
<1>4. CASE AcquireSlot
      BY <1>0, <1>4 DEF AcquireSlot
<1>5. CASE SemCancelled \/ SendCancelled
      BY <1>0, <1>5 DEF SemCancelled, SendCancelled
<1>6. CASE BeginRejected
      BY <1>0, <1>6 DEF BeginRejected
<1>7. CASE BeginAccepted
      BY <1>0, <1>7 DEF BeginAccepted
<1>8. CASE FinishStream
      BY <1>0, <1>8 DEF FinishStream
<1>9. CASE Send
      BY <1>0, <1>9 DEF Send
<1>10. CASE AbortUploads
      BY <1>0, <1>10 DEF AbortUploads
<1>11. CASE CloseQueue
      BY <1>0, <1>11 DEF CloseQueue
<1>12. CASE End
      BY <1>0, <1>12 DEF End
<1>13. QED
      BY <1>1, <1>2, <1>3, <1>4, <1>5, <1>6, <1>7, <1>8, <1>9, <1>10, <1>11, <1>12
      DEF ReaderStep

\* The writer only empties the queue, and ends when it is closed and empty.
LEMMA WriterSteps == Inv /\ (WriterStep \/ Written) => Inv'
<1> SUFFICES ASSUME Inv, WriterStep \/ Written PROVE Inv'
    OBVIOUS
<1> USE SessionAssumption
    DEF Inv, TypeOK, SlotsExact, NoSendOnClosed, ReaderReady, Teardown, WriterFrame,
        readerVars, envVars, timeVars
<1>1. CASE TakeFrame
      BY <1>1 DEF TakeFrame
<1>2. CASE WriteFails \/ Written
      BY <1>2 DEF WriteFails, Written
<1>3. CASE Drain
      BY <1>3 DEF Drain
<1>4. CASE WriterEnds
      BY <1>4 DEF WriterEnds
<1>5. QED
      BY <1>1, <1>2, <1>3, <1>4 DEF WriterStep

\* The heartbeat sends only while it runs, and closes no queue.
LEMMA HeartSteps == Inv /\ HeartStep => Inv'
<1> SUFFICES ASSUME Inv, HeartStep PROVE Inv'
    OBVIOUS
<1> USE SessionAssumption
    DEF Inv, TypeOK, SlotsExact, NoSendOnClosed, ReaderReady, Teardown, HeartFrame,
        readerVars, envVars
<1>0. ticked' \in BOOLEAN
      BY Zenon
      DEF HeartStep, HeartCancelled, HeartTick, HeartSilent, HeartPing, HeartPingCancelled
<1>1. CASE HeartCancelled
      BY <1>0, <1>1 DEF HeartCancelled
<1>2. CASE HeartPingCancelled
      BY <1>0, <1>2 DEF HeartPingCancelled
<1>3. CASE HeartTick
      BY <1>0, <1>3 DEF HeartTick
<1>4. CASE HeartSilent
      BY <1>0, <1>4 DEF HeartSilent
<1>5. CASE HeartPing
      BY <1>0, <1>5 DEF HeartPing
<1>6. QED
      BY <1>1, <1>2, <1>3, <1>4, <1>5 DEF HeartStep

\* Time, a vanishing peer and a shutdown touch neither slots nor teardown.
LEMMA WorldSteps == Inv /\ (Tick \/ PeerGone \/ Shutdown \/ UNCHANGED vars) => Inv'
<1> SUFFICES ASSUME Inv, Tick \/ PeerGone \/ Shutdown \/ UNCHANGED vars PROVE Inv'
    OBVIOUS
<1> USE SessionAssumption
    DEF Inv, TypeOK, SlotsExact, NoSendOnClosed, ReaderReady, Teardown, readerVars,
        writerVars, envVars, timeVars
<1>1. CASE Tick
      BY <1>1 DEF Tick, Grow
<1>2. CASE PeerGone
      BY <1>2 DEF PeerGone
<1>3. CASE Shutdown
      BY <1>3 DEF Shutdown
<1>4. CASE UNCHANGED vars
      BY <1>4 DEF vars
<1>5. QED
      BY <1>1, <1>2, <1>3, <1>4

\* Every step of the reader, the writer, the heartbeat and their surroundings
\* preserves the invariant.
LEMMA InvStep == Inv /\ [Next]_vars => Inv'
BY PeerStep, ReaderSteps, WriterSteps, HeartSteps, WorldSteps DEF Next

\* The slots, the queue and the teardown are consistent throughout a session.
LEMMA SessionInvariant == Spec => []Inv
BY InvInit, InvStep, PTL DEF Spec

\* The queue and the window keep their bounds for every capacity and window.
THEOREM SessionTyped == Spec => []TypeOK
<1>1. Inv => TypeOK
      BY DEF Inv
<1>2. QED
      BY SessionInvariant, <1>1, PTL

\* The upload window is exact for every window size and every client: no
\* rejected, failed or aborted stream keeps a slot.
THEOREM SessionSlotsExact == Spec => []SlotsExact
<1>1. Inv => SlotsExact
      BY DEF Inv
<1>2. QED
      BY SessionInvariant, <1>1, PTL

\* No goroutine of a session ever sends on its closed queue.
THEOREM SessionNoSendOnClosed == Spec => []NoSendOnClosed
<1>1. Inv => NoSendOnClosed
      BY DEF Inv
<1>2. QED
      BY SessionInvariant, <1>1, PTL

\* A session that ended has left nothing behind.
THEOREM SessionEndedClean == Spec => []EndedClean
<1>1. Inv => EndedClean
      BY DEF Inv, TypeOK, SlotsExact, NoSendOnClosed, Teardown, EndedClean
<1>2. QED
      BY SessionInvariant, <1>1, PTL

=============================================================================
