----------------------------- MODULE HipSession -----------------------------
(***************************************************************************)
(* The goroutines of one HIP connection (internal/hipserver): the reader   *)
(* (runSession, readLoop, dispatch), the frame writer behind its bounded   *)
(* queue, and the heartbeat watchdog; with the peer, the clock and the     *)
(* server's context around them.  What a frame does to the asset state is  *)
(* in HipIngest; here a frame is what it makes the reader do: answer,      *)
(* answer nothing, take or free an upload slot, fail, finish.              *)
(*                                                                         *)
(* Time runs in heartbeat ticks (15 s in the code, where SilenceLimit is 4 *)
(* ticks and PingLimit 2); QueueCap is 64 there and Window is              *)
(* MaxInFlightUploads.                                                     *)
(***************************************************************************)
EXTENDS Naturals, Sequences

CONSTANTS QueueCap, Window, SilenceLimit, PingLimit,
          MaxFrames,    \* bound: frames the peer sends
          PeerReads     \* the peer drains its socket

VARIABLES pc,         \* reader: what it does next
          reply,      \* reader: frame it is about to send
          processing, \* a frame is being dispatched
          slots,      \* len(uploadSem)
          open,       \* len(uploads)
          state,      \* protocol state
          hpc,        \* heartbeat
          wpc,        \* frame writer
          queue,      \* fw.ch
          chClosed,   \* close(fw.ch) was called
          conn,       \* server's end of the connection
          peer,       \* "up" or "gone"
          sent,       \* frames the peer has sent
          ctxDone,    \* the server's context is cancelled
          silence,    \* ticks since the last frame (lastRecv)
          pingAge,    \* ticks since the last PING
          ticked,     \* the ticker's channel holds a tick
          gauge,      \* sessions_active
          counted     \* sessions_total result of this session

readerVars == <<pc, reply, processing, slots, open, state>>
writerVars == <<wpc, queue, chClosed>>
timeVars == <<silence, pingAge, ticked>>
envVars == <<peer, sent, ctxDone>>
vars == <<readerVars, hpc, writerVars, conn, envVars, timeVars, gauge, counted>>

ASSUME SessionAssumption ==
    /\ QueueCap \in Nat \ {0} /\ Window \in Nat \ {0}
    /\ SilenceLimit \in Nat /\ PingLimit \in Nat /\ MaxFrames \in Nat
    /\ PeerReads \in BOOLEAN

Init ==
    /\ pc = "top" /\ reply = "none" /\ processing = FALSE
    /\ slots = 0 /\ open = 0 /\ state = "handshake"
    /\ hpc = "wait"
    /\ wpc = "idle" /\ queue = <<>> /\ chClosed = FALSE
    /\ conn = "open"
    /\ peer = "up" /\ sent = 0 /\ ctxDone = FALSE
    /\ silence = 0 /\ pingAge = 0 /\ ticked = FALSE
    /\ gauge = 1 /\ counted = "none"

-----------------------------------------------------------------------------
(* The reader.                                                             *)

ReaderOnly == UNCHANGED <<hpc, writerVars, conn, envVars, timeVars, gauge, counted>>

\* The handler returns nil, and the loop comes around.
Handled == processing' = FALSE /\ pc' = "top" /\ UNCHANGED reply

\* The handler or the loop returns: "eof" is a clean end, "err" an error.
Return(how) == processing' = FALSE /\ pc' = "abort" /\ reply' = how

Answer(frame) == pc' = "send" /\ reply' = frame /\ UNCHANGED processing

\* readLoop checks the context before it blocks in ReadFrame.
LoopTop ==
    /\ pc = "top"
    /\ IF ctxDone THEN Return("err") ELSE pc' = "read" /\ UNCHANGED <<reply, processing>>
    /\ UNCHANGED <<slots, open, state>>
    /\ ReaderOnly

\* ReadFrame fails: the peer is gone, or the connection was closed under it.
ReadFails ==
    /\ pc = "read" /\ (peer = "gone" \/ conn = "closed")
    /\ \E how \in {"eof", "err"} : Return(how)
    /\ UNCHANGED <<slots, open, state>>
    /\ ReaderOnly

\* A frame arrives and is dispatched.
Receive ==
    /\ pc = "read" /\ conn = "open" /\ peer = "up" /\ sent < MaxFrames
    /\ sent' = sent + 1
    /\ silence' = 0
    /\ processing' = TRUE
    /\ UNCHANGED <<hpc, writerVars, conn, peer, ctxDone, pingAge, ticked, gauge, counted>>

\* CHUNK, PONG, a peer's non-fatal ERROR.
Quiet == Receive /\ pc' = "handled" /\ UNCHANGED <<reply, slots, open, state>>

\* HELLO; its ack announces the window.
Hello ==
    /\ state = "handshake"
    /\ Receive /\ pc' = "send" /\ reply' = "FRAME"
    /\ state' = "running"
    /\ UNCHANGED <<slots, open>>

\* CHECK_BATCH, PING.
Request == Receive /\ pc' = "send" /\ reply' = "FRAME" /\ UNCHANGED <<slots, open, state>>

UploadBegin ==
    /\ state = "running"
    /\ Receive /\ pc' = "sem"
    /\ UNCHANGED <<reply, slots, open, state>>

\* UPLOAD_END of an open stream, or a CHUNK its PUT does not take.
UploadEnd ==
    /\ open > 0
    /\ Receive /\ pc' = "finish"
    /\ UNCHANGED <<reply, slots, open, state>>

\* COMMIT with no stream in flight that succeeds.
Commit ==
    /\ state = "running" /\ open = 0
    /\ Receive /\ pc' = "send" /\ reply' = "FRAME"
    /\ state' = "finalized"
    /\ UNCHANGED <<slots, open>>

\* Anything the state machine or the payload checks refuse, or that fails in
\* the database.
Violation == Receive /\ pc' = "send" /\ reply' = "ERROR" /\ UNCHANGED <<slots, open, state>>

\* BYE ends the loop cleanly, a peer's fatal ERROR with an error.
Farewell ==
    /\ Receive /\ pc' = "leave"
    /\ \E how \in {"eof", "err"} : reply' = how
    /\ UNCHANGED <<slots, open, state>>

FinishFrame ==
    /\ pc \in {"handled", "leave"}
    /\ IF pc = "handled" THEN Handled ELSE Return(reply)
    /\ UNCHANGED <<slots, open, state>>
    /\ ReaderOnly

\* The slot of UPLOAD_BEGIN; only the reader itself could free one.
AcquireSlot ==
    /\ pc = "sem" /\ slots < Window
    /\ slots' = slots + 1
    /\ pc' = "begin"
    /\ UNCHANGED <<reply, processing, open, state>>
    /\ ReaderOnly

SemCancelled ==
    /\ pc = "sem" /\ ctxDone
    /\ Return("err")
    /\ UNCHANGED <<slots, open, state>>
    /\ ReaderOnly

\* Mutant: a rejected BEGIN keeps its slot.
BeginRejectedLeaks ==
    /\ pc = "begin"
    /\ \E frame \in {"FRAME", "ERROR"} : Answer(frame)
    /\ UNCHANGED <<slots, open, state>>
    /\ ReaderOnly

\* CheckPath says skip (UPLOAD_ACK rejected), or fails, or the id is taken
\* (ERROR): the slot is given back before the answer.
BeginRejected ==
    /\ pc = "begin"
    /\ slots' = slots - 1
    /\ \E frame \in {"FRAME", "ERROR"} : Answer(frame)
    /\ UNCHANGED <<open, state>>
    /\ ReaderOnly

BeginAccepted ==
    /\ pc = "begin"
    /\ open' = open + 1
    /\ Handled
    /\ UNCHANGED <<slots, state>>
    /\ ReaderOnly

\* handleUploadEnd or finishInflight: the stream leaves the map and its slot
\* is free, whatever the verdict the ack carries.
FinishStream ==
    /\ pc = "finish"
    /\ open' = open - 1
    /\ slots' = slots - 1
    /\ Answer("FRAME")
    /\ UNCHANGED state
    /\ ReaderOnly

\* Send: the queue takes the frame, or the context ends first.  An ERROR
\* frame stops the loop either way.
Send ==
    /\ pc = "send" /\ Len(queue) < QueueCap
    /\ queue' = Append(queue, reply)
    /\ IF reply = "ERROR" THEN Return("err") ELSE Handled
    /\ UNCHANGED <<slots, open, state, hpc, wpc, chClosed, conn, envVars,
                   timeVars, gauge, counted>>

SendCancelled ==
    /\ pc = "send" /\ ctxDone
    /\ Return("err")
    /\ UNCHANGED <<slots, open, state>>
    /\ ReaderOnly

-----------------------------------------------------------------------------
(* The end of runSession: abort the uploads, count, close the connection,  *)
(* then the deferred calls in reverse order.                               *)

\* Mutant: the streams are aborted but stay in the map.
AbortKeepsStreams ==
    /\ pc = "abort"
    /\ counted' = IF reply = "eof" /\ state = "finalized" THEN "commit" ELSE "abort"
    /\ conn' = "closed"
    /\ pc' = "waitHeartbeat"
    /\ UNCHANGED <<reply, processing, slots, open, state, hpc, writerVars, envVars,
                   timeVars, gauge>>

AbortUploads ==
    /\ pc = "abort"
    /\ slots' = slots - open
    /\ open' = 0
    /\ counted' = IF reply = "eof" /\ state = "finalized" THEN "commit" ELSE "abort"
    /\ conn' = "closed"
    /\ pc' = "waitHeartbeat"
    /\ UNCHANGED <<reply, processing, state, hpc, writerVars, envVars, timeVars, gauge>>

\* Mutant: the queue is closed while the heartbeat may still send.
CloseQueueEarly ==
    /\ pc = "waitHeartbeat"
    /\ gauge' = 0
    /\ chClosed' = TRUE
    /\ pc' = "waitWriter"
    /\ UNCHANGED <<reply, processing, slots, open, state, hpc, wpc, queue, conn,
                   envVars, timeVars, counted>>

\* <-heartbeatDone, gaugeSessionsActive(-1) and close(fw.ch).
CloseQueue ==
    /\ pc = "waitHeartbeat" /\ hpc = "done"
    /\ gauge' = 0
    /\ chClosed' = TRUE
    /\ pc' = "waitWriter"
    /\ UNCHANGED <<reply, processing, slots, open, state, hpc, wpc, queue, conn,
                   envVars, timeVars, counted>>

\* fw.wg.Wait, cancel and the server's wg.Done.
End ==
    /\ pc = "waitWriter" /\ wpc = "done"
    /\ pc' = "ended"
    /\ UNCHANGED <<reply, processing, slots, open, state>>
    /\ ReaderOnly

-----------------------------------------------------------------------------
(* The frame writer.                                                       *)

WriterFrame == UNCHANGED <<readerVars, hpc, conn, envVars, timeVars, gauge, counted>>

TakeFrame ==
    /\ wpc = "idle" /\ queue # <<>>
    /\ wpc' = Head(queue)
    /\ queue' = Tail(queue)
    /\ UNCHANGED chClosed
    /\ WriterFrame

\* The frame goes out, unless the peer has stopped reading.
Written ==
    /\ wpc \in {"FRAME", "ERROR", "PING"} /\ conn = "open" /\ peer = "up"
    /\ wpc' = "idle"
    /\ UNCHANGED <<queue, chClosed>>
    /\ WriterFrame

\* A write error: the loop drains what is queued without writing it.
WriteFails ==
    /\ wpc \in {"FRAME", "ERROR", "PING"} /\ (conn = "closed" \/ peer = "gone")
    /\ wpc' = "drain"
    /\ UNCHANGED <<queue, chClosed>>
    /\ WriterFrame

Drain ==
    /\ wpc = "drain" /\ queue # <<>>
    /\ queue' = Tail(queue)
    /\ UNCHANGED <<wpc, chClosed>>
    /\ WriterFrame

\* The range loop ends when the closed channel is empty.
WriterEnds ==
    /\ wpc \in {"idle", "drain"} /\ chClosed /\ queue = <<>>
    /\ wpc' = "done"
    /\ UNCHANGED <<queue, chClosed>>
    /\ WriterFrame

-----------------------------------------------------------------------------
(* The heartbeat.                                                          *)

HeartFrame == UNCHANGED <<readerVars, wpc, chClosed, envVars, silence, gauge, counted>>

HeartCancelled ==
    /\ hpc = "wait" /\ ctxDone
    /\ hpc' = "done"
    /\ UNCHANGED <<queue, conn, pingAge, ticked>>
    /\ HeartFrame

\* One tick: silence first, then the PING.
HeartTick ==
    /\ hpc = "wait" /\ ticked
    /\ ticked' = FALSE
    /\ hpc' = IF silence > SilenceLimit THEN "silent"
              ELSE IF pingAge > PingLimit THEN "ping" ELSE "wait"
    /\ UNCHANGED <<queue, conn, pingAge>>
    /\ HeartFrame

\* Mutant: the watchdog waits on without closing.
HeartSilentWaits ==
    /\ hpc = "silent"
    /\ hpc' = "wait"
    /\ UNCHANGED <<queue, conn, pingAge, ticked>>
    /\ HeartFrame

\* A silent peer is closed, unless a frame is being processed.
HeartSilent ==
    /\ hpc = "silent"
    /\ IF processing THEN hpc' = "wait" /\ UNCHANGED conn
       ELSE hpc' = "done" /\ conn' = "closed"
    /\ UNCHANGED <<queue, pingAge, ticked>>
    /\ HeartFrame

HeartPing ==
    /\ hpc = "ping" /\ Len(queue) < QueueCap
    /\ queue' = Append(queue, "PING")
    /\ pingAge' = 0
    /\ hpc' = "wait"
    /\ UNCHANGED <<conn, ticked>>
    /\ HeartFrame

HeartPingCancelled ==
    /\ hpc = "ping" /\ ctxDone
    /\ hpc' = "done"
    /\ UNCHANGED <<queue, conn, pingAge, ticked>>
    /\ HeartFrame

-----------------------------------------------------------------------------
(* Time, the peer and the server.                                          *)

Grow(n, limit) == IF n > limit THEN n ELSE n + 1

Tick ==
    /\ pc # "ended"
    /\ silence' = Grow(silence, SilenceLimit)
    /\ pingAge' = Grow(pingAge, PingLimit)
    /\ ticked' = TRUE
    /\ UNCHANGED <<readerVars, hpc, writerVars, conn, envVars, gauge, counted>>

PeerGone ==
    /\ peer = "up"
    /\ peer' = "gone"
    /\ UNCHANGED <<readerVars, hpc, writerVars, conn, sent, ctxDone, timeVars, gauge, counted>>

Shutdown ==
    /\ ~ctxDone
    /\ ctxDone' = TRUE
    /\ UNCHANGED <<readerVars, hpc, writerVars, conn, peer, sent, timeVars, gauge, counted>>

PeerFrame == Quiet \/ Hello \/ Request \/ UploadBegin \/ UploadEnd \/ Commit \/ Violation \/ Farewell

ReaderStep ==
    \/ LoopTop \/ ReadFails \/ FinishFrame \/ AcquireSlot \/ SemCancelled \/ BeginRejected
    \/ BeginAccepted \/ FinishStream \/ Send \/ SendCancelled \/ AbortUploads \/ CloseQueue
    \/ End

WriterStep == TakeFrame \/ WriteFails \/ Drain \/ WriterEnds

HeartStep == HeartCancelled \/ HeartTick \/ HeartSilent \/ HeartPing \/ HeartPingCancelled

Next == PeerFrame \/ ReaderStep \/ WriterStep \/ Written \/ HeartStep \/ Tick
        \/ PeerGone \/ Shutdown

Spec == Init /\ [][Next]_vars

\* Goroutines run, the filer answers, time passes.  Nothing is assumed of the
\* peer, but that its socket drains when it reads.
Fairness ==
    /\ WF_vars(ReaderStep) /\ WF_vars(WriterStep) /\ WF_vars(HeartStep) /\ WF_vars(Tick)
    /\ PeerReads => WF_vars(Written)

FairSpec == Spec /\ Fairness

-----------------------------------------------------------------------------
(* Properties.                                                             *)

\* The variables are typed; the queue and the upload window keep their bounds,
\* so no slot is given back twice.  Proved for every capacity (SessionTyped).
TypeOK ==
    /\ pc \in {"top", "read", "handled", "leave", "sem", "begin", "finish", "send", "abort",
               "waitHeartbeat", "waitWriter", "ended"}
    /\ reply \in {"none", "FRAME", "ERROR", "eof", "err"}
    /\ processing \in BOOLEAN /\ state \in {"handshake", "running", "finalized"}
    /\ slots \in 0..Window /\ open \in 0..Window
    /\ hpc \in {"wait", "silent", "ping", "done"}
    /\ wpc \in {"idle", "FRAME", "ERROR", "PING", "drain", "done"}
    /\ queue \in Seq({"FRAME", "ERROR", "PING"}) /\ Len(queue) <= QueueCap
    /\ chClosed \in BOOLEAN
    /\ conn \in {"open", "closed"} /\ peer \in {"up", "gone"}
    /\ sent \in 0..MaxFrames /\ ctxDone \in BOOLEAN
    /\ silence \in 0..SilenceLimit + 1 /\ pingAge \in 0..PingLimit + 1 /\ ticked \in BOOLEAN
    /\ gauge \in {0, 1} /\ counted \in {"none", "commit", "abort"}

\* The window is exact: the semaphore holds one slot per stream of the map,
\* plus the one of a BEGIN that is being decided; a rejected, failed or
\* aborted stream gives its slot back.
SlotsExact == slots = open + (IF pc = "begin" THEN 1 ELSE 0)

\* Nobody sends on the closed queue, which would panic: when close(fw.ch)
\* runs, the reader is past its last Send and the heartbeat has returned.
NoSendOnClosed == chClosed => pc \in {"waitWriter", "ended"} /\ hpc = "done"

\* A session that ended holds nothing: its goroutines are gone, the gauge is
\* back, no stream or slot is left, and it was counted.
EndedClean ==
    pc = "ended" => /\ hpc = "done" /\ wpc = "done" /\ conn = "closed"
                    /\ gauge = 0 /\ open = 0 /\ slots = 0 /\ counted # "none"

\* Every session ends: the peer sends finitely many frames, so it is silent
\* or gone in the end, and the watchdog or the read error ends the session,
\* unless the server is shut down or the peer overruns its window.
SessionEnds == []~(ctxDone \/ (pc = "sem" /\ slots = Window)) => <>(pc = "ended")

\* A disconnect ends the session and with it the state of its run.
DisconnectEnds == peer = "gone" ~> pc = "ended"

\* After the context is cancelled the session ends.
ShutdownEnds == ctxDone ~> pc = "ended"

=============================================================================
