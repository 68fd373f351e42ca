------------------------------- MODULE Gateway -------------------------------
(***************************************************************************)
(* The process around the two servers (cmd/gateway run, and the accept     *)
(* loop of hipserver.Server): start, a signal or a failing component, and  *)
(* the shutdown sequence of run.  A session or a request is only counted   *)
(* here; HipSession and ReadPath say what it does.  When run returns the   *)
(* process is gone, and nothing happens any more.                          *)
(***************************************************************************)
EXTENDS Naturals

CONSTANTS MaxSessions,  \* bound: HIP sessions open at a time
          MaxRequests   \* bound: HTTP requests in flight at a time

VARIABLES main,      \* what run does next
          http,      \* ListenAndServe of the HTTP server
          requests,  \* HTTP requests in flight
          hip,       \* ListenAndServe of the HIP server
          sessions,  \* its open sessions (Server.wg)
          errCh,     \* values in errCh, which has room for two
          ctxDone    \* rootCtx: a signal arrived

vars == <<main, http, requests, hip, sessions, errCh, ctxDone>>

ASSUME GatewayAssumption == MaxSessions \in Nat /\ MaxRequests \in Nat

\* Both goroutines run; neither port is bound yet.
Init ==
    /\ main = "select"
    /\ http = "starting" /\ requests = 0
    /\ hip = "starting" /\ sessions = 0
    /\ errCh = 0
    /\ ctxDone = FALSE

Alive == main # "stopped"

-----------------------------------------------------------------------------
(* run.                                                                    *)

\* The select: a signal, or the value of a component that exited.  Then
\* httpSrv.Shutdown, which also stops a server that has not started yet.
StartShutdown ==
    /\ main = "select"
    /\ \/ ctxDone /\ UNCHANGED errCh
       \/ errCh > 0 /\ errCh' = errCh - 1
    /\ main' = "drain"
    /\ http' = IF http = "exited" THEN http ELSE "closing"
    /\ UNCHANGED <<requests, hip, sessions, ctxDone>>

\* httpSrv.Shutdown returns when no request is left, or after 15 s.
Drained ==
    /\ main = "drain"
    /\ main' = "closeHip"
    /\ UNCHANGED <<http, requests, hip, sessions, errCh, ctxDone>>

\* hipSrv.Shutdown closes the listener, if there is one already.
Shutdown ==
    /\ main = "closeHip"
    /\ hip' = IF hip = "listening" THEN "closed" ELSE hip
    /\ main' = "wait"
    /\ UNCHANGED <<http, requests, sessions, errCh, ctxDone>>

\* Mutant: run waits until both components have reported.
StopAfterTwo ==
    /\ main = "wait" /\ errCh = 2
    /\ errCh' = 0
    /\ main' = "stopped"
    /\ UNCHANGED <<http, requests, hip, sessions, ctxDone>>

\* The last receive from errCh; run returns and db is closed.
Stop ==
    /\ main = "wait" /\ errCh > 0
    /\ errCh' = errCh - 1
    /\ main' = "stopped"
    /\ UNCHANGED <<http, requests, hip, sessions, ctxDone>>

-----------------------------------------------------------------------------
(* The HTTP server.                                                        *)

HttpListens ==
    /\ Alive /\ http = "starting"
    /\ http' = "serving"
    /\ UNCHANGED <<main, requests, hip, sessions, errCh, ctxDone>>

Request ==
    /\ Alive /\ http = "serving" /\ requests < MaxRequests
    /\ requests' = requests + 1
    /\ UNCHANGED <<main, http, hip, sessions, errCh, ctxDone>>

RequestDone ==
    /\ Alive /\ requests > 0
    /\ requests' = requests - 1
    /\ UNCHANGED <<main, http, hip, sessions, errCh, ctxDone>>

\* Mutant: the goroutine goes on after it reported an error.
HttpReportsTwice ==
    /\ Alive /\ http # "exited"
    /\ http' = "exited"
    /\ errCh' = errCh + 2
    /\ UNCHANGED <<main, requests, hip, sessions, ctxDone>>

\* ListenAndServe returns: the port is taken, accepting fails, or Shutdown was
\* called, in which case it does not wait for the requests.  Its goroutine
\* reports to errCh.
HttpExits ==
    /\ Alive /\ http # "exited"
    /\ http' = "exited"
    /\ errCh' = errCh + 1
    /\ UNCHANGED <<main, requests, hip, sessions, ctxDone>>

-----------------------------------------------------------------------------
(* The HIP server.                                                         *)

HipListens ==
    /\ Alive /\ hip = "starting"
    /\ hip' = "listening"
    /\ UNCHANGED <<main, http, requests, sessions, errCh, ctxDone>>

\* The certificate does not load or the port is taken.
HipFails ==
    /\ Alive /\ hip = "starting"
    /\ hip' = "exited"
    /\ errCh' = errCh + 1
    /\ UNCHANGED <<main, http, requests, sessions, ctxDone>>

\* The fan-out goroutine: context done, listener closed.
CloseListener ==
    /\ Alive /\ ctxDone /\ hip = "listening"
    /\ hip' = "closed"
    /\ UNCHANGED <<main, http, requests, sessions, errCh, ctxDone>>

Accept ==
    /\ Alive /\ hip = "listening" /\ sessions < MaxSessions
    /\ sessions' = sessions + 1
    /\ UNCHANGED <<main, http, requests, hip, errCh, ctxDone>>

runSession ==
    /\ Alive /\ sessions > 0
    /\ sessions' = sessions - 1
    /\ UNCHANGED <<main, http, requests, hip, errCh, ctxDone>>

\* Mutant: the accept loop returns without wg.Wait.
HipExitsEarly ==
    /\ Alive /\ hip = "closed"
    /\ hip' = "exited"
    /\ errCh' = errCh + 1
    /\ UNCHANGED <<main, http, requests, sessions, ctxDone>>

\* wg.Wait, and the goroutine reports to errCh.
HipExits ==
    /\ Alive /\ hip = "closed" /\ sessions = 0
    /\ hip' = "exited"
    /\ errCh' = errCh + 1
    /\ UNCHANGED <<main, http, requests, sessions, ctxDone>>

-----------------------------------------------------------------------------
Signal ==
    /\ Alive /\ ~ctxDone
    /\ ctxDone' = TRUE
    /\ UNCHANGED <<main, http, requests, hip, sessions, errCh>>

RunStep == StartShutdown \/ Drained \/ Shutdown \/ Stop

Next ==
    \/ RunStep
    \/ HttpListens \/ Request \/ RequestDone \/ HttpExits
    \/ HipListens \/ HipFails \/ CloseListener \/ Accept \/ runSession \/ HipExits
    \/ Signal

Spec == Init /\ [][Next]_vars

\* Goroutines run; sessions end (HipSession says when they do); a server whose
\* Shutdown was called returns.  Requests may last for ever.
Fairness ==
    /\ WF_vars(RunStep)
    /\ WF_vars(http = "closing" /\ HttpExits)
    /\ WF_vars(HipListens \/ HipFails) /\ WF_vars(CloseListener)
    /\ WF_vars(runSession) /\ WF_vars(HipExits)

FairSpec == Spec /\ Fairness

-----------------------------------------------------------------------------
(* Properties.                                                             *)

\* The variables are typed, and errCh never holds more than its two places, so
\* the goroutine of a component that exits is never stuck in its send.
TypeOK ==
    /\ main \in {"select", "drain", "closeHip", "wait", "stopped"}
    /\ http \in {"starting", "serving", "closing", "exited"}
    /\ hip \in {"starting", "listening", "closed", "exited"}
    /\ requests \in 0..MaxRequests /\ sessions \in 0..MaxSessions
    /\ errCh \in 0..2
    /\ ctxDone \in BOOLEAN

\* When a component fails, run waits for the other: without a signal it returns
\* only after both servers have, and with them every HIP session, so the
\* database is not closed under a COMMIT.
FailureWaits ==
    (main = "stopped" /\ ~ctxDone) => http = "exited" /\ hip = "exited" /\ sessions = 0

\* A signal stops the process, whatever requests are still in flight.
SignalStops == ctxDone ~> main = "stopped"

\* run: "Wait remaining component to exit."  When it returns both components
\* have exited.  So it is after a failure (FailureWaits); after a signal run
\* receives one value of the two, and this does not hold.
WaitsForAll == main = "stopped" => http = "exited" /\ hip = "exited"

=============================================================================
