---------------------------- MODULE ServerProcess ----------------------------
(***************************************************************************)
(* The life of the server process (runAll, defaultListen and               *)
(* defaultGRPCListen of cmd/rlaas-server/main.go) around the spreading of  *)
(* policy changes: PolicySync says what its handlers and workers do, this  *)
(* module when they can.  On SIGTERM the main goroutine shuts the HTTP     *)
(* server down and returns, which ends the process; another goroutine      *)
(* stops the gRPC server, and nobody waits for it.                         *)
(*                                                                         *)
(* process is the main goroutine: "stopped" after a graceful shutdown,     *)
(* "failed" after any other end.  rpcs is the RPCs in flight, or those cut *)
(* off when the process ended.                                             *)
(***************************************************************************)
EXTENDS PolicySync

CONSTANT RPC

VARIABLES process, ready, grpc, rpcs

own == <<process, ready, grpc, rpcs>>
allVars == <<syncVars, own>>

Running == process \in {"starting", "serving", "draining"}

ServerInit ==
  /\ SyncInit
  /\ process = "starting" /\ ready = FALSE
  /\ grpc = "serving" /\ rpcs = {}

-----------------------------------------------------------------------------
(* Starting and stopping *)

\* The gRPC server is up before the HTTP server.
Serve ==
  /\ process = "starting"
  /\ process' = "serving" /\ ready' = TRUE
  /\ UNCHANGED <<syncVars, grpc, rpcs>>

\* SIGTERM: no new requests, those in flight go on.
Signal ==
  /\ process = "serving"
  /\ process' = "draining" /\ ready' = FALSE
  /\ UNCHANGED <<syncVars, grpc, rpcs>>

\* What the process has in memory is gone: announcements, queue and pushes.
End(how) ==
  /\ ServerRestart
  /\ process' = how /\ ready' = FALSE
  /\ UNCHANGED <<grpc, rpcs>>

\* Shutdown returns as all HTTP requests have ended; main returns.
HTTPDrained == process = "draining" /\ announcing = {} /\ End("stopped")

\* Variant: a shutdown without a deadline.
ShutdownTimesOut_waits == process = "draining" /\ announcing = {} /\ End("failed")

\* Shutdown gives up at its deadline.
ShutdownTimesOut == process = "draining" /\ End("failed")

\* The process is killed, or its HTTP server cannot listen.
Crash == Running /\ End("failed")

\* It is started again.
Start ==
  /\ process \in {"stopped", "failed"}
  /\ process' = "starting"
  /\ grpc' = "serving" /\ rpcs' = {}
  /\ UNCHANGED <<syncVars, ready>>

-----------------------------------------------------------------------------
(* The gRPC server *)

BeginRPC(r) ==
  /\ Running /\ grpc = "serving"
  /\ rpcs' = rpcs \union {r}
  /\ UNCHANGED <<syncVars, process, ready, grpc>>

EndRPC(r) ==
  /\ Running
  /\ rpcs' = rpcs \ {r}
  /\ UNCHANGED <<syncVars, process, ready, grpc>>

\* The goroutine of defaultGRPCListen gets the same signal: GracefulStop
\* takes no new RPC, and returns when there is none left.
GracefulStop ==
  /\ process = "draining"
  /\ \/ grpc = "serving" /\ grpc' = "stopping"
     \/ grpc = "stopping" /\ rpcs = {} /\ grpc' = "stopped"
  /\ UNCHANGED <<syncVars, process, ready, rpcs>>

-----------------------------------------------------------------------------
(* The steps of PolicySync that need the process *)

HandlerStep(h) ==
  /\ \/ process = "serving" /\ Change(h)
     \/ Running /\ Publish(h)
  /\ UNCHANGED own

WorkerStep(w) ==
  /\ Running
  /\ TakeEvent(w) \/ \E a \in Agent : Push(w, a) \/ PushFails(w, a)
  /\ UNCHANGED own

\* An agent goes on without the server; only a fetch needs it.
AgentStep(a) ==
  /\ \/ Sync(a) \/ FetchOk(a) \/ FetchFails(a) \/ AgentRestart(a)
     \/ process = "serving" /\ FetchReads(a)
  /\ UNCHANGED own

ServerNext ==
  \/ Serve \/ Signal \/ HTTPDrained \/ ShutdownTimesOut \/ Crash \/ Start \/ GracefulStop
  \/ \E r \in RPC : BeginRPC(r) \/ EndRPC(r)
  \/ \E h \in PolicyHandler : HandlerStep(h)
  \/ \E w \in Worker : WorkerStep(w)
  \/ \E a \in Agent : AgentStep(a)

ServerSpec == ServerInit /\ [][ServerNext]_allVars

\* The deadline of a shutdown comes, the agent's loop runs, its ticker fires,
\* and a server that is up and asked again and again answers in the end.
\* Nothing is assumed of requests, RPCs and pushes: they may hang.
FairServerSpec ==
  /\ ServerSpec
  /\ WF_allVars(ShutdownTimesOut)
  /\ \A a \in Agent : /\ WF_allVars(Sync(a) /\ UNCHANGED own)
                      /\ SF_allVars(process = "serving" /\ FetchReads(a) /\ UNCHANGED own)
                      /\ SF_allVars(FetchOk(a) /\ UNCHANGED own)

-----------------------------------------------------------------------------
(* Properties *)

\* SIGTERM ends the process, also if a request hangs or an RPC never ends: the
\* deadline of the HTTP shutdown is the only thing it waits for
\* (cmd/rlaas-server/main.go:325-336).
ShutdownEnds == process = "draining" ~> ~Running

\* If the server is not down whenever an agent that goes on fetching fetches,
\* every agent catches up, in the sense of PolicySync, through shutdowns, crashes
\* and restarts of the server that lose queued events and pushes: the ticker makes
\* agents go on fetching (cmd/rlaas-agent/main.go:235-236).
ServedAgentsCatchUp ==
  (\A a \in Agent : []<>(loop[a] = "fetch") => []<>(process = "serving" /\ loop[a] = "fetch"))
    => AgentsCatchUp

\* "Both HTTP and gRPC servers receive graceful shutdown on SIGTERM"
\* (cmd/rlaas-server/main.go:38): a process that reports that it stopped
\* gracefully has cut off no RPC.
RPCsDrained == process = "stopped" => rpcs = {}
=============================================================================
