----------------------------- MODULE PolicySync -----------------------------
(***************************************************************************)
(* How a policy change spreads from the control plane: the hooks of the    *)
(* policies handler, the invalidation dispatcher with its bounded queue    *)
(* and workers (cmd/rlaas-server/main.go), and the sidecar agents with     *)
(* their invalidation channel and sync loop (cmd/rlaas-agent/main.go).     *)
(*                                                                         *)
(* An event says that a policy has changed, and nothing of what changed,   *)
(* so events are interchangeable and a queue is its length.  version       *)
(* counts the changes of the policy store, and a policy snapshot is the    *)
(* version it was read at.  heard is a history variable: the version when  *)
(* an invalidation request last reached the agent.                         *)
(***************************************************************************)
EXTENDS Integers

CONSTANTS PolicyHandler, Worker, Agent,
          QueueSize,      \* capacity of the dispatcher's queue
          BufferSize,     \* capacity of an agent's invalidation channel
          MaxVersion      \* bound of policy changes

ASSUME SyncAssumption ==
  /\ QueueSize \in Nat \ {0} /\ BufferSize \in Nat \ {0}
  /\ MaxVersion \in Nat

VARIABLES version, announcing, queue, pushing,
          buffer, loop, reading, synced, lastError, heard

\* pushing[w] is the agents worker w has still to notify.
server == <<version, announcing, queue, pushing>>
agents == <<buffer, loop, reading, synced, lastError, heard>>
syncVars == <<server, agents>>

NoVersion == -1

SyncInit ==
  /\ version = 0
  /\ announcing = {} /\ queue = 0
  /\ pushing = [w \in Worker |-> {}]
  /\ buffer = [a \in Agent |-> 0]
  /\ loop = [a \in Agent |-> "fetch"]
  /\ reading = [a \in Agent |-> NoVersion]
  /\ synced = [a \in Agent |-> NoVersion]
  /\ lastError = [a \in Agent |-> FALSE]
  /\ heard = [a \in Agent |-> NoVersion]

-----------------------------------------------------------------------------
(* The server *)

\* A request of the policies handler has changed the store.
Change(h) ==
  /\ h \notin announcing
  /\ version < MaxVersion
  /\ version' = version + 1
  /\ announcing' = announcing \union {h}
  /\ UNCHANGED <<queue, pushing, agents>>

\* The handler's publish hook.  The broker's only subscriber records an
\* analytics event: the server's own policy cache is left to its ttl
\* (PolicyCache).  The event is then queued, or dropped if the queue is full.
Publish(h) ==
  /\ h \in announcing
  /\ announcing' = announcing \ {h}
  /\ queue' = IF queue < QueueSize THEN queue + 1 ELSE queue
  /\ UNCHANGED <<version, pushing, agents>>

TakeEvent(w) ==
  /\ pushing[w] = {} /\ queue > 0
  /\ queue' = queue - 1
  /\ pushing' = [pushing EXCEPT ![w] = Agent]
  /\ UNCHANGED <<version, announcing, agents>>

\* One POST of publishInvalidation reaches the agent, whose handler queues it
\* or drops it if the channel is full.
Push(w, a) ==
  /\ a \in pushing[w]
  /\ pushing' = [pushing EXCEPT ![w] = @ \ {a}]
  /\ buffer' = [buffer EXCEPT ![a] = IF @ < BufferSize THEN @ + 1 ELSE @]
  /\ heard' = [heard EXCEPT ![a] = version]
  /\ UNCHANGED <<version, announcing, queue, loop, reading, synced, lastError>>

\* The POST fails; it is not repeated.
PushFails(w, a) ==
  /\ a \in pushing[w]
  /\ pushing' = [pushing EXCEPT ![w] = @ \ {a}]
  /\ UNCHANGED <<version, announcing, queue, agents>>

ServerRestart ==
  /\ announcing' = {} /\ queue' = 0
  /\ pushing' = [w \in Worker |-> {}]
  /\ UNCHANGED <<version, agents>>

-----------------------------------------------------------------------------
(* An agent's sync loop *)

Goto(a, from, to) == loop[a] = from /\ loop' = [loop EXCEPT ![a] = to]

\* select picks the channel: this event, and all that are there, are one.
Receive(a) ==
  /\ Goto(a, "select", "drain")
  /\ buffer[a] > 0
  /\ buffer' = [buffer EXCEPT ![a] = @ - 1]
  /\ UNCHANGED <<server, reading, synced, lastError, heard>>

Drain(a) ==
  /\ buffer[a] > 0
  /\ Goto(a, "drain", "drain")
  /\ buffer' = [buffer EXCEPT ![a] = @ - 1]
  /\ UNCHANGED <<server, reading, synced, lastError, heard>>

Drained(a) ==
  /\ buffer[a] = 0
  /\ Goto(a, "drain", "fetch")
  /\ UNCHANGED <<server, buffer, reading, synced, lastError, heard>>

\* Variant: the ticker is a timer that is not set again.
TickerFires_once(a) ==
  /\ synced[a] = NoVersion
  /\ Goto(a, "select", "fetch")
  /\ UNCHANGED <<server, buffer, reading, synced, lastError, heard>>

TickerFires(a) ==
  /\ Goto(a, "select", "fetch")
  /\ UNCHANGED <<server, buffer, reading, synced, lastError, heard>>

\* The server answers GET /rlaas/v1/policies with what it has now.
FetchReads(a) ==
  /\ Goto(a, "fetch", "read")
  /\ reading' = [reading EXCEPT ![a] = version]
  /\ UNCHANGED <<server, buffer, synced, lastError, heard>>

\* Variant: events that arrived during the fetch are drained with it.
FetchOk_drains(a) ==
  /\ Goto(a, "read", "select")
  /\ synced' = [synced EXCEPT ![a] = reading[a]]
  /\ reading' = [reading EXCEPT ![a] = NoVersion]
  /\ lastError' = [lastError EXCEPT ![a] = FALSE]
  /\ buffer' = [buffer EXCEPT ![a] = 0]
  /\ UNCHANGED <<server, heard>>

FetchOk(a) ==
  /\ Goto(a, "read", "select")
  /\ synced' = [synced EXCEPT ![a] = reading[a]]
  /\ reading' = [reading EXCEPT ![a] = NoVersion]
  /\ lastError' = [lastError EXCEPT ![a] = FALSE]
  /\ UNCHANGED <<server, buffer, heard>>

FetchFails(a) ==
  /\ \E from \in {"fetch", "read"} : Goto(a, from, "select")
  /\ reading' = [reading EXCEPT ![a] = NoVersion]
  /\ lastError' = [lastError EXCEPT ![a] = TRUE]
  /\ UNCHANGED <<server, buffer, synced, heard>>

\* A new process fetches before anything else.
AgentRestart(a) ==
  /\ buffer' = [buffer EXCEPT ![a] = 0]
  /\ loop' = [loop EXCEPT ![a] = "fetch"]
  /\ reading' = [reading EXCEPT ![a] = NoVersion]
  /\ synced' = [synced EXCEPT ![a] = NoVersion]
  /\ lastError' = [lastError EXCEPT ![a] = FALSE]
  /\ heard' = [heard EXCEPT ![a] = NoVersion]
  /\ UNCHANGED server

-----------------------------------------------------------------------------
Sync(a) == Receive(a) \/ Drain(a) \/ Drained(a) \/ TickerFires(a)

SyncNext ==
  \/ \E h \in PolicyHandler : Change(h) \/ Publish(h)
  \/ \E w \in Worker : TakeEvent(w) \/ \E a \in Agent : Push(w, a) \/ PushFails(w, a)
  \/ ServerRestart
  \/ \E a \in Agent : \/ Sync(a) \/ FetchReads(a) \/ FetchOk(a) \/ FetchFails(a)
                      \/ AgentRestart(a)

SyncSpec == SyncInit /\ [][SyncNext]_syncVars

-----------------------------------------------------------------------------
(* Properties *)

\* Types, and that nobody knows of a version that is not there yet.
SyncTypeOK ==
  LET Known == NoVersion..version
  IN  /\ version \in Nat
      /\ announcing \subseteq PolicyHandler
      /\ queue \in 0..QueueSize
      /\ pushing \in [Worker -> SUBSET Agent]
      /\ buffer \in [Agent -> 0..BufferSize]
      /\ loop \in [Agent -> {"select", "drain", "fetch", "read"}]
      /\ reading \in [Agent -> Known] /\ synced \in [Agent -> Known]
      /\ heard \in [Agent -> Known]
      /\ lastError \in [Agent -> BOOLEAN]

\* An agent that was told of a change it has not fetched is about to fetch,
\* or reports a failed fetch: neither merging a burst of events into one
\* fetch, nor dropping events when the channel is full, nor an event that
\* comes while a fetch is under way loses a change
\* (cmd/rlaas-agent/main.go:140-143, 220-237).
NoLostInvalidation ==
  \A a \in Agent : heard[a] > synced[a] =>
    \/ buffer[a] > 0
    \/ loop[a] \in {"drain", "fetch"}
    \/ loop[a] = "read" /\ reading[a] >= heard[a]
    \/ lastError[a]

\* When policies stop changing every agent gets to the last version, and
\* never back to an older one, also if every event on the way was dropped:
\* the ticker makes up for it (cmd/rlaas-agent/main.go:235-236).  An agent
\* that keeps crashing gets there again and again.
AgentsCatchUp ==
  \A a \in Agent : /\ []<>(synced[a] = version)
                   /\ <>[](synced[a] \in {NoVersion, version})
=============================================================================
