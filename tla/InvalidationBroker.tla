-------------------------- MODULE InvalidationBroker --------------------------
(***************************************************************************)
(* The invalidation broker of one instance (internal/controlplane/         *)
(* invalidation/broker.go): callbacks subscribe to topics, and events are  *)
(* handed to them by the goroutine that publishes or, with the distributed *)
(* transport, by a goroutine that receives from Redis Pub/Sub what any     *)
(* instance has published.                                                 *)
(*                                                                         *)
(* Events are numbered in the order in which they are published.  A topic  *)
(* is not empty, so that receiveLoop undoes what channelName does.         *)
(* distributed never changes.  conn is both pubsub and stopCh, which are   *)
(* made and closed together.  since and calls are history variables: how   *)
(* many events there were when a callback subscribed, and the events it    *)
(* was called with.                                                        *)
(***************************************************************************)
EXTENDS Naturals, Sequences, Functions

CONSTANTS Publisher, Loop,   \* the goroutines that call callbacks
          Callback, Topic,
          Buffer,            \* capacity of the client's channel of messages
          MaxPublished       \* bound of the events

ASSUME BrokerAssumption == Loop \notin Publisher

VARIABLES distributed, subscribers, subs, conn, stopped, listening, inbox, receiver, dispatch,
          published, since, calls

bus == <<subscribers, subs, conn, stopped>>
redis == <<listening, inbox>>
brokerVars == <<distributed, bus, redis, receiver, dispatch, published, since, calls>>

Dispatcher == Publisher \union {Loop}

\* A goroutine with no callback left to call.
NoCallback == [event |-> 0, rest |-> <<>>]

BrokerInit ==
  /\ distributed \in BOOLEAN
  /\ subscribers = [t \in Topic |-> <<>>]
  /\ subs = {} /\ conn = "none" /\ stopped = FALSE
  /\ listening = {} /\ inbox = <<>>
  /\ receiver = "none"
  /\ dispatch = [d \in Dispatcher |-> NoCallback]
  /\ published = <<>>
  /\ since = [c \in Callback |-> 0]
  /\ calls = [c \in Callback |-> <<>>]

Subscribed(c) == \E t \in Topic : c \in Range(subscribers[t])

\* The first topic makes the connection and starts the receiving goroutine; once
\* the connection is closed a new topic is refused, and the error ignored.
ensureSubscription(t) ==
  /\ subs' = subs \union {t}
  /\ conn' = IF conn = "none" THEN "open" ELSE conn
  /\ receiver' = IF conn = "none" THEN "select" ELSE receiver

Subscribe(c, t) ==
  /\ ~Subscribed(c)
  /\ subscribers' = [subscribers EXCEPT ![t] = Append(@, c)]
  /\ IF distributed THEN ensureSubscription(t) ELSE UNCHANGED <<subs, conn, receiver>>
  /\ since' = [since EXCEPT ![c] = Len(published)]
  /\ UNCHANGED <<distributed, stopped, redis, dispatch, published, calls>>

\* Only the first call has an effect, also when nothing was subscribed to yet.
Stop ==
  /\ distributed /\ ~stopped
  /\ stopped' = TRUE
  /\ conn' = IF conn = "open" THEN "closed" ELSE conn
  /\ listening' = IF conn = "open" THEN {} ELSE listening
  /\ UNCHANGED <<distributed, subscribers, subs, inbox, receiver, dispatch,
                 published, since, calls>>

-----------------------------------------------------------------------------
(* Redis *)

\* The request to subscribe, or to subscribe again after the connection was
\* lost, reaches Redis.
Listen(t) ==
  /\ conn = "open" /\ t \in subs \ listening
  /\ listening' = listening \union {t}
  /\ UNCHANGED <<distributed, bus, inbox, receiver, dispatch, published, since, calls>>

Disconnect ==
  /\ listening # {}
  /\ listening' = {}
  /\ UNCHANGED <<distributed, bus, inbox, receiver, dispatch, published, since, calls>>

\* An instance publishes; a message that nobody listens to, or that finds the
\* channel full, is lost.  Others may send what is no event (decodes).
PublishDistributed(t, decodes) ==
  /\ distributed /\ Len(published) < MaxPublished
  /\ published' = Append(published, t)
  /\ LET message == [event |-> Len(published) + 1, decodes |-> decodes]
     IN  inbox' = IF t \in listening /\ Len(inbox) < Buffer THEN Append(inbox, message) ELSE inbox
  /\ UNCHANGED <<distributed, bus, listening, receiver, dispatch, since, calls>>

-----------------------------------------------------------------------------
(* Dispatching *)

\* dispatchLocal copies the callbacks of the topic under the read lock.
Copied(e, t) == [event |-> e, rest |-> subscribers[t]]

PublishLocal(p, t) ==
  /\ ~distributed /\ Len(published) < MaxPublished
  /\ dispatch[p].rest = <<>>
  /\ published' = Append(published, t)
  /\ dispatch' = [dispatch EXCEPT ![p] = Copied(Len(published) + 1, t)]
  /\ UNCHANGED <<distributed, bus, redis, receiver, since, calls>>

\* receiveLoop takes a message, maybe after it was told to stop.
ReceiveMessage ==
  /\ receiver = "select" /\ dispatch[Loop].rest = <<>> /\ inbox # <<>>
  /\ inbox' = Tail(inbox)
  /\ LET message == Head(inbox)
     IN  dispatch' = [dispatch EXCEPT ![Loop] =
           IF message.decodes THEN Copied(message.event, published[message.event]) ELSE @]
  /\ UNCHANGED <<distributed, bus, listening, receiver, published, since, calls>>

Exit ==
  /\ receiver = "select" /\ dispatch[Loop].rest = <<>> /\ conn = "closed"
  /\ receiver' = "exited"
  /\ UNCHANGED <<distributed, bus, redis, dispatch, published, since, calls>>

\* Variant: the panic of a callback is recovered around the loop.
Call_recovers_late(d) ==
  /\ dispatch[d].rest # <<>>
  /\ calls' = [calls EXCEPT ![Head(dispatch[d].rest)] = Append(@, dispatch[d].event)]
  /\ \E rest \in {Tail(dispatch[d].rest), <<>>} :
       dispatch' = [dispatch EXCEPT ![d].rest = rest]
  /\ UNCHANGED <<distributed, bus, redis, receiver, published, since>>

\* The next callback is called; if it panics, the others are called all the same.
Call(d) ==
  /\ dispatch[d].rest # <<>>
  /\ calls' = [calls EXCEPT ![Head(dispatch[d].rest)] = Append(@, dispatch[d].event)]
  /\ dispatch' = [dispatch EXCEPT ![d].rest = Tail(@)]
  /\ UNCHANGED <<distributed, bus, redis, receiver, published, since>>

-----------------------------------------------------------------------------
ReceiveLoopStep == ReceiveMessage \/ Exit \/ Call(Loop)

BrokerNext ==
  \/ Stop \/ Disconnect \/ ReceiveLoopStep
  \/ \E t \in Topic :
       \/ Listen(t)
       \/ \E decodes \in BOOLEAN : PublishDistributed(t, decodes)
       \/ \E c \in Callback : Subscribe(c, t)
       \/ \E p \in Publisher : PublishLocal(p, t)
  \/ \E p \in Publisher : Call(p)

BrokerSpec == BrokerInit /\ [][BrokerNext]_brokerVars

-----------------------------------------------------------------------------
(* Properties *)

\* The callbacks that event e still has to be handed to.
Owed(e) == UNION {Range(dispatch[d].rest) : d \in {x \in Dispatcher : dispatch[x].event = e}}

\* A callback is called with events of its topic, with none of them twice, and
\* with the transport in the order of publication.  All callbacks that had
\* subscribed when an event was published get it, or none does, whatever panics
\* and whoever subscribes meanwhile; without the transport they all do
\* (broker.go:41-77, 134-157).
DeliveredOnce ==
  \A t \in Topic : \A c \in Range(subscribers[t]) :
    /\ \A i \in DOMAIN calls[c] : published[calls[c][i]] = t
    /\ \A i, j \in DOMAIN calls[c] : i < j =>
         IF distributed THEN calls[c][i] < calls[c][j] ELSE calls[c][i] # calls[c][j]
    /\ \A e \in since[c] + 1..Len(published) :
         /\ published[e] = t
         /\ distributed => \E other \in Range(subscribers[t]) : e \in Range(calls[other])
         => e \in Range(calls[c]) \/ c \in Owed(e)

\* Unless the connection is closed, a message that has arrived is handed to every
\* callback that had subscribed when it was published; and once Stop has closed
\* the connection the receiving goroutine ends (broker.go:134-172).
BrokerLive ==
  /\ \A e \in 1..MaxPublished :
       (\E i \in DOMAIN inbox : inbox[i] = [event |-> e, decodes |-> TRUE])
         ~> \/ conn = "closed"
            \/ /\ e \in DOMAIN published
               /\ \A c \in Range(subscribers[published[e]]) :
                    since[c] < e => e \in Range(calls[c])
  /\ (conn = "closed") ~> (receiver = "exited")
===============================================================================
