------------------------ MODULE BrokerWindow_proofs -------------------------
(***************************************************************************)
(* The invalidation broker hands an event to its callbacks once each and   *)
(* in order, for any number of dispatches, callbacks and topics; and the   *)
(* limiters that count in windows keep the budget of a window and report   *)
(* contention only where there was some, for any number of concurrent      *)
(* evaluations, any limit, costs and retries, and any windows no longer    *)
(* than the life of their counter. No definition of one is used in the     *)
(* proofs of the other.                                                    *)
(***************************************************************************)
EXTENDS InvalidationBroker, WindowLimiter, TLAPS

\* The time a prover has for a leaf that names none.
USE SMTT(40), ZenonT(40)

-----------------------------------------------------------------------------
(* The invalidation broker *)

\* Ranges of sequences.
LEMMA RangeAppend ==
  ASSUME NEW X, NEW s \in Seq(X), NEW x \in X
  PROVE  Append(s, x) \in Seq(X) /\ Range(Append(s, x)) = Range(s) \union {x}
<1>1. /\ Append(s, x) \in Seq(X) /\ Len(Append(s, x)) = Len(s) + 1 /\ Len(s) \in Nat
      /\ \A i \in 1..Len(s) : Append(s, x)[i] = s[i]
      /\ Append(s, x)[Len(s) + 1] = x
      /\ DOMAIN Append(s, x) = 1..(Len(s) + 1) /\ DOMAIN s = 1..Len(s)
  OBVIOUS
<1>2. 1..(Len(s) + 1) = (1..Len(s)) \union {Len(s) + 1}
  BY <1>1
<1> QED
  BY <1>1, <1>2 DEF Range

\* Taking the head off a sequence takes it off the range.
LEMMA RangeTail ==
  ASSUME NEW X, NEW s \in Seq(X), s # <<>>
  PROVE  /\ Head(s) \in X /\ Tail(s) \in Seq(X)
         /\ Range(s) = Range(Tail(s)) \union {Head(s)}
         /\ IsInjective(s) => IsInjective(Tail(s)) /\ Head(s) \notin Range(Tail(s))
<1>1. /\ Len(s) \in Nat \ {0} /\ Head(s) = s[1] /\ Tail(s) \in Seq(X) /\ Len(Tail(s)) = Len(s) - 1
      /\ DOMAIN s = 1..Len(s) /\ DOMAIN Tail(s) = 1..(Len(s) - 1)
      /\ \A i \in 1..(Len(s) - 1) : Tail(s)[i] = s[i + 1]
  OBVIOUS
<1>2. s[1] \in X
  BY <1>1
<1>3. \A i \in 1..Len(s) : i = 1 \/ (i - 1 \in 1..(Len(s) - 1) /\ s[i] = Tail(s)[i - 1])
  BY <1>1
<1>4. Range(s) = Range(Tail(s)) \union {Head(s)}
  <2>1. ASSUME NEW x \in Range(s) PROVE x \in Range(Tail(s)) \union {Head(s)}
    <3>1. PICK i \in 1..Len(s) : x = s[i]
      BY <1>1 DEF Range
    <3>2. i = 1 \/ (i - 1 \in DOMAIN Tail(s) /\ x = Tail(s)[i - 1])
      BY <1>1, <1>3, <3>1
    <3> QED
      BY ZenonT(40), <1>1, <3>1, <3>2 DEF Range
  <2>2. \A i \in 1..(Len(s) - 1) : i + 1 \in 1..Len(s)
    BY <1>1
  <2>3. \A x \in Range(Tail(s)) : x \in Range(s)
    BY <1>1, <2>2 DEF Range
  <2>4. Head(s) \in Range(s)
    BY <1>1 DEF Range
  <2> QED
    BY <2>1, <2>3, <2>4
<1>5. ASSUME IsInjective(s) PROVE IsInjective(Tail(s)) /\ Head(s) \notin Range(Tail(s))
  <2>1. \A i \in 1..(Len(s) - 1) : i + 1 \in 1..Len(s) /\ i + 1 # 1 /\ Tail(s)[i] = s[i + 1]
    BY <1>1
  <2>2. \A i, j \in 1..Len(s) : s[i] = s[j] => i = j
    BY <1>1, <1>5 DEF IsInjective
  <2>3. \A i, j \in 1..(Len(s) - 1) : Tail(s)[i] = Tail(s)[j] => i = j
    <3> SUFFICES ASSUME NEW i \in 1..(Len(s) - 1), NEW j \in 1..(Len(s) - 1), Tail(s)[i] = Tail(s)[j]
                 PROVE  i = j
      OBVIOUS
    <3>1. i + 1 = j + 1
      BY <2>1, <2>2
    <3> QED
      BY <3>1
  <2>4. 1 \in 1..Len(s)
    BY <1>1
  <2>5. \A i \in 1..(Len(s) - 1) : Tail(s)[i] # s[1]
    BY <2>1, <2>2, <2>4
  <2> QED
    BY <1>1, <2>3, <2>5 DEF IsInjective, Range
<1> QED
  BY <1>1, <1>2, <1>4, <1>5

-----------------------------------------------------------------------------

\* What travels on the transport.
Message == [event : Nat, decodes : BOOLEAN]

\* The types of the broker's state.
BrokerTypes ==
  /\ distributed \in BOOLEAN /\ subscribers \in [Topic -> Seq(Callback)]
  /\ inbox \in Seq(Message)
  /\ dispatch \in [Dispatcher -> [event : Nat, rest : Seq(Callback)]]
  /\ published \in Seq(Topic)
  /\ since \in [Callback -> Nat] /\ calls \in [Callback -> Seq(Nat)]

\* A callback subscribes once.
SubscribedOnce ==
  /\ \A t \in Topic : IsInjective(subscribers[t])
  /\ \A c \in Callback : \A t, u \in Topic :
       c \in Range(subscribers[t]) /\ c \in Range(subscribers[u]) => t = u

\* Callbacks are called with events of their topic, and are still to be called
\* with events that they have not got.
CallsKept ==
  \A c \in Callback : \A e \in Range(calls[c]) :
    e \in 1..Len(published) /\ c \in Range(subscribers[published[e]])

\* Dispatch d still owes its event to callback c.
Due(d, c) ==
  /\ dispatch[d].event \in 1..Len(published)
  /\ c \in Range(subscribers[published[dispatch[d].event]])
  /\ dispatch[d].event \notin Range(calls[c])

\* A dispatch calls each callback once, and no two hand out the same event.
DispatchKept ==
  /\ \A d \in Dispatcher :
       /\ dispatch[d].event <= Len(published)
       /\ IsInjective(dispatch[d].rest)
       /\ \A c \in Range(dispatch[d].rest) : Due(d, c)
  /\ \A d, f \in Dispatcher :
       d # f /\ dispatch[d].rest # <<>> /\ dispatch[f].rest # <<>> => dispatch[d].event # dispatch[f].event

\* With the transport one goroutine calls, and events arrive in order.
OrderKept ==
  /\ distributed =>
       /\ \A d \in Dispatcher \ {Loop} : dispatch[d].rest = <<>>
       /\ \A c \in Callback : \A e \in Range(calls[c]) : e <= dispatch[Loop].event
       /\ \A i \in 1..Len(inbox) : dispatch[Loop].event < inbox[i].event /\ inbox[i].event <= Len(published)
       /\ \A i, j \in 1..Len(inbox) : i < j => inbox[i].event < inbox[j].event
  /\ ~distributed => inbox = <<>>

\* No callback gets an event twice; with the transport, none out of order.
InOrderOfCalls ==
  \A c \in Callback : \A i, j \in 1..Len(calls[c]) : i < j =>
    IF distributed THEN calls[c][i] < calls[c][j] ELSE calls[c][i] # calls[c][j]

\* An event that reached one callback reaches those that had subscribed.
Handed(e) ==
  \/ ~distributed
  \/ \E d \in Dispatcher : dispatch[d].event = e /\ dispatch[d].rest # <<>>
  \/ \E c \in Callback : e \in Range(calls[c])
AllGetIt ==
  \A t \in Topic : \A c \in Range(subscribers[t]) : \A e \in since[c] + 1..Len(published) :
    published[e] = t /\ Handed(e) => e \in Range(calls[c]) \/ c \in Owed(e)

\* The inductive invariant.
BrokerInv ==
  /\ BrokerTypes /\ SubscribedOnce /\ CallsKept /\ DispatchKept /\ OrderKept
  /\ InOrderOfCalls /\ AllGetIt

\* Nothing is published at first.
LEMMA BrokerInitially == BrokerInit => BrokerInv
<1> SUFFICES ASSUME BrokerInit PROVE BrokerInv
  OBVIOUS
<1>1. BrokerTypes
  BY DEF BrokerInit, BrokerTypes, NoCallback
<1>2. /\ \A t \in Topic : Range(subscribers[t]) = {} /\ subscribers[t] = <<>>
      /\ \A c \in Callback : calls[c] = <<>> /\ Range(calls[c]) = {}
      /\ \A d \in Dispatcher : /\ dispatch[d].event = 0 /\ dispatch[d].rest = <<>>
                               /\ Range(dispatch[d].rest) = {}
      /\ published = <<>> /\ inbox = <<>>
  BY DEF BrokerInit, NoCallback, Range
<1>3. IsInjective(<<>>)
  BY DEF IsInjective
<1>4. SubscribedOnce
  BY <1>2, <1>3 DEF SubscribedOnce
<1>5. CallsKept
  BY <1>2 DEF CallsKept
<1>6. InOrderOfCalls
  BY <1>2 DEF InOrderOfCalls
<1>7. AllGetIt
  BY <1>2 DEF AllGetIt
<1>8. DispatchKept
  <2>1. Len(published) = 0
    BY <1>2
  <2> QED
    BY <1>2, <1>3, <2>1 DEF DispatchKept
<1>9. OrderKept
  <2>1. Len(inbox) = 0 /\ Loop \in Dispatcher
    BY <1>2 DEF Dispatcher
  <2> QED
    BY <1>2, <2>1 DEF OrderKept
<1> QED
  BY <1>1, <1>4, <1>5, <1>6, <1>7, <1>8, <1>9 DEF BrokerInv

\* The invariant stays when only what it does not mention changes.
LEMMA BrokerSame ==
  ASSUME BrokerInv, UNCHANGED <<distributed, subscribers, inbox, dispatch, published, since, calls>>
  PROVE  BrokerInv'
<1> USE DEF BrokerInv
<1>1. BrokerTypes'
  BY DEF BrokerTypes
<1>2. SubscribedOnce' /\ CallsKept'
  BY DEF SubscribedOnce, CallsKept
<1>3. DispatchKept'
  BY DEF DispatchKept, Due
<1>4. OrderKept'
  BY DEF OrderKept
<1>5. InOrderOfCalls'
  BY DEF InOrderOfCalls
<1>6. AllGetIt'
  <2>1. \A e : Handed(e)' = Handed(e) /\ Owed(e)' = Owed(e)
    BY DEF Handed, Owed
  <2> QED
    BY <2>1 DEF AllGetIt
<1> QED
  BY <1>1, <1>2, <1>3, <1>4, <1>5, <1>6

\* A new callback joins no dispatch under way (broker.go:41-49).
LEMMA SubscribeKeeps ==
  ASSUME BrokerInv, NEW c \in Callback, NEW t \in Topic, Subscribe(c, t)
  PROVE  BrokerInv'
<1> USE DEF BrokerInv
<1>1. /\ \A u \in Topic : c \notin Range(subscribers[u])
      /\ subscribers' = [subscribers EXCEPT ![t] = Append(subscribers[t], c)]
      /\ since' = [since EXCEPT ![c] = Len(published)]
      /\ UNCHANGED <<distributed, inbox, dispatch, published, calls>>
  BY DEF Subscribe, Subscribed, redis
<1>2. /\ subscribers[t] \in Seq(Callback) /\ Append(subscribers[t], c) \in Seq(Callback)
      /\ Range(Append(subscribers[t], c)) = Range(subscribers[t]) \union {c}
  <2>1. subscribers[t] \in Seq(Callback)
    BY DEF BrokerTypes
  <2> QED
    BY <2>1, RangeAppend
<1>3. /\ \A u \in Topic \ {t} : subscribers'[u] = subscribers[u]
      /\ subscribers'[t] = Append(subscribers[t], c)
  BY <1>1 DEF BrokerTypes
<1>4. \A u \in Topic : \A b :
        b \in Range(subscribers'[u]) <=> b \in Range(subscribers[u]) \/ (u = t /\ b = c)
  BY ZenonT(40), <1>2, <1>3
<1>5. BrokerTypes'
  <2>1. Len(published) \in Nat
    BY DEF BrokerTypes
  <2> QED
    BY <1>1, <1>2, <2>1 DEF BrokerTypes
<1>6. SubscribedOnce'
  <2>1. IsInjective(Append(subscribers[t], c))
    <3>1. PICK s \in Seq(Callback) : s = subscribers[t] /\ IsInjective(s) /\ c \notin Range(s)
      BY <1>1, <1>2 DEF SubscribedOnce
    <3>2. /\ DOMAIN Append(s, c) = 1..(Len(s) + 1) /\ Len(s) \in Nat
          /\ \A i \in 1..Len(s) : Append(s, c)[i] = s[i] /\ s[i] # c
          /\ Append(s, c)[Len(s) + 1] = c
      BY <3>1 DEF Range
    <3>3. \A i, j \in 1..Len(s) : s[i] = s[j] => i = j
      BY <3>1 DEF IsInjective
    <3>4. \A i \in 1..(Len(s) + 1) : i \in 1..Len(s) \/ i = Len(s) + 1
      BY <3>2
    <3>5. \A i, j \in 1..(Len(s) + 1) : Append(s, c)[i] = Append(s, c)[j] => i = j
      BY <3>2, <3>3, <3>4
    <3> QED
      BY <3>1, <3>2, <3>5 DEF IsInjective
  <2>2. \A u \in Topic : IsInjective(subscribers'[u])
    BY ZenonT(40), <1>3, <2>1 DEF SubscribedOnce
  <2>3. ASSUME NEW b \in Callback, NEW u \in Topic, NEW v \in Topic,
               b \in Range(subscribers'[u]), b \in Range(subscribers'[v])
        PROVE  u = v
    <3>1. CASE b = c
      BY <1>1, <1>4, <2>3, <3>1
    <3>2. CASE b # c
      BY <1>4, <2>3, <3>2 DEF SubscribedOnce
    <3> QED
      BY <3>1, <3>2
  <2> QED
    BY <2>2, <2>3 DEF SubscribedOnce
<1>7. CallsKept' /\ InOrderOfCalls' /\ OrderKept'
  <2>1. \A e \in 1..Len(published) : published[e] \in Topic
    BY DEF BrokerTypes
  <2>2. CallsKept'
    BY ZenonT(40), <1>1, <1>4, <2>1 DEF CallsKept
  <2>3. InOrderOfCalls'
    BY <1>1 DEF InOrderOfCalls
  <2>4. OrderKept'
    BY <1>1 DEF OrderKept
  <2> QED
    BY <2>2, <2>3, <2>4
<1>8. DispatchKept'
  <2>1. \A e \in 1..Len(published) : published[e] \in Topic
    BY DEF BrokerTypes
  <2> QED
    BY ZenonT(40), <1>1, <1>4, <2>1 DEF DispatchKept, Due
<1>9. AllGetIt'
  <2>1. \A e : Handed(e)' = Handed(e) /\ Owed(e)' = Owed(e)
    BY <1>1 DEF Handed, Owed
  <2>2. Len(published) \in Nat
    BY DEF BrokerTypes
  <2>3. \A u \in Topic : \A b \in Range(subscribers'[u]) :
          \/ b \in Range(subscribers[u]) /\ b # c
          \/ b = c /\ since'[b] = Len(published)
    <3>1. since'[c] = Len(published)
      BY <1>1 DEF BrokerTypes
    <3> QED
      BY <1>1, <1>4, <3>1
  <2>4. \A u \in Topic : \A b \in Range(subscribers[u]) : b \in Callback /\ (b # c => since'[b] = since[b])
    <3>1. \A u \in Topic : Range(subscribers[u]) \subseteq Callback
      BY DEF BrokerTypes, Range
    <3> QED
      BY <1>1, <3>1 DEF BrokerTypes
  <2> QED
    BY <1>1, <2>1, <2>2, <2>3, <2>4 DEF AllGetIt
<1> QED
  BY <1>5, <1>6, <1>7, <1>8, <1>9

\* A published event is newer than all others.
LEMMA PublishedFacts ==
  ASSUME BrokerTypes, NEW t \in Topic, published' = Append(published, t)
  PROVE  /\ published' \in Seq(Topic) /\ Len(published) \in Nat /\ Len(published') = Len(published) + 1
         /\ published'[Len(published) + 1] = t
         /\ \A e \in 1..Len(published) : e \in 1..Len(published') /\ published'[e] = published[e]
BY DEF BrokerTypes

\* Publishing leaves what was called alone.
LEMMA CallsAfterPublish ==
  ASSUME BrokerInv, NEW t \in Topic, published' = Append(published, t),
         UNCHANGED <<distributed, subscribers, since, calls>>
  PROVE  SubscribedOnce' /\ CallsKept' /\ InOrderOfCalls'
<1> USE DEF BrokerInv
<1>1. SubscribedOnce'
  BY DEF SubscribedOnce
<1>2. CallsKept'
  BY PublishedFacts DEF CallsKept
<1>3. InOrderOfCalls'
  BY DEF InOrderOfCalls
<1> QED
  BY <1>1, <1>2, <1>3

\* Publishing through the transport.
LEMMA PublishDistributedKeeps ==
  ASSUME BrokerInv, NEW t \in Topic, NEW decodes \in BOOLEAN, PublishDistributed(t, decodes)
  PROVE  BrokerInv'
<1> DEFINE message == [event |-> Len(published) + 1, decodes |-> decodes]
<1> USE DEF BrokerInv
<1>1. /\ distributed /\ published' = Append(published, t)
      /\ inbox' = inbox \/ inbox' = Append(inbox, message)
      /\ UNCHANGED <<distributed, subscribers, dispatch, since, calls>>
  BY DEF PublishDistributed, bus
<1>2. /\ published' \in Seq(Topic) /\ Len(published) \in Nat /\ Len(published') = Len(published) + 1
      /\ \A e \in 1..Len(published) : e \in 1..Len(published') /\ published'[e] = published[e]
  BY <1>1, PublishedFacts
<1>3. /\ SubscribedOnce' /\ CallsKept' /\ InOrderOfCalls'
  BY <1>1, CallsAfterPublish
<1>4. BrokerTypes'
  <2>1. message \in Message
    BY <1>2 DEF Message
  <2> HIDE DEF message
  <2>2. inbox \in Seq(Message)
    BY DEF BrokerTypes
  <2>3. inbox' \in Seq(Message)
    BY <1>1, <2>1, <2>2, RangeAppend
  <2> QED
    BY <1>1, <1>2, <2>3 DEF BrokerTypes
<1>5. DispatchKept'
  <2>1. ASSUME NEW d \in Dispatcher
        PROVE  /\ dispatch'[d].event <= Len(published')
               /\ IsInjective(dispatch'[d].rest)
               /\ \A c \in Range(dispatch'[d].rest) : Due(d, c)'
    <3>1. dispatch[d].event \in Nat /\ dispatch[d].event <= Len(published)
      BY DEF DispatchKept, BrokerTypes
    <3>2. \A c \in Range(dispatch[d].rest) : Due(d, c)
      BY DEF DispatchKept
    <3>3. \A c \in Range(dispatch[d].rest) : Due(d, c)'
      BY ZenonT(40), <1>1, <1>2, <3>2 DEF Due
    <3> QED
      BY <1>1, <1>2, <3>1, <3>3 DEF DispatchKept
  <2> QED
    BY <1>1, <2>1 DEF DispatchKept
<1>6. OrderKept'
  <2>1. PICK s \in Seq(Message) : s = inbox
    BY DEF BrokerTypes
  <2>2. dispatch[Loop].event \in Nat /\ dispatch[Loop].event <= Len(published) /\ Loop \in Dispatcher
    BY DEF BrokerTypes, DispatchKept, Dispatcher
  <2>3. /\ \A i \in 1..Len(s) : dispatch[Loop].event < s[i].event /\ s[i].event <= Len(published)
        /\ \A i, j \in 1..Len(s) : i < j => s[i].event < s[j].event
    BY <1>1, <2>1 DEF OrderKept
  <2>4. \A i \in 1..Len(s) : s[i].event \in Nat
    <3>1. \A i \in 1..Len(s) : s[i] \in Message
      BY <2>1
    <3> QED
      BY <3>1 DEF Message
  <2>5. /\ \A i \in 1..Len(inbox') : dispatch[Loop].event < inbox'[i].event /\ inbox'[i].event <= Len(published')
        /\ \A i, j \in 1..Len(inbox') : i < j => inbox'[i].event < inbox'[j].event
    <3>1. CASE inbox' = inbox
      BY <1>2, <2>1, <2>2, <2>3, <2>4, <3>1
    <3>2. CASE inbox' = Append(inbox, message)
      <4>1. /\ Len(inbox') = Len(s) + 1 /\ Len(s) \in Nat
            /\ \A i \in 1..Len(s) : inbox'[i] = s[i]
            /\ inbox'[Len(s) + 1].event = Len(published) + 1
        BY <2>1, <3>2
      <4>2. \A i \in 1..Len(inbox') : i \in 1..Len(s) \/ i = Len(s) + 1
        BY <4>1
      <4>3. \A i \in 1..Len(s) : inbox'[i].event < Len(published) + 1
        <5> SUFFICES ASSUME NEW i \in 1..Len(s) PROVE inbox'[i].event < Len(published) + 1
          OBVIOUS
        <5>1. inbox'[i].event = s[i].event /\ s[i].event \in Nat /\ s[i].event <= Len(published)
          BY <2>3, <2>4, <4>1
        <5> QED
          BY <1>2, <5>1
      <4>4. \A i \in 1..Len(inbox') : dispatch[Loop].event < inbox'[i].event /\ inbox'[i].event <= Len(published')
        <5> SUFFICES ASSUME NEW i \in 1..Len(inbox')
                     PROVE  dispatch[Loop].event < inbox'[i].event /\ inbox'[i].event <= Len(published')
          OBVIOUS
        <5>1. CASE i \in 1..Len(s)
          <6>1. /\ inbox'[i].event = s[i].event /\ s[i].event \in Nat /\ s[i].event <= Len(published)
                /\ dispatch[Loop].event < s[i].event
            BY <2>3, <2>4, <4>1, <5>1
          <6> QED
            BY <1>2, <6>1
        <5>2. CASE i = Len(s) + 1
          BY <1>2, <2>2, <4>1, <5>2
        <5> QED
          BY <4>2, <5>1, <5>2
      <4>5. \A i, j \in 1..Len(inbox') : i < j => inbox'[i].event < inbox'[j].event
        <5> SUFFICES ASSUME NEW i \in 1..Len(inbox'), NEW j \in 1..Len(inbox'), i < j
                     PROVE  inbox'[i].event < inbox'[j].event
          OBVIOUS
        <5>1. i \in 1..Len(s)
          BY <4>1
        <5>2. CASE j \in 1..Len(s)
          BY <2>3, <4>1, <5>1, <5>2
        <5>3. CASE j = Len(s) + 1
          BY <4>1, <4>3, <5>1, <5>3
        <5> QED
          BY <4>2, <5>2, <5>3
      <4> QED
        BY <4>4, <4>5
    <3> QED
      BY ZenonT(40), <1>1, <3>1, <3>2
  <2> QED
    BY <1>1, <2>5 DEF OrderKept
<1>7. AllGetIt'
  <2>1. \A e : Handed(e)' = Handed(e) /\ Owed(e)' = Owed(e)
    BY <1>1 DEF Handed, Owed
  <2>2. ~Handed(Len(published) + 1)
    <3>1. \A d \in Dispatcher : dispatch[d].event \in Nat /\ dispatch[d].event <= Len(published)
      BY DEF DispatchKept, BrokerTypes
    <3>2. \A c \in Callback : \A e \in Range(calls[c]) : e \in 1..Len(published)
      BY DEF CallsKept
    <3>3. \A d \in Dispatcher : dispatch[d].event # Len(published) + 1
      BY <1>2, <3>1
    <3>4. \A c \in Callback : Len(published) + 1 \notin Range(calls[c])
      BY <1>2, <3>2
    <3> QED
      BY <1>1, <3>3, <3>4 DEF Handed
  <2>3. \A c \in Callback : since[c] \in Nat
    BY DEF BrokerTypes
  <2>4. \A u \in Topic : Range(subscribers[u]) \subseteq Callback
    BY DEF BrokerTypes, Range
  <2>5. ASSUME NEW u \in Topic, NEW c \in Range(subscribers[u]), NEW e \in since[c] + 1..Len(published'),
               published'[e] = u, Handed(e)
        PROVE  e \in Range(calls[c]) \/ c \in Owed(e)
    <3>1. e \in since[c] + 1..Len(published) /\ e \in 1..Len(published)
      BY <1>2, <2>2, <2>3, <2>4, <2>5
    <3>2. published[e] = u
      BY <1>2, <2>5, <3>1
    <3> QED
      BY <2>5, <3>1, <3>2 DEF AllGetIt
  <2> QED
    BY ZenonT(40), <1>1, <2>1, <2>5 DEF AllGetIt
<1> QED
  BY <1>3, <1>4, <1>5, <1>6, <1>7

\* Publishing without it: the event is dispatched by the publisher.
LEMMA PublishLocalKeeps ==
  ASSUME BrokerInv, NEW p \in Publisher, NEW t \in Topic, PublishLocal(p, t)
  PROVE  BrokerInv'
<1> USE DEF BrokerInv
<1>0. PICK e0 \in Nat : e0 = Len(published) + 1
  BY DEF BrokerTypes
<1>1. /\ ~distributed /\ published' = Append(published, t) /\ dispatch[p].rest = <<>>
      /\ dispatch' = [dispatch EXCEPT ![p] = [event |-> e0, rest |-> subscribers[t]]]
      /\ UNCHANGED <<distributed, subscribers, inbox, since, calls>>
  BY <1>0 DEF PublishLocal, bus, redis, Copied
<1>2. /\ published' \in Seq(Topic) /\ Len(published) \in Nat /\ Len(published') = Len(published) + 1
      /\ published'[e0] = t
      /\ \A e \in 1..Len(published) : e \in 1..Len(published') /\ published'[e] = published[e]
  BY <1>0, <1>1, PublishedFacts
<1>3. /\ SubscribedOnce' /\ CallsKept' /\ InOrderOfCalls'
  BY <1>1, CallsAfterPublish
<1>4. /\ p \in Dispatcher /\ dispatch'[p].event = e0 /\ dispatch'[p].rest = subscribers[t]
      /\ \A d \in Dispatcher \ {p} : dispatch'[d] = dispatch[d]
      /\ e0 \in Nat /\ e0 \in 1..Len(published')
  BY <1>0, <1>1, <1>2 DEF BrokerTypes, Dispatcher
<1>5. BrokerTypes'
  <2>1. [event |-> e0, rest |-> subscribers[t]] \in [event : Nat, rest : Seq(Callback)]
    BY <1>4 DEF BrokerTypes
  <2>2. dispatch' \in [Dispatcher -> [event : Nat, rest : Seq(Callback)]]
    BY ZenonT(40), <1>1, <2>1 DEF BrokerTypes
  <2> QED
    BY <1>1, <1>2, <2>2 DEF BrokerTypes
<1>6. \A d \in Dispatcher : dispatch[d].event \in Nat /\ dispatch[d].event <= Len(published)
  BY DEF DispatchKept, BrokerTypes
<1>7. \A c \in Callback : e0 \notin Range(calls[c])
  <2>1. \A c \in Callback : \A e \in Range(calls[c]) : e \in 1..Len(published)
    BY DEF CallsKept
  <2> QED
    BY <1>0, <1>2, <2>1
<1>8. \A u \in Topic : Range(subscribers[u]) \subseteq Callback
  BY DEF BrokerTypes, Range
<1>9. DispatchKept'
  <2>1. ASSUME NEW d \in Dispatcher
        PROVE  /\ dispatch'[d].event <= Len(published')
               /\ IsInjective(dispatch'[d].rest)
               /\ \A c \in Range(dispatch'[d].rest) : Due(d, c)'
    <3>1. CASE d = p
      <4>1. IsInjective(subscribers[t])
        BY DEF SubscribedOnce
      <4>2. \A c \in Range(subscribers[t]) : Due(p, c)'
        BY <1>1, <1>2, <1>4, <1>7, <1>8 DEF Due
      <4> QED
        BY <1>0, <1>2, <1>4, <3>1, <4>1, <4>2
    <3>2. CASE d # p
      <4>1. \A c \in Range(dispatch[d].rest) : Due(d, c)
        BY DEF DispatchKept
      <4>2. \A c \in Range(dispatch[d].rest) : Due(d, c)'
        BY ZenonT(40), <1>1, <1>2, <1>4, <3>2, <4>1 DEF Due
      <4> QED
        BY <1>0, <1>2, <1>4, <1>6, <3>2, <4>2 DEF DispatchKept
    <3> QED
      BY <3>1, <3>2
  <2>2. \A d \in Dispatcher \ {p} : dispatch'[d].event # e0
    BY <1>0, <1>2, <1>4, <1>6
  <2>3. \A d, f \in Dispatcher :
          d # f /\ dispatch'[d].rest # <<>> /\ dispatch'[f].rest # <<>> => dispatch'[d].event # dispatch'[f].event
    <3> SUFFICES ASSUME NEW d \in Dispatcher, NEW f \in Dispatcher, d # f,
                        dispatch'[d].rest # <<>>, dispatch'[f].rest # <<>>
                 PROVE  dispatch'[d].event # dispatch'[f].event
      OBVIOUS
    <3>1. CASE d = p
      BY <1>4, <2>2, <3>1
    <3>2. CASE f = p
      BY <1>4, <2>2, <3>2
    <3>3. CASE d # p /\ f # p
      BY <1>4, <3>3 DEF DispatchKept
    <3> QED
      BY <3>1, <3>2, <3>3
  <2> QED
    BY <2>1, <2>3 DEF DispatchKept
<1>10. OrderKept'
  BY <1>1 DEF OrderKept
<1>11. AllGetIt'
  <2>1. \A e : Owed(e) \subseteq Owed(e)'
    <3> SUFFICES ASSUME NEW e, NEW c \in Owed(e) PROVE c \in Owed(e)'
      OBVIOUS
    <3>1. PICK d \in Dispatcher : dispatch[d].event = e /\ c \in Range(dispatch[d].rest)
      BY DEF Owed
    <3>2. d # p
      BY <1>1, <3>1 DEF Range
    <3>3. dispatch'[d] = dispatch[d]
      BY <1>4, <3>2
    <3> QED
      BY <3>1, <3>3 DEF Owed
  <2>2. Range(subscribers[t]) \subseteq Owed(e0)'
    BY <1>4 DEF Owed
  <2>3. \A c \in Callback : since[c] \in Nat
    BY DEF BrokerTypes
  <2>4. \A e : Handed(e)
    BY <1>1 DEF Handed
  <2>5. ASSUME NEW u \in Topic, NEW c \in Range(subscribers[u]), NEW e \in since[c] + 1..Len(published'),
               published'[e] = u
        PROVE  e \in Range(calls[c]) \/ c \in Owed(e)'
    <3>1. CASE e = e0
      <4>1. u = t
        BY <1>2, <2>5, <3>1
      <4> QED
        BY <2>2, <3>1, <4>1
    <3>2. CASE e # e0
      <4>1. e \in since[c] + 1..Len(published) /\ e \in 1..Len(published)
        BY <1>0, <1>2, <1>8, <2>3, <3>2
      <4>2. published[e] = u
        BY <1>2, <2>5, <4>1
      <4> QED
        BY <2>1, <2>4, <4>1, <4>2 DEF AllGetIt
    <3> QED
      BY <3>1, <3>2
  <2> QED
    BY ZenonT(40), <1>1, <2>5 DEF AllGetIt
<1> QED
  BY <1>3, <1>5, <1>9, <1>10, <1>11

\* A message from the transport starts a dispatch, or is dropped.
LEMMA ReceiveKeeps ==
  ASSUME BrokerInv, ReceiveMessage
  PROVE  BrokerInv'
<1> USE DEF BrokerInv
<1>0. PICK m : m = Head(inbox)
  OBVIOUS
<1>1. /\ dispatch[Loop].rest = <<>> /\ inbox # <<>> /\ inbox' = Tail(inbox)
      /\ dispatch' = [dispatch EXCEPT ![Loop] =
           IF m.decodes THEN [event |-> m.event, rest |-> subscribers[published[m.event]]] ELSE @]
      /\ UNCHANGED <<distributed, subscribers, published, since, calls>>
  BY <1>0 DEF ReceiveMessage, bus, Copied
<1>2. /\ distributed /\ Loop \in Dispatcher /\ dispatch[Loop].event \in Nat /\ Len(published) \in Nat
  BY <1>1 DEF OrderKept, BrokerTypes, Dispatcher
<1>3. /\ Len(inbox) \in Nat \ {0} /\ m = inbox[1] /\ m \in Message
      /\ inbox' \in Seq(Message) /\ Len(inbox') = Len(inbox) - 1
      /\ \A i \in 1..Len(inbox') : i + 1 \in 1..Len(inbox) /\ inbox'[i] = inbox[i + 1]
  BY <1>0, <1>1 DEF BrokerTypes
<1>4. /\ m.event \in Nat /\ dispatch[Loop].event < m.event /\ m.event <= Len(published)
      /\ m.event \in 1..Len(published) /\ m.decodes \in BOOLEAN
  <2>1. m.event \in Nat /\ m.decodes \in BOOLEAN
    BY <1>3 DEF Message
  <2>2. 1 \in 1..Len(inbox)
    BY <1>3
  <2>3. dispatch[Loop].event < m.event /\ m.event <= Len(published)
    BY <1>2, <1>3, <2>2 DEF OrderKept
  <2> QED
    BY <1>2, <2>1, <2>3
<1>5. PICK u \in Topic : u = published[m.event]
  BY <1>4 DEF BrokerTypes
<1>6. /\ \A d \in Dispatcher \ {Loop} : dispatch'[d] = dispatch[d] /\ dispatch[d].rest = <<>>
      /\ m.decodes => dispatch'[Loop].event = m.event /\ dispatch'[Loop].rest = subscribers[u]
      /\ ~m.decodes => dispatch'[Loop] = dispatch[Loop]
  <2>1. \A d \in Dispatcher \ {Loop} : dispatch[d].rest = <<>>
    BY <1>2 DEF OrderKept
  <2> QED
    BY ZenonT(40), <1>1, <1>2, <1>5, <2>1 DEF BrokerTypes
<1>7. BrokerTypes'
  <2>1. [event |-> m.event, rest |-> subscribers[published[m.event]]] \in [event : Nat, rest : Seq(Callback)]
    BY ZenonT(40), <1>4, <1>5 DEF BrokerTypes
  <2>2. dispatch' \in [Dispatcher -> [event : Nat, rest : Seq(Callback)]]
    BY <1>1, <1>2, <2>1 DEF BrokerTypes
  <2> QED
    BY ZenonT(40), <1>1, <1>3, <2>2 DEF BrokerTypes
<1>8. SubscribedOnce' /\ CallsKept' /\ InOrderOfCalls'
  <2>1. SubscribedOnce'
    BY <1>1 DEF SubscribedOnce
  <2>2. CallsKept'
    BY <1>1 DEF CallsKept
  <2>3. InOrderOfCalls'
    BY <1>1 DEF InOrderOfCalls
  <2> QED
    BY <2>1, <2>2, <2>3
<1>9. \A c \in Callback : \A e \in Range(calls[c]) : e \in Nat /\ e <= dispatch[Loop].event
  <2>1. \A c \in Callback : \A e \in Range(calls[c]) : e \in Nat
    BY <1>2 DEF CallsKept
  <2> QED
    BY <1>2, <2>1 DEF OrderKept
<1>10. \A t \in Topic : Range(subscribers[t]) \subseteq Callback
  BY DEF BrokerTypes, Range
<1>11. DispatchKept'
  <2>1. ASSUME NEW d \in Dispatcher
        PROVE  /\ dispatch'[d].event <= Len(published')
               /\ IsInjective(dispatch'[d].rest)
               /\ \A c \in Range(dispatch'[d].rest) : Due(d, c)'
    <3>1. CASE d = Loop /\ m.decodes
      <4>1. IsInjective(subscribers[u])
        BY DEF SubscribedOnce
      <4>2. \A c \in Callback : m.event \notin Range(calls[c])
        BY <1>2, <1>4, <1>9
      <4>3. \A c \in Range(subscribers[u]) : Due(Loop, c)'
        BY <1>1, <1>4, <1>5, <1>6, <1>10, <3>1, <4>2 DEF Due
      <4> QED
        BY <1>1, <1>4, <1>6, <3>1, <4>1, <4>3
    <3>2. CASE d # Loop \/ ~m.decodes
      <4>1. dispatch'[d] = dispatch[d]
        BY <1>6, <3>2
      <4>2. \A c \in Range(dispatch[d].rest) : Due(d, c)
        BY DEF DispatchKept
      <4>3. \A c \in Range(dispatch[d].rest) : Due(d, c)'
        BY <1>1, <4>1, <4>2 DEF Due
      <4> QED
        BY ZenonT(40), <1>1, <4>1, <4>3 DEF DispatchKept
    <3> QED
      BY <3>1, <3>2
  <2>2. \A d \in Dispatcher \ {Loop} : dispatch'[d].rest = <<>>
    BY <1>6
  <2>3. \A d, f \in Dispatcher :
          d # f /\ dispatch'[d].rest # <<>> /\ dispatch'[f].rest # <<>> => dispatch'[d].event # dispatch'[f].event
    BY <2>2
  <2> QED
    BY <2>1, <2>3 DEF DispatchKept
<1>12. OrderKept'
  <2>1. \A d \in Dispatcher \ {Loop} : dispatch'[d].rest = <<>>
    BY <1>6
  <2>2. PICK e0 \in Nat : e0 = dispatch'[Loop].event /\ dispatch[Loop].event <= e0 /\ e0 <= m.event
    BY <1>2, <1>4, <1>6
  <2>3. \A c \in Callback : \A e \in Range(calls[c]) : e <= e0
    <3> SUFFICES ASSUME NEW c \in Callback, NEW e \in Range(calls[c]) PROVE e <= e0
      OBVIOUS
    <3>1. e \in Nat /\ e <= dispatch[Loop].event
      BY <1>9
    <3> QED
      BY <1>2, <2>2, <3>1
  <2>4. \A i, j \in 1..Len(inbox) : i < j => inbox[i].event < inbox[j].event
    BY <1>2 DEF OrderKept
  <2>5. \A i \in 1..Len(inbox) : inbox[i].event \in Nat /\ inbox[i].event <= Len(published)
    <3>1. \A i \in 1..Len(inbox) : inbox[i] \in Message
      BY DEF BrokerTypes
    <3> QED
      BY <1>2, <3>1 DEF OrderKept, Message
  <2>6. \A i \in 1..Len(inbox') : e0 < inbox'[i].event /\ inbox'[i].event <= Len(published)
    <3> SUFFICES ASSUME NEW i \in 1..Len(inbox')
                 PROVE  e0 < inbox'[i].event /\ inbox'[i].event <= Len(published)
      OBVIOUS
    <3>1. i + 1 \in 1..Len(inbox) /\ 1 \in 1..Len(inbox) /\ 1 < i + 1 /\ inbox'[i] = inbox[i + 1]
      BY <1>3
    <3>2. m.event < inbox[i + 1].event /\ inbox[i + 1].event \in Nat /\ inbox[i + 1].event <= Len(published)
      BY <1>3, <2>4, <2>5, <3>1
    <3> QED
      BY <1>4, <2>2, <3>1, <3>2
  <2>7. \A i, j \in 1..Len(inbox') : i < j => inbox'[i].event < inbox'[j].event
    <3> SUFFICES ASSUME NEW i \in 1..Len(inbox'), NEW j \in 1..Len(inbox'), i < j
                 PROVE  inbox'[i].event < inbox'[j].event
      OBVIOUS
    <3>1. /\ i + 1 \in 1..Len(inbox) /\ j + 1 \in 1..Len(inbox) /\ i + 1 < j + 1
          /\ inbox'[i] = inbox[i + 1] /\ inbox'[j] = inbox[j + 1]
      BY <1>3
    <3> QED
      BY <2>4, <3>1
  <2> QED
    BY ZenonT(40), <1>1, <1>2, <2>1, <2>2, <2>3, <2>6, <2>7 DEF OrderKept
<1>13. AllGetIt'
  <2>1. \A e : Owed(e) \subseteq Owed(e)'
    <3> SUFFICES ASSUME NEW e, NEW c \in Owed(e) PROVE c \in Owed(e)'
      OBVIOUS
    <3>1. PICK d \in Dispatcher : dispatch[d].event = e /\ c \in Range(dispatch[d].rest)
      BY DEF Owed
    <3>2. dispatch[d].rest = <<>>
      BY <1>1, <1>6
    <3> QED
      BY <3>1, <3>2 DEF Range
  <2>2. m.decodes => Range(subscribers[u]) \subseteq Owed(m.event)'
    BY <1>2, <1>6 DEF Owed
  <2>3. \A e : Handed(e)' => Handed(e) \/ (m.decodes /\ e = m.event)
    <3> SUFFICES ASSUME NEW e, Handed(e)' PROVE Handed(e) \/ (m.decodes /\ e = m.event)
      OBVIOUS
    <3>1. CASE \E d \in Dispatcher : dispatch'[d].event = e /\ dispatch'[d].rest # <<>>
      <4>1. PICK d \in Dispatcher : dispatch'[d].event = e /\ dispatch'[d].rest # <<>>
        BY <3>1
      <4>2. d = Loop
        BY <1>6, <4>1
      <4>3. m.decodes
        BY <1>1, <1>6, <4>1, <4>2
      <4> QED
        BY <1>6, <4>1, <4>2, <4>3
    <3>2. CASE \E c \in Callback : e \in Range(calls[c])
      BY <3>2 DEF Handed
    <3> QED
      BY ZenonT(40), <1>1, <1>2, <3>1, <3>2 DEF Handed
  <2>4. ASSUME NEW t \in Topic, NEW c \in Range(subscribers[t]), NEW e \in since[c] + 1..Len(published),
               published[e] = t, Handed(e)'
        PROVE  e \in Range(calls[c]) \/ c \in Owed(e)'
    <3>1. CASE Handed(e)
      BY <2>1, <2>4, <3>1 DEF AllGetIt
    <3>2. CASE m.decodes /\ e = m.event
      BY <1>5, <2>2, <2>4, <3>2
    <3> QED
      BY ZenonT(40), <2>3, <2>4, <3>1, <3>2
  <2> QED
    BY <1>1, <2>4 DEF AllGetIt
<1> QED
  BY <1>7, <1>8, <1>11, <1>12, <1>13

\* A dispatch calls one of its callbacks, which may panic.
LEMMA CallKeeps ==
  ASSUME BrokerInv, NEW d \in Dispatcher, Call(d)
  PROVE  BrokerInv'
<1> USE DEF BrokerInv
<1>0. PICK h \in Callback, e0 \in Nat, rest \in Seq(Callback) :
        /\ h = Head(dispatch[d].rest) /\ e0 = dispatch[d].event /\ rest = Tail(dispatch[d].rest)
        /\ Range(dispatch[d].rest) = Range(rest) \union {h}
        /\ IsInjective(rest) /\ h \notin Range(rest)
  <2>1. /\ dispatch[d].rest \in Seq(Callback) /\ dispatch[d].rest # <<>> /\ dispatch[d].event \in Nat
        /\ IsInjective(dispatch[d].rest)
    BY DEF Call, BrokerTypes, DispatchKept
  <2> QED
    BY ZenonT(40), <2>1, RangeTail
<1>1. /\ dispatch[d].rest # <<>>
      /\ calls' = [calls EXCEPT ![h] = Append(calls[h], e0)]
      /\ dispatch' = [dispatch EXCEPT ![d].rest = rest]
      /\ UNCHANGED <<distributed, subscribers, inbox, published, since>>
  BY <1>0 DEF Call, bus, redis
<1>2. /\ dispatch'[d].event = e0 /\ dispatch'[d].rest = rest
      /\ \A f \in Dispatcher \ {d} : dispatch'[f] = dispatch[f]
      /\ \A f \in Dispatcher : dispatch'[f].event = dispatch[f].event
      /\ dispatch' \in [Dispatcher -> [event : Nat, rest : Seq(Callback)]]
  BY ZenonT(40), <1>0, <1>1 DEF BrokerTypes
<1>3. /\ calls[h] \in Seq(Nat) /\ Append(calls[h], e0) \in Seq(Nat)
      /\ Range(Append(calls[h], e0)) = Range(calls[h]) \union {e0}
  <2>1. calls[h] \in Seq(Nat)
    BY DEF BrokerTypes
  <2> QED
    BY <2>1, RangeAppend
<1>4. /\ calls'[h] = Append(calls[h], e0)
      /\ \A c \in Callback \ {h} : calls'[c] = calls[c]
      /\ calls' \in [Callback -> Seq(Nat)]
  BY <1>1, <1>3 DEF BrokerTypes
<1>5. \A c \in Callback : \A e : e \in Range(calls'[c]) <=> e \in Range(calls[c]) \/ (c = h /\ e = e0)
  BY ZenonT(40), <1>3, <1>4
<1>6. Due(d, h) /\ e0 \in 1..Len(published) /\ h \in Range(subscribers[published[e0]]) /\ e0 \notin Range(calls[h])
  <2>1. Due(d, h)
    BY <1>0 DEF DispatchKept
  <2> QED
    BY <1>0, <2>1 DEF Due
<1>7. BrokerTypes'
  BY <1>1, <1>2, <1>4 DEF BrokerTypes
<1>8. SubscribedOnce'
  BY <1>1 DEF SubscribedOnce
<1>9. CallsKept'
  BY ZenonT(40), <1>1, <1>5, <1>6 DEF CallsKept
<1>10. DispatchKept'
  <2>1. \A t \in Topic : Range(subscribers[t]) \subseteq Callback
    BY DEF BrokerTypes, Range
  <2>2. \A e \in 1..Len(published) : published[e] \in Topic
    BY DEF BrokerTypes
  <2>3. ASSUME NEW f \in Dispatcher
        PROVE  /\ dispatch'[f].event <= Len(published')
               /\ IsInjective(dispatch'[f].rest)
               /\ \A c \in Range(dispatch'[f].rest) : Due(f, c)'
    <3>1. dispatch'[f].event <= Len(published')
      BY <1>1, <1>2 DEF DispatchKept
    <3>2. IsInjective(dispatch'[f].rest) /\ Range(dispatch'[f].rest) \subseteq Range(dispatch[f].rest)
      <4>1. CASE f = d
        BY <1>0, <1>2, <4>1
      <4>2. CASE f # d
        BY <1>2, <4>2 DEF DispatchKept
      <4> QED
        BY <4>1, <4>2
    <3>3. ASSUME NEW c \in Range(dispatch'[f].rest) PROVE Due(f, c)'
      <4>1. Due(f, c)
        BY <3>2 DEF DispatchKept
      <4>2. c \in Callback
        BY <2>1, <2>2, <4>1 DEF Due
      <4>3. ~(c = h /\ dispatch[f].event = e0)
        <5>1. CASE f = d
          BY <1>0, <1>2, <5>1
        <5>2. CASE f # d
          <6>1. dispatch[f].rest # <<>>
            <7>1. c \in Range(dispatch[f].rest)
              BY <3>2
            <7>2. Range(<<>>) = {}
              BY DEF Range
            <7> QED
              BY <7>1, <7>2
          <6> QED
            BY <1>0, <1>1, <5>2, <6>1 DEF DispatchKept
        <5> QED
          BY <5>1, <5>2
      <4> QED
        BY ZenonT(40), <1>1, <1>2, <1>5, <4>1, <4>2, <4>3 DEF Due
    <3> QED
      BY ZenonT(40), <3>1, <3>2, <3>3
  <2>4. \A f \in Dispatcher : dispatch'[f].rest # <<>> => dispatch[f].rest # <<>>
    BY <1>1, <1>2
  <2> QED
    BY ZenonT(40), <1>2, <2>3, <2>4 DEF DispatchKept
<1>11. OrderKept'
  <2>1. CASE ~distributed
    BY <1>1, <2>1 DEF OrderKept
  <2>2. CASE distributed
    <3>1. d = Loop
      BY <1>1, <2>2 DEF OrderKept
    <3>2. \A f \in Dispatcher \ {Loop} : dispatch'[f].rest = <<>>
      BY <1>2, <2>2, <3>1 DEF OrderKept
    <3>3. dispatch'[Loop].event = dispatch[Loop].event /\ dispatch[Loop].event = e0
      BY <1>0, <1>2, <3>1
    <3>4. \A c \in Callback : \A e \in Range(calls'[c]) : e <= dispatch'[Loop].event
      BY <1>5, <2>2, <3>3 DEF OrderKept
    <3> QED
      BY <1>1, <2>2, <3>2, <3>3, <3>4 DEF OrderKept
  <2> QED
    BY <2>1, <2>2 DEF BrokerTypes
<1>12. InOrderOfCalls'
  <2>1. \A c \in Callback \ {h} : \A i, j \in 1..Len(calls'[c]) : i < j =>
          IF distributed THEN calls'[c][i] < calls'[c][j] ELSE calls'[c][i] # calls'[c][j]
    <3> SUFFICES ASSUME NEW c \in Callback \ {h}
                 PROVE  \A i, j \in 1..Len(calls'[c]) : i < j =>
                          IF distributed THEN calls'[c][i] < calls'[c][j] ELSE calls'[c][i] # calls'[c][j]
      OBVIOUS
    <3>1. calls'[c] = calls[c]
      BY <1>4
    <3>2. \A i, j \in 1..Len(calls[c]) : i < j =>
            IF distributed THEN calls[c][i] < calls[c][j] ELSE calls[c][i] # calls[c][j]
      BY DEF InOrderOfCalls
    <3> QED
      BY ONLY <3>1, <3>2
  <2>2. PICK s \in Seq(Nat) : s = calls[h]
    BY <1>3
  <2>3. /\ Len(s) \in Nat /\ Len(calls'[h]) = Len(s) + 1
        /\ \A i \in 1..Len(s) : calls'[h][i] = s[i] /\ s[i] \in Range(calls[h])
        /\ calls'[h][Len(s) + 1] = e0
    <3>1. calls'[h] = Append(s, e0)
      BY <1>4, <2>2
    <3>2. \A i \in 1..Len(s) : s[i] \in Range(s)
      BY DEF Range
    <3> QED
      BY <2>2, <3>1, <3>2
  <2>4. \A i \in 1..Len(s) : IF distributed THEN s[i] < e0 ELSE s[i] # e0
    <3> SUFFICES ASSUME NEW i \in 1..Len(s) PROVE IF distributed THEN s[i] < e0 ELSE s[i] # e0
      OBVIOUS
    <3>1. s[i] \in Nat /\ s[i] # e0
      BY <1>6, <2>3
    <3>2. distributed => s[i] <= e0
      <4>1. distributed => d = Loop
        BY <1>1 DEF OrderKept
      <4> QED
        BY ZenonT(40), <1>0, <2>3, <4>1 DEF OrderKept
    <3> QED
      BY <3>1, <3>2
  <2>5. \A i, j \in 1..Len(s) : i < j => IF distributed THEN s[i] < s[j] ELSE s[i] # s[j]
    BY <2>2 DEF InOrderOfCalls
  <2>6. ASSUME NEW i \in 1..Len(calls'[h]), NEW j \in 1..Len(calls'[h]), i < j
        PROVE  IF distributed THEN calls'[h][i] < calls'[h][j] ELSE calls'[h][i] # calls'[h][j]
    <3>1. i \in 1..Len(s)
      BY <2>3, <2>6
    <3>2. CASE j \in 1..Len(s)
      BY <2>3, <2>5, <2>6, <3>1, <3>2
    <3>3. CASE j = Len(s) + 1
      BY <2>3, <2>4, <3>1, <3>3
    <3> QED
      BY <2>3, <3>2, <3>3
  <2> QED
    BY <1>1, <2>1, <2>6 DEF InOrderOfCalls
<1>13. AllGetIt'
  <2>1. \A e : Handed(e)' => Handed(e)
    <3>1. \A f \in Dispatcher : dispatch'[f].rest # <<>> => dispatch[f].rest # <<>>
      BY <1>1, <1>2
    <3>2. Handed(e0)
      BY <1>0, <1>1 DEF Handed
    <3> QED
      BY ZenonT(40), <1>1, <1>2, <1>5, <3>1, <3>2 DEF Handed
  <2>2. ASSUME NEW e, NEW c \in Owed(e) PROVE c \in Owed(e)' \/ (c = h /\ e = e0)
    <3>1. PICK f \in Dispatcher : dispatch[f].event = e /\ c \in Range(dispatch[f].rest)
      BY <2>2 DEF Owed
    <3>2. CASE c \in Range(dispatch'[f].rest)
      BY <1>2, <3>1, <3>2 DEF Owed
    <3>3. CASE c \notin Range(dispatch'[f].rest)
      BY ZenonT(40), <1>0, <1>2, <3>1, <3>3
    <3> QED
      BY <3>2, <3>3
  <2>3. \A t \in Topic : Range(subscribers[t]) \subseteq Callback
    BY DEF BrokerTypes, Range
  <2>4. ASSUME NEW t \in Topic, NEW c \in Range(subscribers[t]), NEW e \in since[c] + 1..Len(published),
               published[e] = t, Handed(e)
        PROVE  e \in Range(calls'[c]) \/ c \in Owed(e)'
    <3>1. e \in Range(calls[c]) \/ c \in Owed(e)
      BY ZenonT(40), <2>4 DEF AllGetIt
    <3>2. c \in Callback
      BY <2>3
    <3> QED
      BY <1>5, <2>2, <3>1, <3>2
  <2> QED
    BY <1>1, <2>1, <2>4 DEF AllGetIt
<1> QED
  BY <1>7, <1>8, <1>9, <1>10, <1>11, <1>12, <1>13

\* Every step keeps the invariant.
LEMMA BrokerKept == BrokerInv /\ [BrokerNext]_brokerVars => BrokerInv'
<1> SUFFICES ASSUME BrokerInv, [BrokerNext]_brokerVars PROVE BrokerInv'
  OBVIOUS
<1>1. ASSUME Stop \/ Disconnect \/ Exit \/ (\E t \in Topic : Listen(t)) \/ UNCHANGED brokerVars PROVE BrokerInv'
  BY <1>1, BrokerSame DEF Stop, Disconnect, Exit, Listen, brokerVars, bus, redis
<1>2. ASSUME ReceiveMessage PROVE BrokerInv'
  BY <1>2, ReceiveKeeps
<1>3. ASSUME NEW t \in Topic, NEW decodes \in BOOLEAN, PublishDistributed(t, decodes) PROVE BrokerInv'
  BY <1>3, PublishDistributedKeeps
<1>4. ASSUME NEW t \in Topic, NEW c \in Callback, Subscribe(c, t) PROVE BrokerInv'
  BY <1>4, SubscribeKeeps
<1>5. ASSUME NEW t \in Topic, NEW p \in Publisher, PublishLocal(p, t) PROVE BrokerInv'
  BY <1>5, PublishLocalKeeps
<1>6. ASSUME NEW d \in Dispatcher, Call(d) PROVE BrokerInv'
  BY <1>6, CallKeeps
<1> QED
  BY <1>1, <1>2, <1>3, <1>4, <1>5, <1>6 DEF BrokerNext, ReceiveLoopStep, Dispatcher

\* Under the invariant nothing is delivered twice or out of order.
LEMMA BrokerDelivers == BrokerInv => DeliveredOnce
<1> SUFFICES ASSUME BrokerInv, NEW t \in Topic, NEW c \in Range(subscribers[t])
             PROVE  /\ \A i \in DOMAIN calls[c] : published[calls[c][i]] = t
                    /\ \A i, j \in DOMAIN calls[c] : i < j =>
                         IF distributed THEN calls[c][i] < calls[c][j] ELSE calls[c][i] # calls[c][j]
                    /\ \A e \in since[c] + 1..Len(published) :
                         /\ published[e] = t
                         /\ distributed => \E other \in Range(subscribers[t]) : e \in Range(calls[other])
                         => e \in Range(calls[c]) \/ c \in Owed(e)
  BY DEF DeliveredOnce
<1> USE DEF BrokerInv
<1>1. c \in Callback /\ Range(subscribers[t]) \subseteq Callback
  BY DEF BrokerTypes, Range
<1>2. calls[c] \in Seq(Nat) /\ DOMAIN calls[c] = 1..Len(calls[c])
  BY <1>1 DEF BrokerTypes
<1>3. \A i \in DOMAIN calls[c] : published[calls[c][i]] = t
  <2> SUFFICES ASSUME NEW i \in DOMAIN calls[c] PROVE published[calls[c][i]] = t
    OBVIOUS
  <2>1. PICK e : e = calls[c][i] /\ e \in Range(calls[c])
    BY DEF Range
  <2>2. e \in 1..Len(published) /\ c \in Range(subscribers[published[e]])
    BY <1>1, <2>1 DEF CallsKept
  <2>3. published[e] \in Topic
    BY <2>2 DEF BrokerTypes
  <2> QED
    BY <1>1, <2>1, <2>2, <2>3 DEF SubscribedOnce
<1>4. \A i, j \in DOMAIN calls[c] : i < j =>
        IF distributed THEN calls[c][i] < calls[c][j] ELSE calls[c][i] # calls[c][j]
  BY <1>1, <1>2 DEF InOrderOfCalls
<1>5. ASSUME NEW e \in since[c] + 1..Len(published), published[e] = t,
             distributed => \E other \in Range(subscribers[t]) : e \in Range(calls[other])
      PROVE  e \in Range(calls[c]) \/ c \in Owed(e)
  <2>1. Handed(e)
    BY <1>1, <1>5 DEF Handed
  <2> QED
    BY <1>5, <2>1 DEF AllGetIt
<1> QED
  BY ZenonT(40), <1>3, <1>4, <1>5

\* Whoever publishes, subscribes, panics or loses the connection, an event is
\* handed to a callback of its topic at most once, with the transport in the order
\* of publication, and to all callbacks that had subscribed or to none
\* (broker.go:41-77, 134-157).
THEOREM EventsDeliveredOnce == BrokerSpec => []DeliveredOnce
BY BrokerInitially, BrokerKept, BrokerDelivers, PTL DEF BrokerSpec

-----------------------------------------------------------------------------
(* Window limiters *)

\* Calendar windows: the period around an instant is the one the code finds.
LEMMA CalendarWindow ==
  ASSUME CalendarStarts # {}, NEW t \in Instant
  PROVE  \E s, e \in CalendarStarts :
           /\ WindowStart(t) = s /\ WindowEnd(t) = e
           /\ s <= t /\ t < e /\ \A m \in CalendarStarts : m <= s \/ e <= m
<1>. USE WindowAssumption
<1>1. PICK s \in CalendarStarts, e \in CalendarStarts :
        s <= t /\ t < e /\ \A m \in CalendarStarts : m <= s \/ e <= m
  BY CalendarAssumption
<1>2. Max({m \in CalendarStarts : m <= t}) = s
  <2>. DEFINE S == {m \in CalendarStarts : m <= t}
  <2>1. s \in S /\ \A y \in S : s >= y
    BY <1>1
  <2>2. \A x \in S : (\A y \in S : x >= y) => x = s
    BY <2>1
  <2>. QED  BY ZenonT(40), <2>1, <2>2 DEF Max
<1>3. Min({m \in CalendarStarts : m > t}) = e
  <2>. DEFINE S == {m \in CalendarStarts : m > t}
  <2>1. e \in S /\ \A y \in S : e <= y
    BY <1>1
  <2>2. \A x \in S : (\A y \in S : x <= y) => x = e
    BY <2>1
  <2>. QED  BY ZenonT(40), <2>1, <2>2 DEF Min
<1>. QED  BY ZenonT(40), <1>1, <1>2, <1>3 DEF WindowStart, WindowEnd

\* A window starts no later than the instants in it, and they share its end.
LEMMA WindowFacts ==
  /\ \A t \in Instant : /\ WindowStart(t) \in Nat /\ WindowStart(t) <= t
                        /\ WindowEnd(t) \in Nat /\ WindowStart(t) \in Window
  /\ \A t, u \in Instant : WindowStart(t) = WindowStart(u) => WindowEnd(t) = WindowEnd(u)
<1>. USE WindowAssumption
<1>1. CASE CalendarStarts = {}
  <2>1. \A t \in Instant : t % Duration \in 0..(Duration - 1) /\ t % Duration <= t
    OBVIOUS
  <2>. QED  BY <1>1, <2>1 DEF WindowStart, WindowEnd, Window
<1>2. CASE CalendarStarts # {}
  <2>1. \A t \in Instant : /\ WindowStart(t) \in Nat /\ WindowStart(t) <= t
                           /\ WindowEnd(t) \in Nat /\ WindowStart(t) \in Window
    BY <1>2, CalendarWindow DEF Window
  <2>2. ASSUME NEW t \in Instant, NEW u \in Instant, WindowStart(t) = WindowStart(u)
        PROVE  WindowEnd(t) = WindowEnd(u)
    <3>1. PICK s \in CalendarStarts, e \in CalendarStarts :
            /\ WindowStart(t) = s /\ WindowEnd(t) = e
            /\ s <= t /\ t < e /\ \A m \in CalendarStarts : m <= s \/ e <= m
      BY <1>2, CalendarWindow
    <3>2. PICK r \in CalendarStarts, f \in CalendarStarts :
            /\ WindowStart(u) = r /\ WindowEnd(u) = f
            /\ r <= u /\ u < f /\ \A m \in CalendarStarts : m <= r \/ f <= m
      BY <1>2, CalendarWindow
    <3>3. s = r /\ {s, e, f, t, u} \subseteq Nat
      BY ZenonT(40), <2>2, <3>1, <3>2
    <3>4. e <= f
      BY <3>1, <3>2, <3>3
    <3>5. f <= e
      BY <3>1, <3>2, <3>3
    <3>. QED  BY <3>1, <3>2, <3>3, <3>4, <3>5
  <2>. QED  BY <2>1, <2>2
<1>. QED  BY <1>1, <1>2

-----------------------------------------------------------------------------
\* No evaluation runs at first.
LEMMA InitType == Init => TypeOK
  BY WindowAssumption, LimiterAssumption
  DEF Init, TypeOK, ZeroItem, NoExpiry, Running, Ended

\* An evaluation that returns leaves every other one alone.
LEMMA ReturnType ==
  ASSUME TypeOK, NEW p \in Proc, NEW d \in Ended, Return(p, d), now' = now
  PROVE  /\ pc' \in [Proc -> Running \union Ended]
         /\ at' \in [Proc -> Nat] /\ cost' \in [Proc -> Nat]
         /\ cur' \in [Proc -> Nat] /\ attempt' \in [Proc -> Nat]
         /\ \A q \in Proc : /\ pc'[q] \in Running => at'[q] \in Instant /\ at'[q] <= now'
                            /\ pc'[q] = "swap" => cur'[q] + cost'[q] <= Limit
<1>1. /\ pc' \in [Proc -> Running \union Ended]
      /\ at' \in [Proc -> Nat] /\ cost' \in [Proc -> Nat]
      /\ cur' \in [Proc -> Nat] /\ attempt' \in [Proc -> Nat]
  BY DEF TypeOK, Return
<1>2. \A q \in Proc : q # p => /\ pc'[q] = pc[q] /\ at'[q] = at[q]
                               /\ cur'[q] = cur[q] /\ cost'[q] = cost[q]
  BY DEF TypeOK, Return
<1>3. pc'[p] \notin Running /\ pc'[p] # "swap"
  BY DEF TypeOK, Return, Running, Ended
<1>. QED  BY <1>1, <1>2, <1>3 DEF TypeOK

\* A step of the clock or of one evaluation preserves the types.
LEMMA NextType == TypeOK /\ [Next]_vars => TypeOK'
<1>. SUFFICES ASSUME TypeOK, [Next]_vars PROVE TypeOK'
  OBVIOUS
<1>. USE WindowAssumption, LimiterAssumption
<1>a. ASSUME NEW P PROVE Noticed(P) \in [Proc -> 0..MaxRetries]
  BY DEF TypeOK, Noticed
<1>1. CASE UNCHANGED vars
  BY <1>1 DEF TypeOK, vars, store, local
<1>2. CASE Tick
  <2>1. now' \in Instant /\ now <= now' /\ now' \in Nat /\ now \in Nat
    BY <1>2 DEF Tick, TypeOK
  <2>2. rivals' \in [Proc -> 0..MaxRetries]
    BY <1>2, <1>a DEF Tick
  <2>3. \A p \in Proc : pc[p] \in Running => at[p] <= now'
    BY <2>1 DEF TypeOK
  <2>. QED  BY <1>2, <2>1, <2>2, <2>3 DEF Tick, TypeOK, store, local
<1>3. ASSUME NEW p \in Proc, NEW c \in Cost, Start(p, c) PROVE TypeOK'
  <2>1. c \in Nat /\ now \in Nat
    BY DEF TypeOK
  <2>2. \A q \in Proc : /\ pc'[q] \in Running => at'[q] \in Instant /\ at'[q] <= now'
                        /\ pc'[q] = "swap" => cur'[q] + cost'[q] <= Limit
    BY <1>3, <2>1 DEF Start, TypeOK
  <2>. QED  BY <1>3, <2>1, <2>2 DEF Start, TypeOK, Running, Ended, store
<1>4. ASSUME NEW p \in Proc, Get(p) PROVE TypeOK'
  <2>1. windowKey(p) \in Window
    BY <1>4, WindowFacts DEF Get, TypeOK, windowKey, Running
  <2>2. Value(windowKey(p)) \in Nat
    BY <2>1 DEF TypeOK, Value, Live, ZeroItem
  <2>3. \A q \in Proc : /\ pc'[q] \in Running => at'[q] \in Instant /\ at'[q] <= now'
                        /\ pc'[q] = "swap" => cur'[q] + cost'[q] <= Limit
    BY <1>4, <2>2 DEF Get, TypeOK, Running
  <2>. QED  BY <1>4, <2>2, <2>3 DEF Get, TypeOK, Running, store
<1>5. ASSUME NEW p \in Proc, GetDenies(p) \/ SwapGivesUp(p) \/ StoreFails(p) PROVE TypeOK'
  <2>1. PICK d \in Ended : Return(p, d)
    BY <1>5 DEF GetDenies, SwapGivesUp, StoreFails, Ended
  <2>2. /\ now' = now /\ counter' = counter /\ charged' = charged
        /\ rivals' \in [Proc -> 0..MaxRetries]
    BY <1>5 DEF GetDenies, SwapGivesUp, StoreFails, TypeOK, store
  <2>. QED  BY <2>1, <2>2, ReturnType DEF TypeOK
<1>6. ASSUME NEW p \in Proc, NEW d \in {"allowed", "error"}, Swap(p, d) PROVE TypeOK'
  <2>1. /\ windowKey(p) \in Window /\ at[p] \in Instant
        /\ cur[p] \in Nat /\ cost[p] \in Nat /\ now \in Nat
    BY <1>6, WindowFacts DEF Swap, TypeOK, windowKey, Running
  <2>2. counter' \in [Window -> [value : Nat, expiry : Nat]]
    <3>1. Written(Live(counter[windowKey(p)], now), cur[p] + cost[p], Duration, now)
            \in [value : Nat, expiry : Nat]
      BY <2>1 DEF Written
    <3>. QED  BY <1>6, <2>1, <3>1 DEF Swap, TypeOK
  <2>3. charged' \in [Window -> Nat]
    BY <1>6, <2>1 DEF Swap, TypeOK
  <2>4. rivals' \in [Proc -> 0..MaxRetries]
    <3>1. \A q \in Proc : Noticed({r \in Proc : pc[r] \in Running /\ windowKey(r) = windowKey(p)})
                            \in [Proc -> 0..MaxRetries]
      BY <1>a
    <3>. QED  BY <1>6, <3>1 DEF Swap
  <2>5. Return(p, d) /\ d \in Ended /\ now' = now
    BY <1>6 DEF Swap, Ended
  <2>. QED  BY <2>2, <2>3, <2>4, <2>5, ReturnType DEF TypeOK
<1>7. ASSUME NEW p \in Proc, SwapRetries(p) PROVE TypeOK'
  <2>1. \A q \in Proc : /\ pc'[q] \in Running => at'[q] \in Instant /\ at'[q] <= now'
                        /\ pc'[q] = "swap" => cur'[q] + cost'[q] <= Limit
    BY <1>7 DEF SwapRetries, TypeOK, Running
  <2>. QED  BY <1>7, <2>1 DEF SwapRetries, TypeOK, Running, store
<1>. QED  BY <1>1, <1>2, <1>3, <1>4, <1>5, <1>6, <1>7 DEF Next, Step

\* The types are right in every run, and an evaluation only ever swaps in a
\* value within the limit (fixedwindow.go:52-68, quota.go:55-71).
THEOREM TypeCorrect == Spec => []TypeOK
  BY InitType, NextType, PTL DEF Spec

-----------------------------------------------------------------------------
(* The budget.  While a window is open its counter is what was charged to  *)
(* it and, once written, lives until the window is over; so the comparison *)
(* of the swap compares what was charged, and the sum stays in the limit.  *)

\* What holds of the open window of instant t.
Open(t) ==
  LET w == WindowStart(t)
  IN  now < WindowEnd(t) =>
        /\ counter[w].value = charged[w]
        /\ counter[w].expiry # NoExpiry => WindowEnd(t) <= counter[w].expiry

\* The inductive invariant of the budget.
Budget == TypeOK /\ WindowBudget /\ \A t \in Instant : Open(t)

\* The live value of an open window's counter is what was charged to it.
LEMMA OpenIsLive ==
  ASSUME TypeOK, NEW t \in Instant, Open(t), now < WindowEnd(t)
  PROVE  /\ Live(counter[WindowStart(t)], now) = counter[WindowStart(t)]
         /\ Value(WindowStart(t)) = charged[WindowStart(t)]
<1>1. /\ now \in Nat /\ WindowEnd(t) \in Nat
      /\ counter[WindowStart(t)].expiry \in Nat
  <2>1. counter[WindowStart(t)] \in [value : Nat, expiry : Nat]
    BY WindowFacts DEF TypeOK
  <2>. QED  BY <2>1, WindowFacts, WindowAssumption DEF TypeOK
<1>. QED  BY <1>1 DEF Open, Live, Expired, Value

\* A swap keeps the invariant: the one step that charges a window.
LEMMA SwapBudget ==
  ASSUME DurationCoversWindow, Budget, TypeOK',
         NEW p \in Proc, NEW d \in {"allowed", "error"}, Swap(p, d)
  PROVE  WindowBudget' /\ \A t \in Instant : Open(t)'
<1>. DEFINE w == windowKey(p)
            it == Live(counter[w], now)
<1>1. /\ at[p] \in Instant /\ at[p] <= now /\ w = WindowStart(at[p])
      /\ cur[p] \in Nat /\ cost[p] \in Nat /\ cur[p] + cost[p] <= Limit
      /\ it.value = cur[p] /\ now' = now /\ w \in Window
  BY WindowFacts DEF Budget, Swap, TypeOK, windowKey, Running
<1>2. /\ now \in Nat /\ at[p] \in Nat /\ Duration \in Nat \ {0} /\ Limit \in Nat
      /\ WindowStart(at[p]) \in Nat /\ WindowStart(at[p]) <= at[p]
      /\ WindowEnd(at[p]) \in Nat /\ WindowEnd(at[p]) <= WindowStart(at[p]) + Duration
  BY <1>1, WindowFacts, WindowAssumption, LimiterAssumption
     DEF Budget, TypeOK, DurationCoversWindow
<1>3. /\ counter' = [counter EXCEPT ![w] = [value |-> cur[p] + cost[p], expiry |-> now + Duration]]
      /\ charged' = [charged EXCEPT ![w] = IF now < WindowEnd(at[p])
                                           THEN @ + cost[p] ELSE @]
  <2>1. \A i : Written(i, cur[p] + cost[p], Duration, now)
                = [value |-> cur[p] + cost[p], expiry |-> now + Duration]
    BY <1>2 DEF Written
  <2>. QED  BY ZenonT(40), <2>1 DEF Swap
<1>4. now < WindowEnd(at[p]) => charged[w] = cur[p]
  BY <1>1, OpenIsLive DEF Budget, Value
<1>. HIDE DEF w, it
<1>5. \A v \in Window : v # w => counter'[v] = counter[v] /\ charged'[v] = charged[v]
  BY <1>3 DEF Budget, TypeOK
<1>6. /\ counter'[w].value = cur[p] + cost[p] /\ counter'[w].expiry = now + Duration
      /\ charged'[w] = IF now < WindowEnd(at[p]) THEN charged[w] + cost[p] ELSE charged[w]
  BY <1>1, <1>3 DEF Budget, TypeOK
<1>7. charged'[w] <= Limit
  BY <1>1, <1>4, <1>6 DEF Budget, WindowBudget
<1>8. WindowBudget'
  BY <1>5, <1>7 DEF Budget, WindowBudget
<1>9. ASSUME NEW t \in Instant PROVE Open(t)'
  <2>1. CASE WindowStart(t) = w
    <3>1. WindowEnd(t) = WindowEnd(at[p])
      BY <1>1, <2>1, WindowFacts
    <3>2. WindowEnd(t) <= now + Duration
      BY <1>1, <1>2, <3>1
    <3>. QED  BY <1>1, <1>4, <1>6, <2>1, <3>1, <3>2 DEF Open
  <2>2. CASE WindowStart(t) # w
    <3>1. WindowStart(t) \in Window /\ Open(t)
      BY WindowFacts DEF Budget
    <3>. QED  BY <1>1, <1>5, <2>2, <3>1 DEF Open
  <2>. QED  BY <2>1, <2>2
<1>. QED  BY <1>8, <1>9

\* Every step keeps the invariant.
LEMMA NextBudget ==
  ASSUME DurationCoversWindow PROVE Budget /\ [Next]_vars => Budget'
<1>. SUFFICES ASSUME Budget, [Next]_vars PROVE Budget'
  OBVIOUS
<1>1. TypeOK'
  BY NextType DEF Budget
<1>2. CASE counter' = counter /\ charged' = charged /\ now' \in Instant /\ now <= now'
  <2>1. now \in Nat /\ now' \in Nat
    BY <1>2, WindowAssumption DEF Budget, TypeOK
  <2>2. \A t \in Instant : WindowEnd(t) \in Nat
    BY WindowFacts
  <2>. QED  BY <1>1, <1>2, <2>1, <2>2 DEF Budget, WindowBudget, Open
<1>3. ASSUME NEW p \in Proc, NEW d \in {"allowed", "error"}, Swap(p, d) PROVE Budget'
  <2>1. WindowBudget' /\ \A t \in Instant : Open(t)'
    BY <1>1, <1>3, SwapBudget
  <2>. QED  BY <1>1, <2>1 DEF Budget
<1>4. now \in Instant /\ now \in Nat
  BY WindowAssumption DEF Budget, TypeOK
<1>5. CASE Tick \/ UNCHANGED vars
  <2>1. counter' = counter /\ charged' = charged
    BY <1>5 DEF Tick, vars, store
  <2>2. now' \in Instant /\ now <= now'
    <3>1. CASE Tick
      <4>1. now' \in Instant /\ now' > now
        BY <3>1 DEF Tick
      <4>. QED  BY <4>1, <1>4, WindowAssumption
    <3>2. CASE UNCHANGED vars
      BY <1>4, <3>2 DEF vars
    <3>. QED  BY <1>5, <3>1, <3>2
  <2>. QED  BY <1>2, <2>1, <2>2
<1>6. ASSUME NEW p \in Proc, NEW c \in Cost, Start(p, c) PROVE Budget'
  BY <1>2, <1>4, <1>6 DEF Start, store
<1>7. ASSUME NEW p \in Proc,
             Get(p) \/ GetDenies(p) \/ SwapRetries(p) \/ SwapGivesUp(p) \/ StoreFails(p)
      PROVE  Budget'
  <2>1. counter' = counter /\ charged' = charged /\ now' = now
    BY <1>7 DEF Get, GetDenies, SwapRetries, SwapGivesUp, StoreFails, store
  <2>. QED  BY <1>2, <1>4, <2>1
<1>. QED  BY <1>3, <1>5, <1>6, <1>7 DEF Next, Step

\* Nothing is charged at first.
LEMMA InitBudget == Init => Budget
  BY InitType, WindowFacts, LimiterAssumption
     DEF Init, Budget, WindowBudget, Open, ZeroItem, NoExpiry

\* For any number of concurrent evaluations and any limit, costs and retries:
\* no window is charged more than its limit before it ends, if the counter
\* lives as long as the window (fixedwindow.go:57-68, quota.go:60-71).
THEOREM BudgetKept == ASSUME DurationCoversWindow PROVE Spec => []WindowBudget
<1>1. Budget => WindowBudget
  BY DEF Budget
<1>. QED  BY <1>1, InitBudget, NextBudget, PTL DEF Spec

\* Under the same assumption the counter of an open window is exactly the cost
\* that was admitted to it: no expiry and no denied request shows in it.
THEOREM CounterExact == ASSUME DurationCoversWindow PROVE Spec => []CounterIsCharged
<1>1. Budget => CounterIsCharged
  BY OpenIsLive DEF Budget, CounterIsCharged
<1>. QED  BY <1>1, InitBudget, NextBudget, PTL DEF Spec

-----------------------------------------------------------------------------
(* Contention.  Each attempt that failed has seen another value than the   *)
(* one it had read, so the counter changed at least once per attempt.      *)

\* What the attempts of p owe to changes of its counter.
Earned(p) ==
  IF pc[p] \in Running
  THEN /\ attempt[p] < MaxRetries /\ attempt[p] <= rivals[p]
       /\ pc[p] = "swap" /\ Value(windowKey(p)) # cur[p] => attempt[p] < rivals[p]
  ELSE attempt[p] = 0

\* The inductive invariant.
AllEarned == TypeOK /\ \A p \in Proc : Earned(p)

\* A change of its counter under an evaluation is noticed.
LEMMA OthersEarned ==
  ASSUME AllEarned, TypeOK', NEW q \in Proc,
         pc'[q] = pc[q], at'[q] = at[q], cur'[q] = cur[q], attempt'[q] = attempt[q],
         NEW P, rivals'[q] = Noticed(P)[q],
         pc[q] \in Running /\ Value(windowKey(q))' # Value(windowKey(q)) => q \in P
  PROVE  Earned(q)'
<1>1. /\ rivals[q] \in 0..MaxRetries /\ attempt[q] \in Nat /\ MaxRetries \in Nat
      /\ rivals'[q] = IF q \in P /\ rivals[q] < MaxRetries THEN rivals[q] + 1 ELSE rivals[q]
  BY LimiterAssumption DEF AllEarned, TypeOK, Noticed
<1>2. Earned(q)
  BY DEF AllEarned
<1>3. CASE pc[q] \in Running
  <2>1. attempt[q] < MaxRetries /\ attempt[q] <= rivals[q]
    BY <1>2, <1>3 DEF Earned
  <2>2. ASSUME pc[q] = "swap", Value(windowKey(q))' # cur[q] PROVE attempt[q] < rivals'[q]
    <3>1. CASE Value(windowKey(q)) = cur[q]
      BY <1>1, <1>3, <2>1, <2>2, <3>1
    <3>2. CASE Value(windowKey(q)) # cur[q]
      BY <1>1, <1>2, <1>3, <2>2, <3>2 DEF Earned
    <3> QED
      BY <3>1, <3>2
  <2> QED
    BY <1>1, <1>3, <2>1, <2>2 DEF Earned
<1>4. CASE pc[q] \notin Running
  BY <1>2, <1>4 DEF Earned
<1> QED
  BY <1>3, <1>4

\* A step of one evaluation that writes no counter.
LEMMA LocalStepEarned ==
  ASSUME AllEarned, TypeOK', NEW p \in Proc, Earned(p)',
         counter' = counter, now' = now,
         \A q \in Proc \ {p} : /\ pc'[q] = pc[q] /\ at'[q] = at[q] /\ cur'[q] = cur[q]
                               /\ attempt'[q] = attempt[q] /\ rivals'[q] = rivals[q]
  PROVE  AllEarned'
<1> SUFFICES ASSUME NEW q \in Proc \ {p} PROVE Earned(q)'
  BY DEF AllEarned
<1>1. rivals'[q] = Noticed({})[q]
  BY DEF Noticed
<1>2. Value(windowKey(q))' = Value(windowKey(q))
  BY DEF Value, windowKey
<1> QED
  BY ZenonT(40), <1>1, <1>2, OthersEarned

\* The end of an evaluation.
LEMMA ReturnEarned ==
  ASSUME AllEarned, NEW p \in Proc, NEW d \in Ended, Return(p, d)
  PROVE  /\ Earned(p)'
         /\ \A q \in Proc \ {p} : /\ pc'[q] = pc[q] /\ at'[q] = at[q] /\ cur'[q] = cur[q]
                                  /\ attempt'[q] = attempt[q]
<1>1. pc'[p] = d /\ attempt'[p] = 0 /\ d \notin Running
  BY DEF AllEarned, TypeOK, Return, Ended, Running
<1>2. Earned(p)'
  BY <1>1 DEF Earned
<1>3. \A q \in Proc \ {p} : /\ pc'[q] = pc[q] /\ at'[q] = at[q] /\ cur'[q] = cur[q]
                            /\ attempt'[q] = attempt[q]
  BY DEF AllEarned, TypeOK, Return
<1> QED
  BY <1>2, <1>3

\* Every step keeps the invariant.
LEMMA NextEarned == AllEarned /\ [Next]_vars => AllEarned'
<1> SUFFICES ASSUME AllEarned, [Next]_vars PROVE AllEarned'
  OBVIOUS
<1>1. TypeOK'
  BY NextType DEF AllEarned
<1>2. CASE UNCHANGED vars
  <2>1. \A p \in Proc : Earned(p)'
    BY <1>2 DEF vars, store, local, AllEarned, Earned, Value, windowKey
  <2> QED
    BY <1>1, <2>1 DEF AllEarned
<1>3. CASE Tick
  <2>1. ASSUME NEW q \in Proc PROVE Earned(q)'
    <3> DEFINE P == {p \in Proc : pc[p] \in Running /\ Value(windowKey(p)) # Value(windowKey(p))'}
    <3>1. rivals' = Noticed(P) /\ UNCHANGED <<pc, at, cur, attempt>>
      BY <1>3 DEF Tick, local
    <3>2. pc[q] \in Running /\ Value(windowKey(q))' # Value(windowKey(q)) => q \in P
      OBVIOUS
    <3> HIDE DEF P
    <3> QED
      BY <1>1, <3>1, <3>2, OthersEarned
  <2> QED
    BY <1>1, <2>1 DEF AllEarned
<1>4. ASSUME NEW p \in Proc, NEW c \in Cost, Start(p, c) PROVE AllEarned'
  <2>1. pc[p] \notin Running /\ rivals[p] \in Nat /\ MaxRetries \in Nat \ {0}
    BY <1>4, LimiterAssumption DEF Start, Running, Ended, AllEarned, TypeOK
  <2>2. attempt[p] = 0
    BY <2>1 DEF AllEarned, Earned
  <2>3. pc'[p] = "get" /\ attempt'[p] = 0 /\ rivals'[p] = rivals[p]
    BY <1>4, <2>2 DEF Start, AllEarned, TypeOK
  <2>4. Earned(p)'
    BY <2>1, <2>3 DEF Earned
  <2>5. /\ counter' = counter /\ now' = now
        /\ \A q \in Proc \ {p} : /\ pc'[q] = pc[q] /\ at'[q] = at[q] /\ cur'[q] = cur[q]
                                 /\ attempt'[q] = attempt[q] /\ rivals'[q] = rivals[q]
    BY <1>4 DEF Start, store, AllEarned, TypeOK
  <2> QED
    BY <1>1, <2>4, <2>5, LocalStepEarned
<1>5. ASSUME NEW p \in Proc, Get(p) PROVE AllEarned'
  <2>1. Earned(p) /\ pc[p] \in Running
    BY <1>5 DEF Get, Running, AllEarned
  <2>2. /\ cur'[p] = Value(windowKey(p)) /\ Value(windowKey(p))' = Value(windowKey(p))
        /\ attempt'[p] = attempt[p] /\ rivals'[p] = rivals[p]
    BY <1>5 DEF Get, store, AllEarned, TypeOK, Value, windowKey
  <2>3. pc'[p] = "swap"
    BY <1>5 DEF Get, AllEarned, TypeOK
  <2>4. Earned(p)'
    BY <2>1, <2>2, <2>3 DEF Earned, Running
  <2>5. /\ counter' = counter /\ now' = now
        /\ \A q \in Proc \ {p} : /\ pc'[q] = pc[q] /\ at'[q] = at[q] /\ cur'[q] = cur[q]
                                 /\ attempt'[q] = attempt[q] /\ rivals'[q] = rivals[q]
    BY <1>5 DEF Get, store, AllEarned, TypeOK
  <2> QED
    BY <1>1, <2>4, <2>5, LocalStepEarned
<1>6. ASSUME NEW p \in Proc, SwapRetries(p) PROVE AllEarned'
  <2>1. attempt[p] < rivals[p] /\ attempt[p] + 1 < MaxRetries
    BY <1>6 DEF SwapRetries, Running, AllEarned, Earned
  <2>2. /\ pc'[p] = "get" /\ attempt'[p] = attempt[p] + 1 /\ rivals'[p] = rivals[p]
        /\ attempt[p] \in Nat /\ rivals[p] \in Nat
    BY <1>6, LimiterAssumption DEF SwapRetries, AllEarned, TypeOK
  <2>3. Earned(p)'
    BY <2>1, <2>2 DEF Earned, Running
  <2>4. /\ counter' = counter /\ now' = now
        /\ \A q \in Proc \ {p} : /\ pc'[q] = pc[q] /\ at'[q] = at[q] /\ cur'[q] = cur[q]
                                 /\ attempt'[q] = attempt[q] /\ rivals'[q] = rivals[q]
    BY <1>6 DEF SwapRetries, store, AllEarned, TypeOK
  <2> QED
    BY <1>1, <2>3, <2>4, LocalStepEarned
<1>7. ASSUME NEW p \in Proc, GetDenies(p) \/ SwapGivesUp(p) \/ StoreFails(p) PROVE AllEarned'
  <2>1. PICK d \in Ended : /\ Return(p, d) /\ rivals' = [rivals EXCEPT ![p] = 0]
                           /\ counter' = counter /\ now' = now
    BY <1>7 DEF GetDenies, SwapGivesUp, StoreFails, Ended, store
  <2>2. \A q \in Proc \ {p} : rivals'[q] = rivals[q]
    BY <2>1 DEF AllEarned, TypeOK
  <2> QED
    BY <1>1, <2>1, <2>2, ReturnEarned, LocalStepEarned
<1>8. ASSUME NEW p \in Proc, NEW d \in {"allowed", "error"}, Swap(p, d) PROVE AllEarned'
  <2> DEFINE w == windowKey(p)
             P == {q \in Proc : pc[q] \in Running /\ windowKey(q) = w}
  <2>1. /\ Return(p, d) /\ d \in Ended /\ rivals' = [Noticed(P) EXCEPT ![p] = 0]
        /\ now' = now /\ \A v \in Window \ {w} : counter'[v] = counter[v]
    BY <1>8 DEF Swap, Ended, AllEarned, TypeOK
  <2>2. Noticed(P) \in [Proc -> Nat]
    BY LimiterAssumption DEF Noticed, AllEarned, TypeOK
  <2>3. ASSUME NEW q \in Proc \ {p} PROVE Earned(q)'
    <3>1. /\ rivals'[q] = Noticed(P)[q]
          /\ pc'[q] = pc[q] /\ at'[q] = at[q] /\ cur'[q] = cur[q] /\ attempt'[q] = attempt[q]
      BY <2>1, <2>2, ReturnEarned
    <3>2. ASSUME pc[q] \in Running, q \notin P PROVE Value(windowKey(q))' = Value(windowKey(q))
      <4>1. at[q] \in Instant /\ WindowStart(at[q]) \in Window /\ WindowStart(at[q]) # w
        BY <3>2, WindowFacts DEF AllEarned, TypeOK, windowKey
      <4>2. counter'[WindowStart(at[q])] = counter[WindowStart(at[q])]
        BY <2>1, <4>1
      <4> QED
        BY <2>1, <3>1, <4>2 DEF Value, windowKey
    <3> HIDE DEF P
    <3> QED
      BY <1>1, <3>1, <3>2, OthersEarned
  <2>4. Earned(p)'
    BY <2>1, ReturnEarned
  <2> QED
    BY <1>1, <2>3, <2>4 DEF AllEarned
<1> QED
  BY <1>2, <1>3, <1>4, <1>5, <1>6, <1>7, <1>8 DEF Next, Step

\* An evaluation is turned away for contention only if its counter has changed
\* MaxRetries times since it began, for any number of evaluations and retries
\* (fixedwindow.go:71, quota.go:74).
THEOREM ContentionIsEarned == Spec => [][ContentionEarned]_vars
<1>1. Init => AllEarned
  <2>1. Init => \A p \in Proc : Earned(p)
    BY DEF Init, Earned, Running
  <2> QED
    BY <2>1, InitType DEF AllEarned
<1>2. ASSUME AllEarned, [Next]_vars PROVE [ContentionEarned]_vars
  <2> SUFFICES ASSUME Next, NEW q \in Proc, pc[q] = "swap", pc'[q] = "contention"
               PROVE  rivals[q] = MaxRetries
    BY <1>2 DEF ContentionEarned
  <2>1. SwapGivesUp(q)
    <3>1. ASSUME NEW p \in Proc, NEW d, d # "contention", pc' = [pc EXCEPT ![p] = d] PROVE FALSE
      BY <1>2, <3>1 DEF AllEarned, TypeOK
    <3>2. ASSUME pc' = pc PROVE FALSE
      BY <3>2
    <3>3. ASSUME NEW p \in Proc, SwapGivesUp(p) PROVE p = q
      BY <1>2, <3>3 DEF SwapGivesUp, Return, AllEarned, TypeOK
    <3>4. ASSUME Tick PROVE FALSE
      BY <3>2, <3>4 DEF Tick, local
    <3>5. ASSUME NEW p \in Proc, NEW c \in Cost, Start(p, c) PROVE FALSE
      BY <3>1, <3>5 DEF Start
    <3>6. ASSUME NEW p \in Proc, Get(p) \/ SwapRetries(p) PROVE FALSE
      BY <3>1, <3>6 DEF Get, SwapRetries
    <3>7. ASSUME NEW p \in Proc,
                 GetDenies(p) \/ StoreFails(p) \/ Swap(p, "allowed") \/ Swap(p, "error")
          PROVE  FALSE
      <4>1. CASE GetDenies(p)
        BY <3>1, <4>1 DEF GetDenies, Return
      <4>2. CASE StoreFails(p)
        BY <3>1, <4>2 DEF StoreFails, Return
      <4>3. ASSUME NEW d \in {"allowed", "error"}, Swap(p, d) PROVE FALSE
        <5>1. pc' = [pc EXCEPT ![p] = d]
          BY <4>3 DEF Swap, Return
        <5> QED
          BY <3>1, <5>1
      <4> QED
        BY <3>7, <4>1, <4>2, <4>3
    <3>8. \E p \in Proc : SwapGivesUp(p)
      BY ZenonT(40), <3>4, <3>5, <3>6, <3>7 DEF Next, Step
    <3> QED
      BY ZenonT(40), <3>3, <3>8
  <2>2. attempt[q] < rivals[q] /\ MaxRetries <= attempt[q] + 1
    BY <1>2, <2>1 DEF SwapGivesUp, AllEarned, Earned, Running
  <2>3. attempt[q] \in Nat /\ rivals[q] \in 0..MaxRetries /\ MaxRetries \in Nat
    BY <1>2, LimiterAssumption DEF AllEarned, TypeOK
  <2> QED
    BY <2>2, <2>3
<1> QED
  BY <1>1, <1>2, NextEarned, PTL DEF Spec
=============================================================================
