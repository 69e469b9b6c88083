--------------------------- MODULE EventBusProofs ---------------------------
(***************************************************************************)
(* Proofs about the event bus and its streams, for any clients, channel    *)
(* sizes and numbers of events: an event is nowhere twice on its way to a  *)
(* client, and it gets lost only to a client whose channel was full.       *)
(***************************************************************************)
EXTENDS EventBus, SequenceTheorems, TLAPS

\* The events that a handler holds for client c.
Handled(c) == {h.event : h \in {g \in handlers : g.client = c}}

\* Events are no newer than the latest one published, and the zero event is
\* there only once the channel is closed.
Issued ==
    /\ ToSet(queue) \subseteq 1 .. published
    /\ \A c \in Clients :
          /\ Handled(c) \cup ToSet(stream[c]) \cup seen[c] \subseteq 0 .. published
          /\ 0 \in Handled(c) \cup ToSet(stream[c]) \cup seen[c] => ChanClosed

\* A client has one handler for an event.
OneHandler ==
    \A g, h \in handlers : g.client = h.client /\ g.event = h.event /\ g.event # 0 => g = h

\* An event is in one place: still in the bus, with a handler, in the
\* client's channel or shown.
OnePlace ==
    /\ Distinct(queue)
    /\ \A c \in Clients :
          /\ ToSet(queue) \cap (Handled(c) \cup ToSet(stream[c]) \cup seen[c]) = {}
          /\ Distinct(stream[c])
          /\ Handled(c) \cap (ToSet(stream[c]) \cup seen[c]) \subseteq {0}
          /\ ToSet(stream[c]) \cap seen[c] \subseteq {0}

\* Only a full channel is made room in.
DropsWhenFull == \A h \in handlers : h.at = "drop" => h.client \in behind

BusInv == TypeOK /\ Issued /\ OneHandler /\ OnePlace /\ DropsWhenFull

-----------------------------------------------------------------------------
(* The bounded channels, as sequences. *)

\* An event that is put in is the last one.
LEMMA AppendFacts ==
    ASSUME NEW S, NEW s \in Seq(S), NEW e \in S
    PROVE  /\ Append(s, e) \in Seq(S) /\ Len(Append(s, e)) = Len(s) + 1
           /\ ToSet(Append(s, e)) = ToSet(s) \cup {e}
           /\ Distinct(s) /\ e \notin ToSet(s) \ {0} => Distinct(Append(s, e))
  <1> DEFINE t == Append(s, e)
  <1>1. /\ t \in Seq(S) /\ Len(t) = Len(s) + 1
        /\ \A i \in 1 .. Len(s) : t[i] = s[i]
        /\ t[Len(s) + 1] = e
    BY AppendProperties
  <1>2. Len(s) \in Nat /\ DOMAIN s = 1 .. Len(s) /\ DOMAIN t = 1 .. Len(s) + 1
    BY <1>1
  <1> HIDE DEF t
  <1>3. ToSet(t) = ToSet(s) \cup {e}
    <2>1. \A i \in DOMAIN t : t[i] \in ToSet(s) \cup {e}
      BY <1>1, <1>2 DEF ToSet
    <2>2. \A i \in DOMAIN s : i \in DOMAIN t /\ t[i] = s[i]
      BY <1>1, <1>2
    <2>3. Len(s) + 1 \in DOMAIN t
      BY <1>2
    <2>4. QED
      BY <1>1, <2>1, <2>2, <2>3 DEF ToSet
  <1>4. ASSUME Distinct(s), e \notin ToSet(s) \ {0} PROVE Distinct(t)
    <2> SUFFICES ASSUME NEW i \in DOMAIN t, NEW j \in DOMAIN t, i # j, t[i] = t[j]
                 PROVE  t[i] = 0
      BY DEF Distinct
    <2>1. \A k \in DOMAIN s : s[k] \in ToSet(s)
      BY DEF ToSet
    <2>2. CASE i \in DOMAIN s /\ j \in DOMAIN s
      BY <1>1, <1>2, <1>4, <2>2 DEF Distinct
    <2>3. CASE i = Len(s) + 1 \/ j = Len(s) + 1
      <3>1. e \in ToSet(s) \/ i = j
        BY <1>1, <1>2, <2>1, <2>3
      <3>2. QED
        BY <1>1, <1>4, <2>3, <3>1
    <2>4. QED
      BY <1>2, <2>2, <2>3
  <1>5. QED
    BY <1>1, <1>3, <1>4 DEF t

\* One that is taken out is the first.
LEMMA TailFacts ==
    ASSUME NEW S, NEW s \in Seq(S), s # <<>>
    PROVE  /\ Tail(s) \in Seq(S) /\ Len(Tail(s)) = Len(s) - 1 /\ Len(s) \in Nat
           /\ Head(s) \in S
           /\ ToSet(s) = {Head(s)} \cup ToSet(Tail(s))
           /\ Distinct(s) => Distinct(Tail(s)) /\ Head(s) \notin ToSet(Tail(s)) \ {0}
  <1> DEFINE t == Tail(s)
  <1>1. /\ t \in Seq(S) /\ Len(t) = Len(s) - 1 /\ Head(s) \in S
        /\ \A i \in 1 .. Len(t) : t[i] = s[i + 1]
    BY HeadTailProperties
  <1>2. Len(s) \in Nat /\ Len(s) > 0 /\ DOMAIN s = 1 .. Len(s) /\ DOMAIN t = 1 .. Len(s) - 1
    BY <1>1, EmptySeq
  <1>3. Head(s) = s[1] /\ 1 \in DOMAIN s
    BY <1>2
  <1> HIDE DEF t
  <1>4. \A i \in DOMAIN t : i + 1 \in DOMAIN s /\ i + 1 # 1 /\ t[i] = s[i + 1]
    BY <1>1, <1>2
  <1>5. ToSet(s) = {Head(s)} \cup ToSet(t)
    <2>1. \A i \in DOMAIN s : i = 1 \/ (i - 1 \in DOMAIN t /\ t[i - 1] = s[i])
      BY <1>1, <1>2
    <2>2. ToSet(s) \subseteq {Head(s)} \cup ToSet(t)
      BY <1>3, <2>1 DEF ToSet
    <2>3. {Head(s)} \cup ToSet(t) \subseteq ToSet(s)
      BY <1>3, <1>4 DEF ToSet
    <2>4. QED
      BY <2>2, <2>3
  <1>6. ASSUME Distinct(s) PROVE Distinct(t)
    <2> SUFFICES ASSUME NEW i \in DOMAIN t, NEW j \in DOMAIN t, i # j, t[i] = t[j]
                 PROVE  t[i] = 0
      BY DEF Distinct
    <2>1. i + 1 # j + 1
      BY <1>2
    <2>2. QED
      BY <1>4, <1>6, <2>1 DEF Distinct
  <1>7. ASSUME Distinct(s), NEW i \in DOMAIN t, t[i] = Head(s) PROVE Head(s) = 0
    BY <1>3, <1>4, <1>7 DEF Distinct
  <1>8. QED
    BY <1>1, <1>2, <1>5, <1>6, <1>7 DEF t, ToSet

-----------------------------------------------------------------------------
(* The handlers. *)

\* A handler that ends leaves no other one for its client and event.
LEMMA HandlerEnds ==
    ASSUME OneHandler, NEW h \in handlers, Becomes(h, {})
    PROVE  /\ handlers' \subseteq handlers
           /\ OneHandler'
           /\ \A c \in Clients : /\ Handled(c)' \subseteq Handled(c)
                                 /\ Handled(c) \subseteq Handled(c)' \cup {h.event}
                                 /\ c # h.client => Handled(c)' = Handled(c)
           /\ h.event # 0 => h.event \notin Handled(h.client)'
  <1>1. handlers' = handlers \ {h}
    BY DEF Becomes
  <1>2. \A c \in Clients : c # h.client => Handled(c)' = Handled(c)
    BY <1>1 DEF Handled
  <1>3. h.event # 0 => h.event \notin Handled(h.client)'
    BY <1>1 DEF OneHandler, Handled
  <1>4. QED
    BY <1>1, <1>2, <1>3 DEF OneHandler, Handled

\* One that goes on keeps its client and event.
LEMMA HandlerGoesOn ==
    ASSUME TypeOK, OneHandler, NEW h \in handlers, NEW at \in {"drop", "resend"},
           Becomes(h, {[h EXCEPT !.at = at]})
    PROVE  /\ handlers' \subseteq Handlers
           /\ OneHandler'
           /\ \A c \in Clients : Handled(c)' = Handled(c)
           /\ \A g \in handlers' : g \in handlers \/ g = [h EXCEPT !.at = at]
  <1> DEFINE k == [h EXCEPT !.at = at]
  <1>1. h \in Handlers /\ handlers \subseteq Handlers
    BY DEF TypeOK
  <1>2. k \in Handlers /\ k.client = h.client /\ k.event = h.event
    BY <1>1 DEF Handlers
  <1>3. handlers' = (handlers \ {h}) \cup {k}
    BY DEF Becomes
  <1> HIDE DEF k
  <1>4. OneHandler'
    <2> SUFFICES ASSUME NEW g \in handlers', NEW i \in handlers',
                        g.client = i.client, g.event = i.event, g.event # 0
                 PROVE  g = i
      BY DEF OneHandler
    <2>1. CASE g = k /\ i # k
      BY <1>2, <1>3, <2>1 DEF OneHandler
    <2>2. CASE g # k /\ i = k
      BY <1>2, <1>3, <2>2 DEF OneHandler
    <2>3. CASE g # k /\ i # k
      BY <1>3, <2>3 DEF OneHandler
    <2>4. QED
      BY <2>1, <2>2, <2>3
  <1>5. ASSUME NEW c \in Clients PROVE Handled(c)' = Handled(c)
    <2>1. Handled(c)' \subseteq Handled(c)
      BY <1>2, <1>3 DEF Handled
    <2>2. Handled(c) \subseteq Handled(c)'
      BY <1>2, <1>3 DEF Handled
    <2>3. QED
      BY <2>1, <2>2
  <1>6. QED
    BY <1>1, <1>2, <1>3, <1>4, <1>5 DEF k

\* The dispatcher gives every open client a handler for the event.
LEMMA Spawned ==
    ASSUME TypeOK, OneHandler, NEW e \in Events,
           \A c \in Clients : e \notin Handled(c) \ {0},
           handlers' = handlers \cup Spawn(e)
    PROVE  /\ handlers' \subseteq Handlers
           /\ OneHandler'
           /\ \A c \in Clients : /\ Handled(c) \subseteq Handled(c)'
                                 /\ Handled(c)' \subseteq Handled(c) \cup {e}
                                 /\ conn[c] = "open" => e \in Handled(c)'
           /\ \A g \in handlers' : g \in handlers \/ g.at = "send"
  <1>1. \A g \in Spawn(e) : /\ g \in Handlers /\ g.event = e /\ g.at = "send"
                            /\ g.client \in Clients
                            /\ g = [client |-> g.client, event |-> e, at |-> "send"]
    BY DEF Spawn, Handlers
  <1>2. ASSUME NEW g \in handlers, NEW i \in Spawn(e), g.client = i.client, g.event = i.event
        PROVE  e = 0
    BY <1>1, <1>2 DEF Handled
  <1>3. OneHandler'
    <2> SUFFICES ASSUME NEW g \in handlers', NEW i \in handlers',
                        g.client = i.client, g.event = i.event, g.event # 0
                 PROVE  g = i
      BY DEF OneHandler
    <2>1. CASE g \in handlers /\ i \in handlers
      BY <2>1 DEF OneHandler
    <2>2. CASE g \in Spawn(e) /\ i \in Spawn(e)
      BY <1>1, <2>2
    <2>3. QED
      BY <1>1, <1>2, <2>1, <2>2
  <1>4. ASSUME NEW c \in Clients
        PROVE  /\ Handled(c) \subseteq Handled(c)'
               /\ Handled(c)' \subseteq Handled(c) \cup {e}
    BY <1>1 DEF Handled
  <1>5. ASSUME NEW c \in Clients, conn[c] = "open" PROVE e \in Handled(c)'
    <2> DEFINE g == [client |-> c, event |-> e, at |-> "send"]
    <2>1. g \in Spawn(e) /\ g.client = c /\ g.event = e
      BY <1>5 DEF Spawn
    <2>2. QED
      BY <2>1 DEF Handled
  <1>6. QED
    BY <1>1, <1>3, <1>4, <1>5 DEF TypeOK

-----------------------------------------------------------------------------
(* Every step preserves the invariant. *)

\* Publish: the event is new, so it is nowhere yet.
LEMMA PublishKeepsIt ==
    ASSUME BusInv, Publish
    PROVE  BusInv'
  <1> USE DEF BusInv
  <1>1. /\ published' = published + 1 /\ published < MaxEvents /\ published \in Nat
        /\ UNCHANGED <<bus, dispatcher, conn, stream, seen, handlers, behind>>
        /\ crash' \in {"none", "publish", "stream"}
    BY EventBusAssumption DEF Publish, TypeOK, Events
  <1>2. \A c \in Clients : Handled(c)' = Handled(c)
    BY <1>1 DEF Handled
  <1>3. OneHandler' /\ DropsWhenFull'
    BY <1>1 DEF OneHandler, DropsWhenFull
  <1>4. CASE queue' = queue
    <2>1. TypeOK'
      BY <1>1, <1>4, EventBusAssumption DEF TypeOK, Events
    <2>2. Issued'
      BY <1>1, <1>2, <1>4 DEF Issued, ChanClosed
    <2>3. OnePlace'
      BY <1>1, <1>2, <1>4 DEF OnePlace
    <2>4. QED
      BY <1>3, <2>1, <2>2, <2>3
  <1>5. CASE Len(queue) < BusSize /\ queue' = Append(queue, published')
    <2>1. queue \in Seq(1 .. MaxEvents) /\ published' \in 1 .. MaxEvents
      BY <1>1, EventBusAssumption DEF TypeOK
    <2>2. published' \notin ToSet(queue)
      BY <1>1 DEF Issued
    <2>3. /\ queue' \in Seq(1 .. MaxEvents) /\ Len(queue') = Len(queue) + 1
          /\ ToSet(queue') = ToSet(queue) \cup {published'}
          /\ Distinct(queue')
      <3> DEFINE S == 1 .. MaxEvents
                 e == published'
      <3>1. /\ Append(queue, e) \in Seq(S) /\ Len(Append(queue, e)) = Len(queue) + 1
            /\ ToSet(Append(queue, e)) = ToSet(queue) \cup {e}
            /\ Distinct(queue) /\ e \notin ToSet(queue) \ {0} => Distinct(Append(queue, e))
        <4> HIDE DEF S, e
        <4>1. queue \in Seq(S) /\ e \in S
          BY <2>1 DEF S, e
        <4>2. QED
          BY <4>1, AppendFacts
      <3>2. QED
        BY <1>5, <2>2, <3>1 DEF OnePlace
    <2>4. TypeOK'
      <3>1. Len(queue') <= BusSize
        BY <1>5, <2>1, <2>3, EventBusAssumption
      <3>2. QED
        BY <1>1, <2>1, <2>3, <3>1 DEF TypeOK, Events
    <2>5. Issued'
      BY <1>1, <1>2, <2>3 DEF Issued, ChanClosed
    <2>6. \A c \in Clients : published' \notin Handled(c) \cup ToSet(stream[c]) \cup seen[c]
      BY <1>1 DEF Issued
    <2>7. OnePlace'
      BY <1>1, <1>2, <2>3, <2>6 DEF OnePlace
    <2>8. QED
      BY <1>3, <2>4, <2>5, <2>7
  <1>6. QED
    BY <1>4, <1>5 DEF Publish

\* Dispatch: the event leaves the bus for the handlers, one for a client.
LEMMA DispatchKeepsIt ==
    ASSUME BusInv, Dispatch
    PROVE  BusInv'
  <1> USE DEF BusInv
  <1> DEFINE e == Head(queue)
  <1>1. /\ queue # <<>> /\ queue' = Tail(queue) /\ handlers' = handlers \cup Spawn(e)
        /\ UNCHANGED <<published, bus, dispatcher, conn, stream, seen, behind, crash>>
    BY DEF Dispatch
  <1>2. queue \in Seq(1 .. MaxEvents) /\ Len(queue) <= BusSize
    BY DEF TypeOK
  <1>3. /\ queue' \in Seq(1 .. MaxEvents) /\ Len(queue') = Len(queue) - 1 /\ Len(queue) \in Nat
        /\ e \in 1 .. MaxEvents
        /\ ToSet(queue) = {e} \cup ToSet(queue')
        /\ Distinct(queue') /\ e \notin ToSet(queue') \ {0}
    BY <1>1, <1>2, TailFacts DEF OnePlace
  <1> HIDE DEF e
  <1>4. e \in Events /\ e # 0 /\ \A c \in Clients : e \notin Handled(c) \cup ToSet(stream[c]) \cup seen[c]
    BY <1>3 DEF OnePlace, Events
  <1>5. /\ handlers' \subseteq Handlers
        /\ OneHandler'
        /\ \A c \in Clients : Handled(c)' \subseteq Handled(c) \cup {e}
        /\ \A g \in handlers' : g \in handlers \/ g.at = "send"
    BY <1>1, <1>4, Spawned
  <1>6. TypeOK'
    <2>1. Len(queue') <= BusSize
      BY <1>2, <1>3, EventBusAssumption
    <2>2. QED
      BY <1>1, <1>3, <1>5, <2>1 DEF TypeOK
  <1>7. Issued'
    <2>1. e \in 1 .. published
      BY <1>3 DEF Issued
    <2>2. published \in Nat
      BY EventBusAssumption DEF TypeOK, Events
    <2>3. QED
      BY <1>1, <1>3, <1>5, <2>1, <2>2 DEF Issued, ChanClosed
  <1>8. OnePlace'
    BY <1>1, <1>3, <1>4, <1>5 DEF OnePlace
  <1>9. DropsWhenFull'
    BY <1>1, <1>5 DEF DropsWhenFull
  <1>10. QED
    BY <1>5, <1>6, <1>7, <1>8, <1>9

\* DispatchZero: zero events come from a closed channel only.
LEMMA DispatchZeroKeepsIt ==
    ASSUME BusInv, DispatchZero
    PROVE  BusInv'
  <1> USE DEF BusInv
  <1>1. /\ ChanClosed /\ handlers' = handlers \cup Spawn(0)
        /\ UNCHANGED <<published, queue, bus, dispatcher, conn, stream, seen, behind, crash>>
    BY DEF DispatchZero
  <1>2. 0 \in Events
    BY EventBusAssumption DEF Events
  <1>3. /\ handlers' \subseteq Handlers
        /\ OneHandler'
        /\ \A c \in Clients : Handled(c)' \subseteq Handled(c) \cup {0}
        /\ \A g \in handlers' : g \in handlers \/ g.at = "send"
    BY <1>1, <1>2, Spawned
  <1>4. TypeOK'
    BY <1>1, <1>3 DEF TypeOK
  <1>5. published \in Nat /\ 0 \notin ToSet(queue)
    BY EventBusAssumption DEF TypeOK, Events, Issued
  <1>6. Issued'
    BY <1>1, <1>3, <1>5 DEF Issued, ChanClosed
  <1>7. OnePlace'
    BY <1>1, <1>3, <1>5 DEF OnePlace
  <1>8. DropsWhenFull'
    BY <1>1, <1>3 DEF DropsWhenFull
  <1>9. QED
    BY <1>3, <1>4, <1>6, <1>7, <1>8

\* The channel of client c as DropOldest and Write leave it.
LEMMA StreamTail ==
    ASSUME BusInv, NEW c \in Clients, stream[c] # <<>>,
           stream' = [stream EXCEPT ![c] = Tail(@)]
    PROVE  /\ stream' \in [Clients -> Seq(Events)]
           /\ \A d \in Clients : Len(stream'[d]) <= StreamSize
           /\ \A d \in Clients : d # c => stream'[d] = stream[d]
           /\ Head(stream[c]) \in Events
           /\ ToSet(stream[c]) = {Head(stream[c])} \cup ToSet(stream'[c])
           /\ Distinct(stream'[c]) /\ Head(stream[c]) \notin ToSet(stream'[c]) \ {0}
  <1>1. stream \in [Clients -> Seq(Events)] /\ stream[c] \in Seq(Events) /\ Len(stream[c]) <= StreamSize
    BY DEF BusInv, TypeOK
  <1> DEFINE s == stream[c]
  <1>2. /\ Tail(s) \in Seq(Events) /\ Len(Tail(s)) = Len(s) - 1 /\ Len(s) \in Nat
        /\ Head(s) \in Events
        /\ ToSet(s) = {Head(s)} \cup ToSet(Tail(s))
        /\ Distinct(s) => Distinct(Tail(s)) /\ Head(s) \notin ToSet(Tail(s)) \ {0}
    <2>1. s \in Seq(Events) /\ s # <<>>
      BY <1>1
    <2> HIDE DEF s
    <2>2. QED
      BY <2>1, TailFacts
  <1>3. stream'[c] = Tail(s) /\ \A d \in Clients : d # c => stream'[d] = stream[d]
    BY <1>1
  <1>4. Distinct(s)
    BY DEF BusInv, OnePlace
  <1>5. stream' \in [Clients -> Seq(Events)]
    BY <1>1, <1>2
  <1>6. Len(stream'[c]) <= StreamSize
    BY <1>1, <1>2, <1>3, EventBusAssumption
  <1>7. \A d \in Clients : Len(stream'[d]) <= StreamSize
    BY <1>3, <1>6 DEF BusInv, TypeOK
  <1>8. QED
    BY <1>2, <1>3, <1>4, <1>5, <1>7

\* Send: the event goes from its one handler to the channel.
LEMMA SendKeepsIt ==
    ASSUME BusInv, NEW h \in handlers, Send(h)
    PROVE  BusInv'
  <1> USE DEF BusInv
  <1> DEFINE c == h.client
             e == h.event
  <1>1. /\ Len(stream[c]) < StreamSize
        /\ stream' = [stream EXCEPT ![c] = Append(@, e)]
        /\ Becomes(h, {})
        /\ UNCHANGED <<published, queue, bus, dispatcher, conn, seen, behind, crash>>
    BY DEF Send
  <1>2. c \in Clients /\ e \in Events /\ e \in Handled(c)
    BY DEF TypeOK, Handlers, Handled
  <1>3. /\ handlers' \subseteq handlers
        /\ OneHandler'
        /\ \A d \in Clients : Handled(d)' \subseteq Handled(d)
        /\ e # 0 => e \notin Handled(c)'
    BY <1>1, HandlerEnds
  <1> HIDE DEF c, e
  <1>4. stream \in [Clients -> Seq(Events)] /\ stream[c] \in Seq(Events)
    BY <1>2 DEF TypeOK
  <1>5. stream'[c] = Append(stream[c], e) /\ \A d \in Clients : d # c => stream'[d] = stream[d]
    BY <1>1, <1>2, <1>4
  <1>6. e \notin ToSet(stream[c]) \ {0} /\ e \notin seen[c] \ {0} /\ e \notin ToSet(queue)
    BY <1>2 DEF OnePlace
  <1>7. /\ stream'[c] \in Seq(Events) /\ Len(stream'[c]) = Len(stream[c]) + 1
        /\ ToSet(stream'[c]) = ToSet(stream[c]) \cup {e}
        /\ Distinct(stream'[c])
    <2>1. /\ Append(stream[c], e) \in Seq(Events) /\ Len(Append(stream[c], e)) = Len(stream[c]) + 1
          /\ ToSet(Append(stream[c], e)) = ToSet(stream[c]) \cup {e}
          /\ Distinct(stream[c]) /\ e \notin ToSet(stream[c]) \ {0} => Distinct(Append(stream[c], e))
      BY <1>2, <1>4, AppendFacts
    <2>2. Distinct(stream[c])
      BY <1>2 DEF OnePlace
    <2>3. QED
      BY <1>5, <1>6, <2>1, <2>2
  <1>8. TypeOK'
    <2>1. stream' \in [Clients -> Seq(Events)]
      BY <1>1, <1>2, <1>4, <1>5, <1>7
    <2>2. Len(stream'[c]) <= StreamSize
      BY <1>1, <1>4, <1>7, EventBusAssumption
    <2>3. \A d \in Clients : Len(stream'[d]) <= StreamSize
      BY <1>5, <2>2 DEF TypeOK
    <2>4. QED
      BY <1>1, <1>3, <2>1, <2>3 DEF TypeOK
  <1>9. Issued'
    <2> SUFFICES ASSUME NEW d \in Clients
                 PROVE  /\ (Handled(d) \cup ToSet(stream[d]) \cup seen[d])' \subseteq 0 .. published
                        /\ 0 \in (Handled(d) \cup ToSet(stream[d]) \cup seen[d])' => ChanClosed
      BY <1>1 DEF Issued, ChanClosed
    <2>1. (Handled(d) \cup ToSet(stream[d]) \cup seen[d])' \subseteq Handled(d) \cup ToSet(stream[d]) \cup seen[d]
      BY <1>1, <1>2, <1>3, <1>5, <1>7
    <2>2. QED
      BY <2>1 DEF Issued
  <1>10. OnePlace'
    <2> SUFFICES ASSUME NEW d \in Clients
                 PROVE  /\ ToSet(queue) \cap (Handled(d)' \cup ToSet(stream'[d]) \cup seen[d]) = {}
                        /\ Distinct(stream'[d])
                        /\ Handled(d)' \cap (ToSet(stream'[d]) \cup seen[d]) \subseteq {0}
                        /\ ToSet(stream'[d]) \cap seen[d] \subseteq {0}
      BY <1>1 DEF OnePlace
    <2>1. CASE d = c
      BY <1>2, <1>3, <1>6, <1>7, <2>1 DEF OnePlace
    <2>2. CASE d # c
      BY <1>3, <1>5, <2>2 DEF OnePlace
    <2>3. QED
      BY <2>1, <2>2
  <1>11. DropsWhenFull'
    BY <1>1, <1>3 DEF DropsWhenFull
  <1>12. QED
    BY <1>3, <1>8, <1>9, <1>10, <1>11

\* A handler gives its event up: it panics, or the channel is full again.
LEMMA GivesUpKeepsIt ==
    ASSUME BusInv, NEW h \in handlers, Becomes(h, {}),
           UNCHANGED <<published, queue, bus, dispatcher, conn, stream, seen>>,
           behind \subseteq behind', behind' \subseteq Clients,
           crash' \in {"none", "publish", "stream"}
    PROVE  BusInv'
  <1> USE DEF BusInv
  <1>1. /\ handlers' \subseteq handlers
        /\ OneHandler'
        /\ \A c \in Clients : Handled(c)' \subseteq Handled(c)
    BY HandlerEnds
  <1>2. TypeOK'
    BY <1>1 DEF TypeOK
  <1>3. Issued'
    BY <1>1 DEF Issued, ChanClosed
  <1>4. OnePlace'
    BY <1>1 DEF OnePlace
  <1>5. DropsWhenFull'
    BY <1>1 DEF DropsWhenFull
  <1>6. QED
    BY <1>1, <1>2, <1>3, <1>4, <1>5

\* Full, the first time: the handler is to make room.
LEMMA FullKeepsIt ==
    ASSUME BusInv, NEW h \in handlers, Full(h)
    PROVE  BusInv'
  <1> USE DEF BusInv
  <1>1. /\ behind' = behind \cup {h.client} /\ h.client \in Clients
        /\ UNCHANGED <<published, queue, bus, dispatcher, conn, stream, seen, crash>>
    BY DEF Full, TypeOK, Handlers
  <1>2. behind' \subseteq Clients /\ crash' \in {"none", "publish", "stream"}
    BY <1>1 DEF TypeOK
  <1>3. CASE h.at = "send"
    <2>1. Becomes(h, {[h EXCEPT !.at = "drop"]})
      BY <1>3 DEF Full
    <2>2. /\ handlers' \subseteq Handlers
          /\ OneHandler'
          /\ \A c \in Clients : Handled(c)' = Handled(c)
          /\ \A g \in handlers' : g \in handlers \/ g = [h EXCEPT !.at = "drop"]
      BY <2>1, HandlerGoesOn
    <2>3. TypeOK'
      BY <1>1, <1>2, <2>2 DEF TypeOK
    <2>4. Issued' /\ OnePlace'
      BY <1>1, <2>2 DEF Issued, OnePlace, ChanClosed
    <2>5. DropsWhenFull'
      <3>1. [h EXCEPT !.at = "drop"].client = h.client
        BY DEF TypeOK, Handlers
      <3>2. QED
        BY <1>1, <2>2, <3>1 DEF DropsWhenFull
    <2>6. QED
      BY <2>2, <2>3, <2>4, <2>5
  <1>4. CASE h.at # "send"
    <2>1. Becomes(h, {})
      BY <1>4 DEF Full
    <2>2. QED
      BY <1>1, <1>2, <2>1, GivesUpKeepsIt
  <1>5. QED
    BY <1>3, <1>4

\* DropOldest: the channel loses an event at most.
LEMMA DropOldestKeepsIt ==
    ASSUME BusInv, NEW h \in handlers, DropOldest(h)
    PROVE  BusInv'
  <1> USE DEF BusInv
  <1> DEFINE c == h.client
  <1>1. /\ Becomes(h, {[h EXCEPT !.at = "resend"]})
        /\ stream' = [stream EXCEPT ![c] = IF @ = <<>> THEN @ ELSE Tail(@)]
        /\ UNCHANGED <<published, queue, bus, dispatcher, conn, seen, behind, crash>>
    BY DEF DropOldest
  <1>2. c \in Clients /\ [h EXCEPT !.at = "resend"].at = "resend"
    BY DEF TypeOK, Handlers
  <1>3. /\ handlers' \subseteq Handlers
        /\ OneHandler'
        /\ \A d \in Clients : Handled(d)' = Handled(d)
        /\ \A g \in handlers' : g \in handlers \/ g = [h EXCEPT !.at = "resend"]
    BY <1>1, HandlerGoesOn
  <1> HIDE DEF c
  <1>4. /\ stream' \in [Clients -> Seq(Events)]
        /\ \A d \in Clients : /\ Len(stream'[d]) <= StreamSize
                              /\ ToSet(stream'[d]) \subseteq ToSet(stream[d])
                              /\ Distinct(stream'[d])
    <2>1. CASE stream[c] = <<>>
      <3>1. stream' = stream
        BY <1>1, <1>2, <2>1 DEF TypeOK
      <3>2. QED
        BY <3>1 DEF TypeOK, OnePlace
    <2>2. CASE stream[c] # <<>>
      <3>1. stream' = [stream EXCEPT ![c] = Tail(@)]
        BY <1>1, <2>2
      <3>2. /\ stream' \in [Clients -> Seq(Events)]
            /\ \A d \in Clients : Len(stream'[d]) <= StreamSize
            /\ \A d \in Clients : d # c => stream'[d] = stream[d]
            /\ ToSet(stream[c]) = {Head(stream[c])} \cup ToSet(stream'[c])
            /\ Distinct(stream'[c])
        BY <1>2, <2>2, <3>1, StreamTail
      <3>3. QED
        BY <3>2 DEF OnePlace
    <2>3. QED
      BY <2>1, <2>2
  <1>5. TypeOK'
    BY <1>1, <1>3, <1>4 DEF TypeOK
  <1>6. Issued'
    BY <1>1, <1>3, <1>4 DEF Issued, ChanClosed
  <1>7. OnePlace'
    BY <1>1, <1>3, <1>4 DEF OnePlace
  <1>8. DropsWhenFull'
    BY <1>1, <1>2, <1>3 DEF DropsWhenFull
  <1>9. QED
    BY <1>3, <1>5, <1>6, <1>7, <1>8

\* Write: the oldest event goes from the channel to the client, or nowhere.
LEMMA WriteKeepsIt ==
    ASSUME BusInv, NEW c \in Clients, Write(c)
    PROVE  BusInv'
  <1> USE DEF BusInv
  <1> DEFINE e == Head(stream[c])
  <1>1. /\ stream[c] # <<>> /\ stream' = [stream EXCEPT ![c] = Tail(@)]
        /\ seen' = [seen EXCEPT ![c] = @ \cup ({e} \ Unwritable)]
        /\ UNCHANGED <<published, queue, bus, dispatcher, conn, handlers, behind, crash>>
    BY DEF Write
  <1>2. /\ stream' \in [Clients -> Seq(Events)]
        /\ \A d \in Clients : Len(stream'[d]) <= StreamSize
        /\ \A d \in Clients : d # c => stream'[d] = stream[d]
        /\ e \in Events
        /\ ToSet(stream[c]) = {e} \cup ToSet(stream'[c])
        /\ Distinct(stream'[c]) /\ e \notin ToSet(stream'[c]) \ {0}
    BY <1>1, StreamTail
  <1> HIDE DEF e
  <1>3. seen \in [Clients -> SUBSET Events]
    BY DEF TypeOK
  <1>4. /\ seen'[c] \subseteq seen[c] \cup {e} /\ \A d \in Clients : d # c => seen'[d] = seen[d]
        /\ seen' \in [Clients -> SUBSET Events]
    BY <1>1, <1>2, <1>3
  <1>5. \A d \in Clients : Handled(d)' = Handled(d)
    BY <1>1 DEF Handled
  <1>6. TypeOK'
    BY <1>1, <1>2, <1>4 DEF TypeOK
  <1>7. Issued'
    <2> SUFFICES ASSUME NEW d \in Clients
                 PROVE  /\ (Handled(d) \cup ToSet(stream[d]) \cup seen[d])' \subseteq 0 .. published
                        /\ 0 \in (Handled(d) \cup ToSet(stream[d]) \cup seen[d])' => ChanClosed
      BY <1>1 DEF Issued, ChanClosed
    <2>1. (Handled(d) \cup ToSet(stream[d]) \cup seen[d])' \subseteq Handled(d) \cup ToSet(stream[d]) \cup seen[d]
      BY <1>2, <1>4, <1>5
    <2>2. QED
      BY <2>1 DEF Issued
  <1>8. OnePlace'
    <2> SUFFICES ASSUME NEW d \in Clients
                 PROVE  /\ ToSet(queue) \cap (Handled(d) \cup ToSet(stream'[d]) \cup seen'[d]) = {}
                        /\ Distinct(stream'[d])
                        /\ Handled(d) \cap (ToSet(stream'[d]) \cup seen'[d]) \subseteq {0}
                        /\ ToSet(stream'[d]) \cap seen'[d] \subseteq {0}
      BY <1>1, <1>5 DEF OnePlace
    <2>1. CASE d = c
      BY <1>2, <1>4, <2>1 DEF OnePlace
    <2>2. CASE d # c
      BY <1>2, <1>4, <2>2 DEF OnePlace
    <2>3. QED
      BY <2>1, <2>2
  <1>9. OneHandler' /\ DropsWhenFull'
    BY <1>1 DEF OneHandler, DropsWhenFull
  <1>10. QED
    BY <1>6, <1>7, <1>8, <1>9

\* What moves neither an event nor a handler.
Outside ==
    \/ DispatcherEnds \/ CloseBegins \/ CloseChannel \/ CloseReturns
    \/ \E c \in Clients : Connect(c) \/ CancelSubscription(c) \/ CloseStream(c)

\* The channel of the bus, once closed, stays closed.
LEMMA OutsideKeepsIt ==
    ASSUME BusInv, Outside \/ UNCHANGED vars
    PROVE  BusInv'
  <1> USE DEF BusInv
  <1>1. /\ UNCHANGED <<published, queue, stream, seen, handlers, behind, crash>>
        /\ ChanClosed => ChanClosed'
    BY DEF Outside, DispatcherEnds, CloseBegins, CloseChannel, CloseReturns,
           Connect, CancelSubscription, CloseStream, ChanClosed, vars
  <1>2. /\ bus' \in {"open", "canceled", "closed", "returned"}
        /\ dispatcher' \in {"running", "ended"}
    BY DEF Outside, DispatcherEnds, CloseBegins, CloseChannel, CloseReturns,
           Connect, CancelSubscription, CloseStream, TypeOK, vars
  <1>3. conn' \in [Clients -> {"new", "open", "canceled", "gone"}]
    BY DEF Outside, DispatcherEnds, CloseBegins, CloseChannel, CloseReturns,
           Connect, CancelSubscription, CloseStream, TypeOK, vars
  <1>4. TypeOK'
    BY <1>1, <1>2, <1>3 DEF TypeOK
  <1>5. \A c \in Clients : Handled(c)' = Handled(c)
    BY <1>1 DEF Handled
  <1>6. Issued'
    BY <1>1, <1>5 DEF Issued
  <1>7. OneHandler' /\ OnePlace' /\ DropsWhenFull'
    BY <1>1, <1>5 DEF OneHandler, OnePlace, DropsWhenFull
  <1>8. QED
    BY <1>4, <1>6, <1>7

\* The invariant holds of a new bus ...
LEMMA BusInitInv == Init => BusInv
  <1> SUFFICES ASSUME Init PROVE BusInv
    OBVIOUS
  <1> USE DEF Init
  <1>1. /\ <<>> \in Seq(Events) /\ <<>> \in Seq(1 .. MaxEvents) /\ Len(<<>>) = 0
        /\ ToSet(<<>>) = {} /\ Distinct(<<>>)
    BY DEF ToSet, Distinct
  <1>2. \A c \in Clients : stream[c] = <<>> /\ seen[c] = {} /\ Handled(c) = {}
    BY DEF Handled
  <1>3. TypeOK
    <2>1. 0 \in Events /\ Len(queue) <= BusSize
      BY <1>1, EventBusAssumption DEF Events
    <2>2. stream \in [Clients -> Seq(Events)] /\ \A c \in Clients : Len(stream[c]) <= StreamSize
      BY <1>1, <1>2, EventBusAssumption
    <2>3. QED
      BY <1>1, <2>1, <2>2 DEF TypeOK
  <1>4. Issued
    BY <1>1, <1>2 DEF Issued
  <1>5. OneHandler /\ OnePlace /\ DropsWhenFull
    BY <1>1, <1>2 DEF OneHandler, OnePlace, DropsWhenFull
  <1>6. QED
    BY <1>3, <1>4, <1>5 DEF BusInv

\* ... and always.
LEMMA BusAlwaysInv == Spec => []BusInv
  <1>1. BusInv /\ [Next]_vars => BusInv'
    <2> SUFFICES ASSUME BusInv, [Next]_vars PROVE BusInv'
      OBVIOUS
    <2>1. ASSUME NEW h \in handlers, Handle(h) PROVE BusInv'
      <3>1. CASE SendOnClosed(h)
        BY <3>1, GivesUpKeepsIt DEF SendOnClosed, BusInv, TypeOK
      <3>2. QED
        BY <2>1, <3>1, SendKeepsIt, FullKeepsIt, DropOldestKeepsIt DEF Handle
    <2>2. QED
      BY <2>1, PublishKeepsIt, DispatchKeepsIt, DispatchZeroKeepsIt, WriteKeepsIt, OutsideKeepsIt
      DEF Next, Outside
  <1>2. QED
    BY <1>1, BusInitInv, PTL DEF Spec

-----------------------------------------------------------------------------
(* The theorems. *)

\* All variables stay in their types; no channel holds more than its size.
THEOREM TypeCorrect == Spec => []TypeOK
  <1>1. BusInv => TypeOK
    BY DEF BusInv
  <1>2. QED
    BY <1>1, BusAlwaysInv, PTL

\* No client is shown an event twice, and the zero event only once the bus is
\* closed, however many handlers race and however often they make room.
THEOREM ShownOnceHolds == Spec => []ShownOnce
  <1>1. BusInv => ShownOnce
    BY DEF BusInv, OnePlace, Issued, ShownOnce
  <1>2. QED
    BY <1>1, BusAlwaysInv, PTL

\* Where a pending event may be.
LEMMA PendingIs ==
    ASSUME NEW c \in Clients
    PROVE  /\ Pending(c) = ToSet(queue) \cup Handled(c) \cup ToSet(stream[c]) \cup seen[c]
           /\ Pending(c)' = (ToSet(queue) \cup Handled(c) \cup ToSet(stream[c]) \cup seen[c])'
  BY DEF Pending, Handled

\* The steps of the bus lose nothing for a client that is there.
LEMMA BusKeeps ==
    ASSUME BusInv, Publish \/ Dispatch \/ DispatchZero \/ Outside,
           NEW c \in Clients, conn[c] = "open"
    PROVE  Pending(c) \subseteq Pending(c)'
  <1>1. UNCHANGED <<stream, seen>>
    BY DEF Publish, Dispatch, DispatchZero, Outside, DispatcherEnds, CloseBegins, CloseChannel,
           CloseReturns, Connect, CancelSubscription, CloseStream
  <1>2. TypeOK /\ OneHandler /\ queue \in Seq(1 .. MaxEvents)
    BY DEF BusInv, TypeOK
  <1>3. CASE Publish
    <2>1. handlers' = handlers /\ (queue' = queue \/ queue' = Append(queue, published'))
      BY <1>3 DEF Publish
    <2>2. \A i \in DOMAIN queue : i \in DOMAIN Append(queue, published') /\ Append(queue, published')[i] = queue[i]
      BY <1>2
    <2>3. ToSet(queue) \subseteq ToSet(queue')
      BY <2>1, <2>2 DEF ToSet
    <2>4. Handled(c)' = Handled(c)
      BY <2>1 DEF Handled
    <2>5. QED
      BY <1>1, <2>3, <2>4, PendingIs
  <1>4. CASE Dispatch
    <2> DEFINE e == Head(queue)
    <2>1. queue # <<>> /\ queue' = Tail(queue) /\ handlers' = handlers \cup Spawn(e)
      BY <1>4 DEF Dispatch
    <2>2. e \in 1 .. MaxEvents /\ ToSet(queue) = {e} \cup ToSet(queue')
      BY <1>2, <2>1, TailFacts
    <2> HIDE DEF e
    <2>3. e \in Events /\ \A d \in Clients : e \notin Handled(d)
      BY <2>2 DEF BusInv, OnePlace, Events
    <2>4. Handled(c) \subseteq Handled(c)' /\ e \in Handled(c)'
      BY <1>2, <2>1, <2>3, Spawned
    <2>5. QED
      BY <1>1, <2>2, <2>4, PendingIs
  <1>5. CASE DispatchZero
    <2>1. queue' = queue /\ handlers' = handlers \cup Spawn(0)
      BY <1>5 DEF DispatchZero
    <2>2. Handled(c) \subseteq Handled(c)'
      BY <2>1 DEF Handled
    <2>3. QED
      BY <1>1, <2>1, <2>2, PendingIs
  <1>6. CASE Outside
    <2>1. queue' = queue /\ handlers' = handlers
      BY <1>6 DEF Outside, DispatcherEnds, CloseBegins, CloseChannel, CloseReturns,
                  Connect, CancelSubscription, CloseStream
    <2>2. QED
      BY <1>1, <2>1, PendingIs DEF Handled
  <1>7. QED
    BY <1>3, <1>4, <1>5, <1>6

\* A handler of the client loses an event only with a full channel, or with
\* the process.
LEMMA HandlerKeeps ==
    ASSUME BusInv, NEW h \in handlers, Handle(h), NEW c \in Clients, c \notin behind', Alive'
    PROVE  Pending(c) \subseteq Pending(c)'
  <1>1. /\ TypeOK /\ OneHandler /\ h.client \in Clients /\ h.event \in Events
        /\ stream \in [Clients -> Seq(Events)]
    BY DEF BusInv, TypeOK, Handlers
  <1>2. queue' = queue /\ seen' = seen
    BY DEF Handle, SendOnClosed, Send, Full, DropOldest
  <1>3. CASE Send(h)
    <2>1. Becomes(h, {}) /\ stream' = [stream EXCEPT ![h.client] = Append(@, h.event)]
      BY <1>3 DEF Send
    <2>2. /\ Handled(c) \subseteq Handled(c)' \cup {h.event}
          /\ c # h.client => Handled(c)' = Handled(c) /\ stream'[c] = stream[c]
      BY <1>1, <2>1, HandlerEnds
    <2>3. CASE c = h.client
      <3>1. stream'[c] = Append(stream[c], h.event) /\ stream[c] \in Seq(Events)
        BY <1>1, <2>1, <2>3
      <3>2. ToSet(stream'[c]) = ToSet(stream[c]) \cup {h.event}
        BY <1>1, <3>1, AppendFacts
      <3>3. QED
        BY <1>2, <2>2, <3>2, PendingIs
    <2>4. QED
      BY <1>2, <2>2, <2>3, PendingIs
  <1>4. CASE Full(h)
    <2>1. c # h.client /\ stream' = stream
      BY <1>4 DEF Full
    <2>2. handlers \ {h} \subseteq handlers'
      BY <1>4 DEF Full, Becomes
    <2>3. Handled(c) \subseteq Handled(c)'
      BY <2>1, <2>2 DEF Handled
    <2>4. QED
      BY <1>2, <2>1, <2>3, PendingIs
  <1>5. CASE DropOldest(h)
    <2>1. h.at = "drop" /\ behind' = behind /\ handlers \ {h} \subseteq handlers'
      BY <1>5 DEF DropOldest, Becomes
    <2>2. c # h.client
      BY <2>1 DEF BusInv, DropsWhenFull
    <2>3. stream'[c] = stream[c]
      BY <1>1, <1>5, <2>2 DEF DropOldest
    <2>4. Handled(c) \subseteq Handled(c)'
      BY <2>1, <2>2 DEF Handled
    <2>5. QED
      BY <1>2, <2>3, <2>4, PendingIs
  <1>6. ~SendOnClosed(h)
    BY DEF SendOnClosed, Alive
  <1>7. QED
    BY <1>3, <1>4, <1>5, <1>6 DEF Handle

\* What leaves the channel is shown, unless it cannot be encoded.
LEMMA WriteKeeps ==
    ASSUME BusInv, NEW d \in Clients, Write(d), NEW c \in Clients
    PROVE  Pending(c) \ Unwritable \subseteq Pending(c)'
  <1> DEFINE e == Head(stream[d])
  <1>1. /\ stream[d] # <<>> /\ stream' = [stream EXCEPT ![d] = Tail(@)]
        /\ seen' = [seen EXCEPT ![d] = @ \cup ({e} \ Unwritable)]
        /\ queue' = queue /\ handlers' = handlers
    BY DEF Write
  <1>2. /\ c # d => stream'[c] = stream[c]
        /\ ToSet(stream[d]) = {e} \cup ToSet(stream'[d])
    BY <1>1, StreamTail
  <1> HIDE DEF e
  <1>3. seen'[d] = seen[d] \cup ({e} \ Unwritable) /\ (c # d => seen'[c] = seen[c])
    BY <1>1 DEF BusInv, TypeOK
  <1>4. Handled(c)' = Handled(c)
    BY <1>1 DEF Handled
  <1>5. QED
    BY <1>1, <1>2, <1>3, <1>4, PendingIs

\* An event that can be encoded and is on its way to a client that is there
\* stays so, or is shown to it, on every step, although every event has
\* goroutines of its own; only a full channel or the end of the process loses
\* one.
THEOREM KeptUntilShownHolds == Spec => KeptUntilShown
  <1> DEFINE Kept == \A c \in Clients :
                        \/ Pending(c) \ Unwritable \subseteq Pending(c)'
                        \/ c \in behind' \/ conn[c] # "open" \/ ~Alive'
  <1>1. ASSUME BusInv, Next PROVE Kept
    <2> SUFFICES ASSUME NEW c \in Clients, c \notin behind', conn[c] = "open", Alive'
                 PROVE  Pending(c) \ Unwritable \subseteq Pending(c)'
      OBVIOUS
    <2>1. QED
      BY <1>1, BusKeeps, HandlerKeeps, WriteKeeps DEF Next, Outside
  <1>2. BusInv /\ [Next]_vars => [Kept]_vars
    BY <1>1
  <1>3. QED
    BY <1>2, BusAlwaysInv, PTL DEF Spec, KeptUntilShown
=============================================================================
