------------------------------ MODULE EventBus ------------------------------
(***************************************************************************)
(* internal/eventbus: ChannelEventBus (Publish, the dispatcher, one        *)
(* goroutine per event and subscriber, Close), with the dashboard's SSE    *)
(* streams (internal/monitoring/api/events) as its subscribers: a handler  *)
(* puts the event into the stream's bounded channel and makes room by      *)
(* dropping the oldest.                                                    *)
(*                                                                         *)
(* Events are numbered in the order of their publication; 0 is the zero    *)
(* BusEvent that a closed channel yields.  Filters, the replay of old      *)
(* events on connection, throttling (configured nowhere), critical         *)
(* subscribers (the live engine's one never fails) and the 30 s limit      *)
(* (these handlers never block) are left out.                              *)
(***************************************************************************)
EXTENDS Integers, Sequences, SequencesExt

CONSTANTS
    Clients,        \* SSE connections
    BusSize,        \* bufferSize of the bus
    StreamSize,     \* capacity of a client's channel
    MaxEvents,      \* bound: events published
    Unwritable      \* events json.Marshal cannot encode

ASSUME EventBusAssumption ==
    /\ BusSize \in Nat \ {0} /\ StreamSize \in Nat \ {0} /\ MaxEvents \in Nat
    /\ Unwritable \subseteq 1 .. MaxEvents

VARIABLES
    published,      \* events published so far
    queue,          \* b.eventChan
    bus,            \* how far Close is
    dispatcher,     \* "running" or "ended"
    conn,           \* how far each client's ServeHTTP is
    stream,         \* client.events
    seen,           \* the events written to the client
    handlers,       \* handler goroutines
    behind,         \* history: clients whose channel was full for an event
    crash           \* the panic that ended the process, if any

vars == <<published, queue, bus, dispatcher, conn, stream, seen, handlers, behind, crash>>

Events == 0 .. MaxEvents
Handlers == [client : Clients, event : Events, at : {"send", "drop", "resend"}]

TypeOK ==
    /\ published \in Events
    /\ queue \in Seq(1 .. MaxEvents) /\ Len(queue) <= BusSize
    /\ bus \in {"open", "canceled", "closed", "returned"}
    /\ dispatcher \in {"running", "ended"}
    /\ conn \in [Clients -> {"new", "open", "canceled", "gone"}]
    /\ stream \in [Clients -> Seq(Events)] /\ \A c \in Clients : Len(stream[c]) <= StreamSize
    /\ seen \in [Clients -> SUBSET Events]
    /\ handlers \subseteq Handlers
    /\ behind \subseteq Clients
    /\ crash \in {"none", "publish", "stream"}

Init ==
    /\ published = 0 /\ queue = <<>> /\ bus = "open" /\ dispatcher = "running"
    /\ conn = [c \in Clients |-> "new"]
    /\ stream = [c \in Clients |-> <<>>] /\ seen = [c \in Clients |-> {}]
    /\ handlers = {} /\ behind = {} /\ crash = "none"

Alive == crash = "none"
ChanClosed == bus \in {"closed", "returned"}
Canceled == bus # "open"

-----------------------------------------------------------------------------
\* Publish: the event is taken if there is room, and may be dropped once the
\* bus is cancelled.  On the closed channel the send is as ready as
\* ctx.Done, and panics.
Publish ==
    /\ Alive /\ published < MaxEvents
    /\ published' = published + 1
    /\ \/ /\ ~ChanClosed /\ Len(queue) < BusSize
          /\ queue' = Append(queue, published')
          /\ UNCHANGED crash
       \/ /\ Canceled \/ Len(queue) = BusSize
          /\ UNCHANGED <<queue, crash>>
       \/ /\ ChanClosed
          /\ crash' = "publish"
          /\ UNCHANGED queue
    /\ UNCHANGED <<bus, dispatcher, conn, stream, seen, handlers, behind>>

\* A goroutine for every subscriber.
Spawn(e) == [client : {c \in Clients : conn[c] = "open"}, event : {e}, at : {"send"}]

\* Slip: the event stays in the channel.
DispatchTwice ==
    /\ Alive /\ dispatcher = "running" /\ queue # <<>>
    /\ handlers' = handlers \cup Spawn(Head(queue))
    /\ queue' \in {queue, Tail(queue)}
    /\ UNCHANGED <<published, bus, dispatcher, conn, stream, seen, behind, crash>>

Dispatch ==
    /\ Alive /\ dispatcher = "running" /\ queue # <<>>
    /\ handlers' = handlers \cup Spawn(Head(queue))
    /\ queue' = Tail(queue)
    /\ UNCHANGED <<published, bus, dispatcher, conn, stream, seen, behind, crash>>

\* The closed and empty channel yields zero events until ctx.Done is chosen.
\* (Bound: no further one once a client has been shown one.)
DispatchZero ==
    /\ Alive /\ dispatcher = "running" /\ queue = <<>> /\ ChanClosed
    /\ \A c \in Clients : 0 \notin seen[c] \cup ToSet(stream[c])
    /\ handlers' = handlers \cup Spawn(0)
    /\ UNCHANGED <<published, queue, bus, dispatcher, conn, stream, seen, behind, crash>>

\* Slip: ctx.Done is looked at only when no event is ready.
DispatcherEndsWhenIdle ==
    /\ Alive /\ dispatcher = "running" /\ Canceled
    /\ queue = <<>> /\ ~ChanClosed
    /\ dispatcher' = "ended"
    /\ UNCHANGED <<published, queue, bus, conn, stream, seen, handlers, behind, crash>>

DispatcherEnds ==
    /\ Alive /\ dispatcher = "running" /\ Canceled
    /\ dispatcher' = "ended"
    /\ UNCHANGED <<published, queue, bus, conn, stream, seen, handlers, behind, crash>>

-----------------------------------------------------------------------------
\* The handler of an SSE stream, one select statement at a time.
Becomes(h, hs) == handlers' = (handlers \ {h}) \cup hs

\* A panic here is in the inner goroutine of handleEvent, which the recover
\* around it does not reach.
SendOnClosed(h) ==
    /\ Alive /\ h.at \in {"send", "resend"} /\ conn[h.client] = "gone"
    /\ crash' = "stream"
    /\ Becomes(h, {})
    /\ UNCHANGED <<published, queue, bus, dispatcher, conn, stream, seen, behind>>

\* client.events <- event succeeds.
Send(h) ==
    /\ Alive /\ h.at \in {"send", "resend"} /\ conn[h.client] # "gone"
    /\ Len(stream[h.client]) < StreamSize
    /\ stream' = [stream EXCEPT ![h.client] = Append(@, h.event)]
    /\ Becomes(h, {})
    /\ UNCHANGED <<published, queue, bus, dispatcher, conn, seen, behind, crash>>

\* Slip: the handlers of one client take turns, and who finds another one at
\* work leaves.
FullOrBusy(h) ==
    /\ Alive /\ h.at \in {"send", "resend"} /\ conn[h.client] # "gone"
    /\ \/ Len(stream[h.client]) = StreamSize /\ behind' = behind \cup {h.client}
       \/ (\E g \in handlers \ {h} : g.client = h.client) /\ UNCHANGED behind
    /\ Becomes(h, {})
    /\ UNCHANGED <<published, queue, bus, dispatcher, conn, stream, seen, crash>>

\* The channel is full: make room, or, the second time, give up the event.
Full(h) ==
    /\ Alive /\ h.at \in {"send", "resend"} /\ conn[h.client] # "gone"
    /\ Len(stream[h.client]) = StreamSize
    /\ Becomes(h, IF h.at = "send" THEN {[h EXCEPT !.at = "drop"]} ELSE {})
    /\ behind' = behind \cup {h.client}
    /\ UNCHANGED <<published, queue, bus, dispatcher, conn, stream, seen, crash>>

\* The oldest event goes, if the client has not taken it meanwhile.
DropOldest(h) ==
    /\ Alive /\ h.at = "drop"
    /\ stream' = [stream EXCEPT ![h.client] = IF @ = <<>> THEN @ ELSE Tail(@)]
    /\ Becomes(h, {[h EXCEPT !.at = "resend"]})
    /\ UNCHANGED <<published, queue, bus, dispatcher, conn, seen, behind, crash>>

Handle(h) == SendOnClosed(h) \/ Send(h) \/ Full(h) \/ DropOldest(h)

-----------------------------------------------------------------------------
\* ServeHTTP: subscribe, stream, and when the client has gone cancel the
\* subscription, then close the channel.
Connect(c) ==
    /\ Alive /\ conn[c] = "new"
    /\ conn' = [conn EXCEPT ![c] = "open"]
    /\ UNCHANGED <<published, queue, bus, dispatcher, stream, seen, handlers, behind, crash>>

\* The next event is taken and written; one that cannot be encoded is taken
\* and passed over.
Write(c) ==
    /\ Alive /\ conn[c] = "open" /\ stream[c] # <<>>
    /\ seen' = [seen EXCEPT ![c] = @ \cup ({Head(stream[c])} \ Unwritable)]
    /\ stream' = [stream EXCEPT ![c] = Tail(@)]
    /\ UNCHANGED <<published, queue, bus, dispatcher, conn, handlers, behind, crash>>

CancelSubscription(c) ==
    /\ Alive /\ conn[c] = "open"
    /\ conn' = [conn EXCEPT ![c] = "canceled"]
    /\ UNCHANGED <<published, queue, bus, dispatcher, stream, seen, handlers, behind, crash>>

CloseStream(c) ==
    /\ Alive /\ conn[c] = "canceled"
    /\ conn' = [conn EXCEPT ![c] = "gone"]
    /\ UNCHANGED <<published, queue, bus, dispatcher, stream, seen, handlers, behind, crash>>

\* Close: cancel, close the channel, wait for the dispatcher.
CloseBegins ==
    /\ Alive /\ bus = "open" /\ bus' = "canceled"
    /\ UNCHANGED <<published, queue, dispatcher, conn, stream, seen, handlers, behind, crash>>

CloseChannel ==
    /\ Alive /\ bus = "canceled" /\ bus' = "closed"
    /\ UNCHANGED <<published, queue, dispatcher, conn, stream, seen, handlers, behind, crash>>

CloseReturns ==
    /\ Alive /\ bus = "closed" /\ dispatcher = "ended" /\ bus' = "returned"
    /\ UNCHANGED <<published, queue, dispatcher, conn, stream, seen, handlers, behind, crash>>

Next ==
    \/ Publish \/ Dispatch \/ DispatchZero \/ DispatcherEnds
    \/ \E h \in handlers : Handle(h)
    \/ \E c \in Clients : Connect(c) \/ Write(c) \/ CancelSubscription(c) \/ CloseStream(c)
    \/ CloseBegins \/ CloseChannel \/ CloseReturns

Spec == Init /\ [][Next]_vars

\* Goroutines go on; select does not pass over a ready case for ever.
\* Nothing is assumed of publishers and of what the clients read.
FairSpec ==
    /\ Spec
    /\ WF_vars(Dispatch) /\ SF_vars(DispatcherEnds) /\ WF_vars(CloseChannel \/ CloseReturns)
    /\ WF_vars(\E h \in handlers : Handle(h))

-----------------------------------------------------------------------------
\* An event that the bus has accepted reaches the channel of every client that
\* is there and stays, although every event has a goroutine of its own: it is
\* lost only to a client whose channel was full, or by the end of the bus.
Delivered ==
    \A c \in Clients, e \in 1 .. MaxEvents :
        conn[c] = "open" /\ Contains(queue, e) ~>
            \/ e \in seen[c] \cup ToSet(stream[c])
            \/ c \in behind \/ conn[c] # "open" \/ Canceled \/ ~Alive

\* What is left of it on every step: an event that is on its way to a client
\* (in the bus, with a handler, in the channel) or was shown to it stays so,
\* if it can be encoded; nothing tells the client of one that cannot.
Pending(c) ==
    ToSet(queue) \cup {h.event : h \in {g \in handlers : g.client = c}} \cup ToSet(stream[c]) \cup seen[c]

KeptUntilShown ==
    [][\A c \in Clients :
          \/ Pending(c) \ Unwritable \subseteq Pending(c)'
          \/ c \in behind' \/ conn[c] # "open" \/ ~Alive']_vars

\* No event is in a client's channel twice, but for zero events.
Distinct(s) == \A i, j \in DOMAIN s : i # j /\ s[i] = s[j] => s[i] = 0

\* No client is shown an event twice, neither by racing handlers nor by the
\* dropping of old events; the zero event only once the bus is closed.
ShownOnce ==
    \A c \in Clients :
        /\ Distinct(stream[c])
        /\ seen[c] \cap ToSet(stream[c]) \subseteq {0}
        /\ 0 \in seen[c] \cup ToSet(stream[c]) => ChanClosed

\* Close returns, although the closed channel never runs dry.
CloseEnds == bus = "canceled" ~> bus = "returned" \/ ~Alive

\* handleEvent gives every handler "panic recovery" (doc.go): no handler of a
\* stream takes the process down.
HandlerPanicsRecovered == crash # "stream"
=============================================================================
