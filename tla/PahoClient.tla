----------------------------- MODULE PahoClient -----------------------------
(***************************************************************************)
(* The browser's MQTT client (public/mqttws31.js, ClientImpl) used through *)
(* the wrapper utils/mqtt.js and by the pages' start/stopLiveUpdates, over *)
(* a socket that may be cut, to a broker that keeps the MQTT protocol.     *)
(*                                                                         *)
(* A JavaScript event handler runs to its end and calls other methods of   *)
(* the client on the way, so a handler is an operator from the client's    *)
(* record to its record, composed in the order of the code; an exception   *)
(* is the field "thrown", which every later operation looks at.            *)
(***************************************************************************)
EXTENDS MqttWire, FiniteSets

CONSTANTS
  OutMsgs,               \* the messages the page sends, as their one-byte payloads
  InMsgs,                \* the messages others publish
  InId,                  \* the identifiers the broker gives those
  Unreadable,            \* the payloads on which the page's handler throws
  MaxMessageIdentifier,  \* maxMessageIdentifier: 65536 in the code
  Options,               \* connect options, and the quality of the messages
  Samples,               \* messages the wire format is checked on
  Cuts,                  \* after how many bytes a packet may be split
  MaxConnects,           \* bound on connect()
  MaxFaults              \* bound on cuts, reloads, refusals and ping timers

\* Message identifiers: sixteen bits on the wire, and 0 is none.
Identifiers == 1 .. 65535

ASSUME PahoAssumption ==
  /\ MaxMessageIdentifier \in Nat \ {0}
  /\ OutMsgs \cup InMsgs \cup Unreadable \subseteq 0 .. 255
  /\ Options \subseteq [mqttVersion : {0, 3, 4, 5}, cleanSession : {"undefined", "true", "false"},
                       hosts : Nat, ports : Nat, outQos : 0 .. 2, inQos : 0 .. 2]
  /\ Cuts \subseteq Nat
  /\ InId \in [InMsgs -> Identifiers]

VARIABLES
  c,         \* the ClientImpl object, its connect options and localStorage
  toClient,  \* chunks of bytes on their way to the client
  b,         \* the broker and its session with this client
  app,       \* what the page asked for and was told
  misframed  \* whether a connection began with part of a packet in the buffer

vars == <<c, toClient, b, app, misframed>>

Topic == <<115, 233>>     \* a filter with a character outside ASCII

Put(f, k, v)  == [x \in DOMAIN f \cup {k} |-> IF x = k THEN v ELSE f[x]]
Drop(f, k)    == [x \in DOMAIN f \ {k} |-> f[x]]
NoEntries     == [x \in {} |-> x]

\* A finite set of numbers as a sequence, the least first.
Ascending(S) ==
  [k \in 1 .. Cardinality(S) |-> CHOOSE x \in S : Cardinality({y \in S : y < x}) = k - 1]

\* Client.connect: what it refuses, and the defaults it writes into the
\* options.  An undefined version is 0 here; hosts without a port each (as
\* many ports as hosts) are refused.
Accepted(options) ==
  /\ options.mqttVersion \in {0, 3, 4}
  /\ options.hosts > 0 => options.ports = options.hosts
Settled(options) ==
  [clean    |-> options.cleanSession # "false",
   explicit |-> options.mqttVersion # 0,
   version  |-> IF options.mqttVersion = 0 THEN 4 ELSE options.mqttVersion,
   uris     |-> options.hosts, accepted |-> Accepted(options)]

\* A Pinger: its timer, and whether it was reset since it last pinged.
NewPinger == [armed |-> FALSE, isReset |-> FALSE]
PingerReset(p) == [armed |-> TRUE, isReset |-> TRUE]

\* What the constructor sets; the two maps come from localStorage.
NewClient(sent, received, store) ==
  [socket |-> "none", connected |-> FALSE, hostIndex |-> 0, version |-> 4,
   queue |-> <<>>, notify |-> FALSE, sent |-> sent, received |-> received,
   identifier |-> 1, sequence |-> 0, buffer |-> <<>>,
   connectTimer |-> FALSE, sendPinger |-> NewPinger, receivePinger |-> NewPinger,
   store |-> store, out |-> <<>>, thrown |-> FALSE, cut |-> FALSE, calls |-> <<>>]

Call(cl, name, m) == [cl EXCEPT !.calls = Append(@, [name |-> name, message |-> m])]
NoMessage == <<>>

\* A callback that is given a message.  Both of them end in the page's
\* onMessageArrived, which throws on what it cannot read (JSON.parse), if they
\* get that far: an answer that finds a SUBSCRIBE brings no payloadMessage.
HandlerThrows(m) == m.type # Code("PUBLISH") \/ \E n \in Unreadable : m.payload = <<n>>
Handed(cl, name, m) == [Call(cl, name, m) EXCEPT !.thrown = HandlerThrows(m)]

-----------------------------------------------------------------------------
(***************************************************************************)
(* Connecting and disconnecting.                                           *)
(***************************************************************************)
\* A socket and two new pingers; the connect timer starts.
DoConnect(cl) ==
  [cl EXCEPT !.connected = FALSE, !.socket = "connecting", !.out = <<>>,
             !.sendPinger = NewPinger, !.receivePinger = NewPinger,
             !.connectTimer = TRUE]

\* The connection is lost after it was made.
ConnectionLost(cl) == Call([cl EXCEPT !.connected = FALSE], "lost", NoMessage)

\* Version 4 was refused or not answered: from the first host, with 3.
MutantOlderVersion(cl) == DoConnect([cl EXCEPT !.hostIndex = 0])
OlderVersion(cl) == DoConnect([cl EXCEPT !.version = 3, !.hostIndex = 0])

\* Timers, queue and socket go; what follows depends on how far the
\* connection had come: the next host, the lost callback, version 3 of the
\* protocol, or the failure callback.
Disconnected(cl) ==
  LET off == [cl EXCEPT !.sendPinger.armed = FALSE, !.receivePinger.armed = FALSE,
                        !.connectTimer = FALSE, !.queue = <<>>, !.notify = FALSE,
                        !.socket = "none", !.cut = TRUE]
  IN IF app.uris > 0 /\ off.hostIndex < app.uris - 1
     THEN DoConnect([off EXCEPT !.hostIndex = @ + 1])
     ELSE IF off.connected
     THEN ConnectionLost(off)
     ELSE IF off.version = 4 /\ ~app.explicit THEN OlderVersion(off)
     ELSE Call(off, "failure", NoMessage)

\* WebSocket.send throws on a socket that is gone or not yet open.
SocketSend(cl, m) ==
  IF cl.socket # "open" THEN [cl EXCEPT !.thrown = TRUE]
  ELSE [cl EXCEPT !.out = Append(@, m), !.sendPinger = PingerReset(@)]

\* One turn of the loop over the queue.  _notify_msg_sent is indexed by the
\* message turned into a string, the same string for every message: the
\* first message sent after disconnect() runs the callback.
SendNext(cl, m) ==
  IF cl.thrown THEN cl
  ELSE LET s == SocketSend(cl, m)
       IN IF ~s.thrown /\ s.notify
          THEN [Disconnected(s) EXCEPT !.notify = FALSE] ELSE s

ProcessQueue(cl) == FoldLeft(SendNext, [cl EXCEPT !.queue = <<>>], cl.queue)

Schedule(cl, m) ==
  LET queued == [cl EXCEPT !.queue = Append(@, m)]
  IN IF cl.thrown THEN cl
     ELSE IF cl.connected THEN ProcessQueue(queued) ELSE queued

\* An unused identifier, searched upwards without a bound: the counter returns
\* to 1 only from the maximum itself.  For a PUBLISH, a copy in localStorage; the
\* sequence number of anything else stays undefined (0 here).
Stored(entry) == [m |-> entry.m, pubRec |-> entry.pubRec, sequence |-> entry.sequence]

RequiresAck(cl, m) ==
  LET free  == cl.identifier .. cl.identifier + Cardinality(DOMAIN cl.sent)
                 \ DOMAIN cl.sent
      id    == CHOOSE i \in free : \A j \in free : i <= j
      isPublish == m.type = Code("PUBLISH")
      entry == [m |-> [m EXCEPT !.id = id], pubRec |-> FALSE,
                sequence |-> IF isPublish THEN cl.sequence + 1 ELSE 0]
  IN IF cl.thrown THEN cl
     ELSE IF Cardinality(DOMAIN cl.sent) > MaxMessageIdentifier
     THEN [cl EXCEPT !.thrown = TRUE]
     ELSE [cl EXCEPT
             !.sent = Put(@, id, entry),
             !.sequence = IF isPublish THEN @ + 1 ELSE @,
             !.store.sent = IF isPublish THEN Put(@, id, Stored(entry)) ELSE @,
             !.identifier = IF id = MaxMessageIdentifier THEN 1 ELSE id]

\* The identifier RequiresAck has just given.
LastId(before, after) == CHOOSE i \in DOMAIN after.sent : i \notin DOMAIN before.sent

\* A request that waits for an answer: registered, then scheduled.
Request(cl, m) ==
  LET asked == RequiresAck(cl, m)
  IN IF asked.thrown THEN asked
     ELSE Schedule(asked, asked.sent[LastId(cl, asked)].m)

-----------------------------------------------------------------------------
(***************************************************************************)
(* Messages from the broker.                                               *)
(***************************************************************************)
\* V8's sort of a short array: an insertion that moves past entries whose
\* difference is greater than zero, so that an undefined sequence (a
\* SUBSCRIBE) stops it.
InsertSent(sorted, entry) ==
  LET After(k) == /\ sorted[k].sequence # 0 /\ entry.sequence # 0
                  /\ sorted[k].sequence > entry.sequence
      at == CHOOSE k \in 0 .. Len(sorted) :
              /\ k = 0 \/ ~After(k)
              /\ \A j \in k + 1 .. Len(sorted) : After(j)
  IN SubSeq(sorted, 1, at) \o <<entry>> \o SubSeq(sorted, at + 1, Len(sorted))

InSentOrder(sent) ==
  LET ids == Ascending(DOMAIN sent)
  IN FoldLeft(InsertSent, <<>>, [k \in DOMAIN ids |-> sent[ids[k]]])

MutantResend(cl, entry) == Schedule(cl, entry.m)
Resend(cl, entry) ==
  Schedule(cl, IF entry.m.type = Code("PUBLISH") /\ entry.pubRec
               THEN WithId("PUBREL", entry.m.id) ELSE entry.m)

\* connectOptions.onSuccess, as utils/mqtt.js sets it: subscribe, and log
\* what that throws.
OnSuccess(cl) ==
  LET told == Call(cl, "success", NoMessage)
  IN IF cl.thrown THEN cl
     ELSE IF ~told.connected THEN told
     ELSE [Request(told, Subscribe(NoId, Topic, 2)) EXCEPT !.thrown = FALSE]

\* Connected: no further host is tried after this.
MutantReady(cl) == [cl EXCEPT !.connected = TRUE]
Ready(cl) == [cl EXCEPT !.connected = TRUE,
                        !.hostIndex = IF app.uris > 0 THEN app.uris ELSE @]

HandleConnack(cl, m) ==
  LET clear == IF app.clean
               THEN [cl EXCEPT
                       !.store = [sent     |-> [i \in DOMAIN @.sent \ DOMAIN cl.sent |-> @.sent[i]],
                                  received |-> [i \in DOMAIN @.received \ DOMAIN cl.received |->
                                                  @.received[i]]],
                       !.sent = NoEntries, !.received = NoEntries, !.connectTimer = FALSE]
               ELSE [cl EXCEPT !.connectTimer = FALSE]
      on    == Ready(clear)
      ready == OnSuccess(FoldLeft(Resend, on, InSentOrder(on.sent)))
  IN IF m.returnCode # 0 THEN Disconnected(clear)
     ELSE IF ready.thrown THEN ready ELSE ProcessQueue(ready)

ReceiveMessage(cl, m) == IF cl.thrown THEN cl ELSE Handed(cl, "arrived", m)

ReceivePublish(cl, m) ==
  CASE m.qos = 0 -> ReceiveMessage(cl, m)
    [] m.qos = 1 -> ReceiveMessage(Schedule(cl, WithId("PUBACK", m.id)), m)
    [] m.qos = 2 -> Schedule([cl EXCEPT !.received = Put(@, m.id, m),
                                        !.store.received = Put(@, m.id, m)],
                             WithId("PUBREC", m.id))

MutantHandlePuback(cl, m) ==
  IF m.id \notin DOMAIN cl.sent THEN cl
  ELSE Handed([cl EXCEPT !.sent = Drop(@, m.id)], "delivered", cl.sent[m.id].m)

HandlePuback(cl, m) ==
  IF m.id \notin DOMAIN cl.sent THEN cl
  ELSE Handed([cl EXCEPT !.sent = Drop(@, m.id), !.store.sent = Drop(@, m.id)],
              "delivered", cl.sent[m.id].m)

\* store() accepts a PUBLISH only.
HandlePubrec(cl, m) ==
  LET entry == [cl.sent[m.id] EXCEPT !.pubRec = TRUE]
  IN IF m.id \notin DOMAIN cl.sent THEN cl
     ELSE IF entry.m.type # Code("PUBLISH") THEN [cl EXCEPT !.thrown = TRUE]
     ELSE Schedule([cl EXCEPT !.sent = Put(@, m.id, entry),
                              !.store.sent = Put(@, m.id, Stored(entry))],
                   WithId("PUBREL", m.id))

MutantHandlePubrel(cl, m) ==
  LET gone == [cl EXCEPT !.store.received = Drop(@, m.id)]
  IN Schedule(IF m.id \in DOMAIN cl.received
              THEN ReceiveMessage(gone, cl.received[m.id]) ELSE gone,
              WithId("PUBCOMP", m.id))

\* The copy in localStorage goes first.  If the handler throws, the message
\* stays in the client's record and PUBCOMP is not sent.
HandlePubrel(cl, m) ==
  LET gone == [cl EXCEPT !.store.received = Drop(@, m.id)]
      told == ReceiveMessage(gone, cl.received[m.id])
      done == IF m.id \notin DOMAIN cl.received THEN gone
              ELSE IF HandlerThrows(cl.received[m.id]) THEN told
              ELSE [told EXCEPT !.received = Drop(@, m.id)]
  IN Schedule(done, WithId("PUBCOMP", m.id))

\* An unknown identifier dereferences undefined once the message is gone.
HandlePubcomp(cl, m) ==
  IF m.id \notin DOMAIN cl.sent THEN [cl EXCEPT !.thrown = TRUE]
  ELSE Handed([cl EXCEPT !.sent = Drop(@, m.id), !.store.sent = Drop(@, m.id)],
              "delivered", cl.sent[m.id].m)

HandleSuback(cl, m) ==
  IF m.id \notin DOMAIN cl.sent THEN cl
  ELSE Call([cl EXCEPT !.sent = Drop(@, m.id)],
            IF m.returnCode # <<>> /\ m.returnCode[1] = 128
            THEN "subscribeFailed" ELSE "subscribed", NoMessage)

HandleUnsuback(cl, m) ==
  IF m.id \notin DOMAIN cl.sent THEN cl ELSE [cl EXCEPT !.sent = Drop(@, m.id)]

HandlePingresp(cl, m) == [cl EXCEPT !.sendPinger = PingerReset(@)]

\* _handleMessage: what a handler throws disconnects the client.
HandleMessage(cl, m) ==
  LET done == CASE m.type = Code("CONNACK")  -> HandleConnack(cl, m)
                [] m.type = Code("PUBLISH")  -> ReceivePublish(cl, m)
                [] m.type = Code("PUBACK")   -> HandlePuback(cl, m)
                [] m.type = Code("PUBREC")   -> HandlePubrec(cl, m)
                [] m.type = Code("PUBREL")   -> HandlePubrel(cl, m)
                [] m.type = Code("PUBCOMP")  -> HandlePubcomp(cl, m)
                [] m.type = Code("SUBACK")   -> HandleSuback(cl, m)
                [] m.type = Code("UNSUBACK") -> HandleUnsuback(cl, m)
                [] m.type = Code("PINGRESP") -> HandlePingresp(cl, m)
                [] OTHER                     -> Disconnected(cl)
  IN IF done.thrown THEN Disconnected([done EXCEPT !.thrown = FALSE]) ELSE done

\* _deframeMessages: the whole messages of the bytes and what is left over.
Deframe(bytes) ==
  LET from[p \in 1 .. Len(bytes) + 2] ==
        IF p > Len(bytes) THEN [ok |-> TRUE, messages |-> <<>>, rest |-> <<>>]
        ELSE LET d == decodeMessage(bytes, p)
             IN IF d.outcome = "message"
                THEN [from[d.next] EXCEPT !.messages = <<d.message>> \o @]
                ELSE [ok |-> d.outcome = "incomplete", messages |-> <<>>,
                      rest |-> SubSeq(bytes, p, Len(bytes))]
  IN from[1]

\* _on_socket_message.  The buffer survives a change of socket.
OnSocketMessage(cl, data) ==
  LET alive  == [cl EXCEPT !.receivePinger = PingerReset(@), !.buffer = <<>>]
      framed == Deframe(cl.buffer \o data)
  IN IF ~framed.ok THEN Disconnected(alive)
     ELSE FoldLeft(HandleMessage, [alive EXCEPT !.buffer = framed.rest],
                   framed.messages)

-----------------------------------------------------------------------------
(***************************************************************************)
(* One event: the client's record after it, the chunks still on their way  *)
(* (none once the socket is given up) and what the page was told.          *)
(***************************************************************************)
Told(a, call) ==
  LET read == call.message # NoMessage /\ call.message.type = Code("PUBLISH")
      n == IF read /\ Len(call.message.payload) = 1 THEN call.message.payload[1] ELSE -1
      intact == n \in InMsgs /\ call.message.destinationName = Topic
  IN CASE call.name = "arrived" /\ intact  -> [a EXCEPT !.arrived[n] = @ + 1]
       [] call.name = "arrived" /\ ~intact -> [a EXCEPT !.corrupt = TRUE]
       [] call.name = "delivered" /\ n \in OutMsgs -> [a EXCEPT !.delivered = @ \cup {n}]
       [] call.name \in {"success", "failure", "lost"} -> [a EXCEPT !.last = call.name]
       [] OTHER -> a

Becomes(cl, chunks, asked) ==
  /\ c' = [cl EXCEPT !.calls = <<>>, !.cut = FALSE, !.thrown = FALSE]
  /\ toClient' = IF cl.cut THEN <<>> ELSE chunks
  /\ app' = FoldLeft(Told, asked, cl.calls)

\* The broker gives the old link up when the client opens a new socket.
LinkAfter(cl) == IF cl.socket = "connecting" THEN [b EXCEPT !.link = FALSE] ELSE b

Init ==
  /\ c = NewClient(NoEntries, NoEntries, [sent |-> NoEntries, received |-> NoEntries])
  /\ toClient = <<>> /\ misframed = FALSE
  /\ b = [link |-> FALSE, subscribed |-> FALSE, holding |-> NoEntries,
          got |-> [m \in OutMsgs |-> 0], flow |-> [n \in InMsgs |-> "idle"]]
  /\ \E options \in Options :
       app = [clean |-> Settled(options).clean, explicit |-> Settled(options).explicit,
              version |-> Settled(options).version, uris |-> Settled(options).uris,
              accepted |-> Settled(options).accepted, outQos |-> options.outQos,
              inQos |-> options.inQos, sent |-> {}, arrived |-> [n \in InMsgs |-> 0], corrupt |-> FALSE,
              delivered |-> {}, last |-> "none", ended |-> FALSE,
              connects |-> 0, faults |-> 0]

Fault(a) == [a EXCEPT !.faults = @ + 1]
MoreFaults == app.faults < MaxFaults

-----------------------------------------------------------------------------
(***************************************************************************)
(* The page.                                                               *)
(***************************************************************************)
\* subscribe() of utils/mqtt.js: connect, unless there is a socket already
\* or the options are refused, when it throws and null is returned.
ConnectAndSubscribe ==
  /\ app.connects < MaxConnects
  /\ app.accepted /\ ~c.connected /\ c.socket = "none" /\ UNCHANGED misframed
  /\ LET cl == DoConnect([c EXCEPT !.hostIndex = 0, !.version = app.version])
     IN /\ Becomes(cl, <<>>, [app EXCEPT !.connects = @ + 1, !.ended = FALSE,
                                         !.last = "none"])
        /\ b' = LinkAfter(cl)

MutantSend(m) ==
  /\ c.connected /\ m \notin app.sent
  /\ LET message == Publish(NoId, app.outQos, FALSE, FALSE, Topic, <<m>>)
         told    == Handed(c, "delivered", message)
         cl == IF app.outQos > 0 THEN Request(told, message) ELSE Schedule(told, message)
     IN Becomes(cl, toClient, [app EXCEPT !.sent = @ \cup {m}])
  /\ UNCHANGED <<b, misframed>>

Send(m) ==
  /\ c.connected /\ m \notin app.sent
  /\ LET message == Publish(NoId, app.outQos, FALSE, FALSE, Topic, <<m>>)
         cl == IF app.outQos > 0 THEN Request(c, message)
               ELSE Schedule(Handed(c, "delivered", message), message)
     IN Becomes(cl, toClient, [app EXCEPT !.sent = @ \cup {m}])
  /\ UNCHANGED <<b, misframed>>

\* stopLiveUpdates of the dashboard: unsubscribe, then disconnect, in one
\* try block.  Unsubscribing throws unless connected, and disconnect() is
\* then never called.
StopLiveUpdates ==
  /\ c.connected
  /\ LET left == Request(c, Unsubscribe(NoId, Topic))
         cl   == IF left.thrown THEN left
                 ELSE Schedule([left EXCEPT !.notify = TRUE], Bare("DISCONNECT"))
     IN Becomes(cl, toClient, [app EXCEPT !.ended = ~left.thrown])
  /\ UNCHANGED <<b, misframed>>

\* disconnect() alone, as the floor map calls it, connected or not yet.
Disconnect ==
  /\ c.socket # "none" /\ ~c.notify
  /\ Becomes(Schedule([c EXCEPT !.notify = TRUE], Bare("DISCONNECT")),
             toClient, [app EXCEPT !.ended = c.connected])
  /\ UNCHANGED <<b, misframed>>

\* The page is reloaded: a new client restores what localStorage holds, the
\* sent messages marked as duplicates.
MutantReload ==
  /\ MoreFaults
  /\ c' = [NewClient(NoEntries, c.store.received, c.store) EXCEPT !.out = c.out]
  /\ toClient' = <<>>
  /\ app' = [Fault(app) EXCEPT !.ended = FALSE, !.last = "none"]
  /\ UNCHANGED <<b, misframed>>

Reload ==
  /\ MoreFaults
  /\ LET sent == [i \in DOMAIN c.store.sent |->
                    [c.store.sent[i] EXCEPT !.m.duplicate = TRUE]]
     IN c' = [NewClient(sent, c.store.received, c.store) EXCEPT !.out = c.out]
  /\ toClient' = <<>>
  /\ app' = [Fault(app) EXCEPT !.ended = FALSE, !.last = "none"]
  /\ UNCHANGED <<b, misframed>>

-----------------------------------------------------------------------------
(***************************************************************************)
(* The browser: socket events and timers.                                  *)
(***************************************************************************)
SocketOpens ==
  /\ c.socket = "connecting"
  /\ Becomes(SocketSend([c EXCEPT !.socket = "open"],
                        Connect(c.version, app.clean, <<112>>, NoOption,
                                [has |-> TRUE, text |-> <<117>>],
                                [has |-> TRUE, text |-> <<119>>])),
             toClient, app)
  /\ misframed' = (misframed \/ c.buffer # <<>>)
  /\ UNCHANGED b

\* onmessage, for one chunk or two that arrive together.
SocketMessage ==
  \E k \in 1 .. 2 :
    /\ k <= Len(toClient) /\ c.socket = "open" /\ UNCHANGED misframed
    /\ LET cl == OnSocketMessage(c, FlattenSeq(SubSeq(toClient, 1, k)))
       IN /\ Becomes(cl, SubSeq(toClient, k + 1, Len(toClient)), app)
          /\ b' = LinkAfter(cl)

\* onerror or onclose: what was still on its way to the broker may be lost.
SocketCloses ==
  /\ MoreFaults /\ c.socket # "none" /\ UNCHANGED misframed
  /\ \E out \in {c.out, <<>>} :
       LET cl == Disconnected([c EXCEPT !.out = out])
       IN /\ Becomes(cl, toClient, Fault(app))
          /\ b' = LinkAfter(cl)

ConnectTimeout ==
  /\ c.connectTimer /\ UNCHANGED misframed
  /\ LET cl == Disconnected([c EXCEPT !.connectTimer = FALSE])
     IN /\ Becomes(cl, toClient, app)
        /\ b' = LinkAfter(cl)

\* Pinger.doPing: a second interval without a reset is a timeout.  The
\* PINGREQ itself does not pass through _socket_send.
DoPing(cl, pinger) ==
  IF ~pinger.isReset THEN Disconnected(cl)
  ELSE [cl EXCEPT !.out = Append(@, Bare("PINGREQ"))]

PingFires ==
  /\ MoreFaults /\ UNCHANGED misframed
  /\ \/ /\ c.sendPinger.armed
        /\ LET cl == DoPing([c EXCEPT !.sendPinger.isReset = FALSE], c.sendPinger)
           IN Becomes(cl, toClient, Fault(app)) /\ b' = LinkAfter(cl)
     \/ /\ c.receivePinger.armed
        /\ LET cl == DoPing([c EXCEPT !.receivePinger.isReset = FALSE], c.receivePinger)
           IN Becomes(cl, toClient, Fault(app)) /\ b' = LinkAfter(cl)

-----------------------------------------------------------------------------
(***************************************************************************)
(* The broker (external): MQTT 3.1.1 as the client relies on it.           *)
(***************************************************************************)
\* Bytes of a message to the client; client and broker write them alike.
Bytes(m) ==
  CASE m.type = Code("CONNACK") -> <<32, 2, 0, m.returnCode>>
    [] m.type = Code("SUBACK")  -> <<144, 3, 0, m.id, m.returnCode>>
    [] OTHER -> encode(m)

\* The chunks a packet may travel in.
Chunks(m) ==
  {<<Bytes(m)>>} \cup {<<SubSeq(Bytes(m), 1, k), SubSeq(Bytes(m), k + 1, Len(Bytes(m)))>> :
                         k \in {k \in Cuts : m.type = Code("PUBLISH") /\ k < Len(Bytes(m))}}

BrokerSends(m) == \E chunks \in Chunks(m) : toClient' = toClient \o chunks

Answer(type, id) == WithId(type, id)

\* The inbound flows the broker repeats when a session is resumed.
Repeats(flow) ==
  LET open == Ascending({n \in InMsgs : flow[n] \in {"published", "released"}})
  IN [k \in DOMAIN open |->
        Bytes(IF flow[open[k]] = "published"
              THEN Publish(InId[open[k]], app.inQos, TRUE, FALSE, Topic, <<open[k]>>)
              ELSE WithId("PUBREL", InId[open[k]]))]

BrokerAccepts ==
  /\ c.out # <<>> /\ Head(c.out).type = Code("CONNECT")
  /\ c' = [c EXCEPT !.out = Tail(@)] /\ UNCHANGED misframed
  /\ \/ LET kept == IF app.clean
                    THEN [b EXCEPT !.subscribed = FALSE, !.holding = NoEntries,
                                   !.flow = [n \in InMsgs |->
                                               IF @[n] = "idle" THEN "idle" ELSE "done"]]
                    ELSE b
        IN /\ b' = [kept EXCEPT !.link = TRUE]
           /\ toClient' = (IF c.socket = "open" THEN <<Bytes([type |-> Code("CONNACK"), returnCode |-> 0])>>
                                                      \o Repeats(kept.flow) ELSE <<>>)
           /\ UNCHANGED app
     \/ /\ MoreFaults
        /\ app' = Fault(app)
        /\ b' = [b EXCEPT !.link = FALSE]
        /\ toClient' = (IF c.socket = "open" THEN <<Bytes([type |-> Code("CONNACK"), returnCode |-> 1])>> ELSE <<>>)

\* What arrives on a link that is up, and its answer (<<>>: none).
InMsgOf(id, stage) == {n \in InMsgs : InId[n] = id /\ b.flow[n] = stage}
Advance(id, stage, next) ==
  [b EXCEPT !.flow = [n \in InMsgs |-> IF n \in InMsgOf(id, stage) THEN next ELSE @[n]]]

BrokerState(m) ==
  CASE m.type = Code("PUBLISH") ->
         IF m.qos = 2 /\ m.id \in DOMAIN b.holding THEN b
         ELSE [b EXCEPT !.got[m.payload[1]] = @ + 1,
                        !.holding = IF m.qos = 2 THEN Put(@, m.id, m.payload[1]) ELSE @]
    [] m.type = Code("PUBREL")      -> [b EXCEPT !.holding = Drop(@, m.id)]
    [] m.type = Code("PUBACK")      -> Advance(m.id, "published", "done")
    [] m.type = Code("PUBREC")      -> Advance(m.id, "published", "released")
    [] m.type = Code("PUBCOMP")     -> Advance(m.id, "released", "done")
    [] m.type = Code("SUBSCRIBE")   -> [b EXCEPT !.subscribed = TRUE]
    [] m.type = Code("UNSUBSCRIBE") -> [b EXCEPT !.subscribed = FALSE]
    [] m.type = Code("DISCONNECT")  -> [b EXCEPT !.link = FALSE]
    [] OTHER -> b

BrokerAnswer(m) ==
  CASE m.type = Code("PUBLISH") /\ m.qos = 1 -> <<Answer("PUBACK", m.id)>>
    [] m.type = Code("PUBLISH") /\ m.qos = 2 -> <<Answer("PUBREC", m.id)>>
    [] m.type = Code("PUBREL")      -> <<Answer("PUBCOMP", m.id)>>
    [] m.type = Code("PUBREC")      -> <<Answer("PUBREL", m.id)>>
    [] m.type = Code("SUBSCRIBE")   ->
         <<[type |-> Code("SUBACK"), id |-> m.id, returnCode |-> m.requestedQos[1]]>>
    [] m.type = Code("UNSUBSCRIBE") -> <<Answer("UNSUBACK", m.id)>>
    [] m.type = Code("PINGREQ")     -> <<Bare("PINGRESP")>>
    [] OTHER -> <<>>

BrokerTakes ==
  /\ b.link /\ c.out # <<>> /\ Head(c.out).type # Code("CONNECT")
  /\ c' = [c EXCEPT !.out = Tail(@)]
  /\ b' = BrokerState(Head(c.out))
  /\ IF BrokerAnswer(Head(c.out)) # <<>> /\ c.socket = "open"
     THEN BrokerSends(BrokerAnswer(Head(c.out))[1]) ELSE UNCHANGED toClient
  /\ UNCHANGED <<app, misframed>>

\* A subscriber's message; the identifier is free for it.
BrokerPublishes(n) ==
  /\ b.link /\ b.subscribed /\ c.socket = "open" /\ b.flow[n] = "idle"
  /\ InMsgOf(InId[n], "published") \cup InMsgOf(InId[n], "released") = {}
  /\ b' = [b EXCEPT !.flow[n] = IF app.inQos = 0 THEN "done" ELSE "published"]
  /\ BrokerSends(Publish(IF app.inQos = 0 THEN NoId ELSE InId[n], app.inQos, FALSE, FALSE, Topic, <<n>>))
  /\ UNCHANGED <<c, app, misframed>>

Page    == ConnectAndSubscribe \/ StopLiveUpdates \/ Disconnect \/ Reload \/ \E m \in OutMsgs : Send(m)
Browser == SocketOpens \/ SocketMessage \/ SocketCloses \/ ConnectTimeout \/ PingFires
Broker  == BrokerAccepts \/ BrokerTakes \/ \E n \in InMsgs : BrokerPublishes(n)

Next == Page \/ Browser \/ Broker

\* A timer that is armed fires unless it is cancelled first.
Spec == Init /\ [][Next]_vars /\ WF_vars(ConnectTimeout)

-----------------------------------------------------------------------------
(***************************************************************************)
(* Properties.                                                             *)
(***************************************************************************)
\* The maps hold what their names say.
TypeOK ==
  /\ c.socket \in {"none", "connecting", "open"}
  /\ c.connected => c.socket = "open"
  /\ DOMAIN c.sent \subseteq Nat \ {0}
  /\ \A i \in DOMAIN c.sent : c.sent[i].m.id = i
  /\ c.identifier \in Nat \ {0}
  /\ c.version \in {3, 4} /\ c.hostIndex \in 0 .. app.uris

\* A message of quality 2 on which the page's handler does not throw reaches
\* the page once at most, over cut sockets, repeated packets, reloads of the
\* page and the disconnections another message's handler causes
\* (_receivePublish, PUBREL and the catch of _handleMessage).
ExactlyOnceIn ==
  misframed \/ \A n \in InMsgs \ Unreadable : app.inQos = 2 => app.arrived[n] <= 1

\* A message of quality 2 is taken by the broker once at most, however often
\* the client repeats it (the resend after CONNACK, restore).
ExactlyOnceOut ==
  misframed \/ \A m \in OutMsgs : app.outQos = 2 => b.got[m] <= 1

\* onMessageDelivered is called only for a message the broker has taken
\* (PUBACK and PUBCOMP find the message they answer under its identifier).
DeliveredIsTaken ==
  misframed \/ \A m \in app.delivered : app.outQos > 0 => b.got[m] > 0

\* An identifier under which the broker still holds a message of quality 2
\* has not been given to another message (_requires_ack, restore).
HeldIdIsNotReused ==
  (b.link /\ ~misframed) =>
    \A i \in DOMAIN b.holding :
      i \in DOMAIN c.sent => /\ c.sent[i].m.type = Code("PUBLISH")
                             /\ c.sent[i].m.payload = <<b.holding[i]>>

\* Between events localStorage holds the unfinished messages of the client
\* as they are, so that a reload revives none and loses only what the page's
\* handler has thrown on (store, restore, the order of the two in PUBREL).
StoreMirrorsState ==
  /\ DOMAIN c.store.received \subseteq DOMAIN c.received
  /\ \A i \in DOMAIN c.received : IF i \in DOMAIN c.store.received
                                  THEN c.store.received[i] = c.received[i]
                                  ELSE HandlerThrows(c.received[i])
  /\ DOMAIN c.store.sent = {i \in DOMAIN c.sent : c.sent[i].m.type = Code("PUBLISH")}
  /\ \A i \in DOMAIN c.store.sent :
       c.store.sent[i].pubRec = c.sent[i].pubRec /\ c.store.sent[i].m.payload = c.sent[i].m.payload

\* A client that was told to disconnect while it was connected has no socket
\* until the page connects again: neither the next host nor the older
\* protocol version is tried (_process_queue, _disconnected).
EndedStaysEnded == app.ended => c.socket = "none"

\* The page is handed only messages that were published, whatever the chunks
\* they travel in, unless a connection begins with half a message of the one
\* before in the receive buffer (_deframeMessages, _disconnected).
NothingGarbled == app.corrupt => misframed

\* Whatever the client writes has the length it announces, and what both
\* sides may write is read back unchanged (encode, decodeMessage): of the
\* messages it has written, and of samples around the borders of the format.
WrittenIsReadable ==
  \A m \in IF app.connects = 0 THEN Samples ELSE ToSet(c.out) :
    LengthIsExact(m) /\ RoundTrips(m)

\* A connection attempt comes to an end: connected, or no socket, after the
\* other hosts and the older version were tried (_connectTimeout).
AttemptsEnd ==
  (c.socket # "none" /\ ~c.connected) ~> (c.connected \/ c.socket = "none")

=============================================================================
