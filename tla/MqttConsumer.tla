----------------------------- MODULE MqttConsumer -----------------------------
(***************************************************************************)
(* The process "snms mqtt" (src/snms/core/mqtt/consumer.py): EmqpConsumer  *)
(* keeps a connection to RabbitMQ open, takes the values devices publish   *)
(* from the queue mqtt_consumer_master, and hands each delivery to a pool  *)
(* of threads.  The thread that has processed a delivery acknowledges its  *)
(* tag on whatever channel the consumer has by then.                       *)
(*                                                                         *)
(* The broker and pika are modelled as far as the consumer depends on      *)
(* them: delivery tags count from 1 on every channel, a lost or closed     *)
(* channel returns its unacknowledged messages to the queue, and an        *)
(* unknown tag closes the channel.  Acknowledgements and deliveries cross  *)
(* the network at once: one that is under way when the link goes is as if  *)
(* it had never been sent.                                                 *)
(***************************************************************************)
EXTENDS Integers, FiniteSets

CONSTANTS
    Messages,    \* messages devices publish
    Kind,        \* what the payload of each is
    Threads,     \* size of the thread pool
    Prefetch,    \* unacknowledged deliveries the broker allows
    MaxDrops     \* bound: lost links, failed connects, crashes, lost queues

(* "value": a JSON object; "malformed": not JSON; "scalar": JSON, but not  *)
(* an object, so that asking it for "fromServer" raises                    *)
ASSUME KindAssumption == Kind \in [Messages -> {"value", "malformed", "scalar"}]
ASSUME PoolAssumption == Threads \in Nat \ {0} /\ Prefetch \in Nat \ {0}
ASSUME MaxDropsAssumption == MaxDrops \in Nat

VARIABLES
    published,   \* messages that have been published
    ready,       \* messages waiting in the queue
    bound,       \* the queue exists and is bound to the exchange
    unacked,     \* deliveries the broker awaits an acknowledgement of
    link,        \* the broker still holds the channel's connection
    lastTag,     \* the last delivery tag of the channel
    phase,       \* what the consumer waits for
    session,     \* history: connections opened so far
    jobs,        \* what was handed to the pool and is not over
    drops,
    acked,       \* history: messages the broker took as acknowledged
    handled      \* history: messages a thread ran process_message for

brokerVars == <<published, ready, bound, unacked, link, lastTag>>
vars == <<brokerVars, phase, session, jobs, drops, acked, handled>>

(* "start": the process has just been started; "waiting": the reconnect    *)
(* timer is set; then one phase for each answer of the broker              *)
Opening == {"connecting", "channel", "exchange", "queue", "bind"}
Phases == {"start", "waiting", "consuming"} \cup Opening

Job == [session: Nat, tag: Nat, msg: Messages, state: {"queued", "running", "done"}]

(* consumer._channel is an object *)
HasChannel == phase \in {"exchange", "queue", "bind", "consuming"}

----------------------------------------------------------------------------
Init ==
    /\ published = {} /\ ready = {} /\ bound = FALSE
    /\ unacked = {} /\ link = FALSE /\ lastTag = 0
    /\ phase = "start" /\ session = 0 /\ jobs = {}
    /\ drops = 0 /\ acked = {} /\ handled = {}

----------------------------------------------------------------------------
(* Devices and the broker *)

Publish(m) ==
    /\ m \notin published
    /\ published' = published \cup {m}
    /\ ready' = IF bound THEN ready \cup {m} ELSE ready
    /\ UNCHANGED <<bound, unacked, link, lastTag, phase, session, jobs, drops, acked, handled>>

(* x-message-ttl: only messages that wait in the queue expire *)
Expire(m) ==
    /\ m \in ready
    /\ ready' = ready \ {m}
    /\ UNCHANGED <<published, bound, unacked, link, lastTag, phase, session, jobs,
                   drops, acked, handled>>

(* the channel is gone: what it had not acknowledged is delivered again *)
CloseLink ==
    /\ link' = FALSE
    /\ ready' = ready \cup {u.msg : u \in unacked}
    /\ unacked' = {}

Dropped == drops < MaxDrops /\ drops' = drops + 1

LinkLost ==
    /\ Dropped /\ link /\ CloseLink
    /\ UNCHANGED <<published, bound, lastTag, phase, session, jobs, acked, handled>>

(* the broker restarts, or the queue is deleted and on_consumer_cancelled  *)
(* closes the channel: the queue is not durable                            *)
QueueLost ==
    /\ Dropped /\ bound
    /\ bound' = FALSE /\ ready' = {} /\ unacked' = {} /\ link' = FALSE
    /\ UNCHANGED <<published, lastTag, phase, session, jobs, acked, handled>>

----------------------------------------------------------------------------
(* The connection: callbacks on the IOLoop *)

(* run and reconnect; a new channel will count its tags from 1 *)
Connect ==
    /\ phase \in {"start", "waiting"}
    /\ phase' = "connecting" /\ link' = TRUE
    /\ session' = session + 1 /\ lastTag' = 0
    /\ UNCHANGED <<published, ready, bound, unacked, jobs, drops, acked, handled>>

(* on_connection_error sets the timer again; in run there is no connection *)
(* to set it on: the process ends and its container is started again       *)
ConnectFails ==
    /\ Dropped /\ phase \in {"start", "waiting"}
    /\ UNCHANGED <<brokerVars, phase, session, jobs, acked, handled>>

MutantFollowing == [connecting |-> "channel", channel |-> "exchange", exchange |-> "queue",
                    queue |-> "bind", bind |-> "queue"]  \* on_bindok declares again

Following == [connecting |-> "channel", channel |-> "exchange", exchange |-> "queue",
              queue |-> "bind", bind |-> "consuming"]

(* on_connection_open, on_channel_open, on_exchange_declareok,             *)
(* on_queue_declareok (which binds the queue) and on_bindok                *)
Answer ==
    /\ link /\ phase \in Opening
    /\ phase' = Following[phase]
    /\ bound' = (bound \/ phase = "queue")
    /\ UNCHANGED <<published, ready, unacked, link, lastTag, session, jobs, drops, acked, handled>>

(* on_channel_closed, on_connection_closed: _channel = None and a timer *)
Notice ==
    /\ ~link /\ phase \in Opening \cup {"consuming"}
    /\ phase' = "waiting"
    /\ UNCHANGED <<brokerVars, session, jobs, drops, acked, handled>>

(* the process is killed and started again *)
Crash ==
    /\ Dropped /\ phase # "start"
    /\ CloseLink
    /\ phase' = "start" /\ jobs' = {}
    /\ UNCHANGED <<published, bound, lastTag, session, acked, handled>>

----------------------------------------------------------------------------
(* Deliveries *)

(* the acknowledgement is sent on receipt *)
MutantDeliver(m) ==
    /\ link /\ phase = "consuming" /\ m \in ready /\ Cardinality(unacked) < Prefetch
    /\ lastTag' = lastTag + 1
    /\ ready' = ready \ {m}
    /\ acked' = acked \cup {m}
    /\ jobs' = jobs \cup {[session |-> session, tag |-> lastTag + 1, msg |-> m, state |-> "queued"]}
    /\ UNCHANGED <<published, bound, unacked, link, phase, session, drops, handled>>

(* on_message and save_values: the delivery goes to the pool *)
Deliver(m) ==
    /\ link /\ phase = "consuming" /\ m \in ready /\ Cardinality(unacked) < Prefetch
    /\ lastTag' = lastTag + 1
    /\ ready' = ready \ {m}
    /\ unacked' = unacked \cup {[tag |-> lastTag + 1, msg |-> m]}
    /\ jobs' = jobs \cup {[session |-> session, tag |-> lastTag + 1, msg |-> m, state |-> "queued"]}
    /\ UNCHANGED <<published, bound, link, phase, session, drops, acked, handled>>

InState(s) == {j \in jobs : j.state = s}
Before(i, j) == i.session < j.session \/ (i.session = j.session /\ i.tag < j.tag)
Advance(j, s) == jobs' = (jobs \ {j}) \cup {[j EXCEPT !.state = s]}

(* a free thread takes the oldest delivery; no thread is free while all of *)
(* them process one or run its callback                                    *)
StartJob(j) ==
    /\ j.state = "queued"
    /\ \A i \in InState("queued") : i = j \/ Before(j, i)
    /\ Cardinality(InState("running") \cup InState("done")) < Threads
    /\ Advance(j, "running")
    /\ UNCHANGED <<brokerVars, phase, session, drops, acked, handled>>

(* process_message ends: what it raised while it posted the value is caught *)
Process(j) ==
    /\ j.state = "running"
    /\ Advance(j, "done")
    /\ handled' = handled \cup {j.msg}
    /\ UNCHANGED <<brokerVars, phase, session, drops, acked>>

MutantReturnsTag(m) == Kind[m] = "value"  \* no tag when the payload is not JSON

(* process_message returns the tag: it raises on a payload without keys() *)
ReturnsTag(m) == Kind[m] # "scalar"

(* on_done: the tag is acknowledged on the channel of the moment, if there *)
(* is one; what basic_ack or result() raises is lost in the pool           *)
OnDone(j) ==
    /\ j.state = "done"
    /\ jobs' = jobs \ {j}
    /\ LET named == {u \in unacked : u.tag = j.tag}
       IN  IF ~(ReturnsTag(j.msg) /\ HasChannel /\ link)
           THEN UNCHANGED <<ready, unacked, link, acked>>
           ELSE IF named = {}
           THEN CloseLink /\ UNCHANGED acked  \* PRECONDITION_FAILED
           ELSE /\ unacked' = unacked \ named
                /\ acked' = acked \cup {u.msg : u \in named}
                /\ UNCHANGED <<ready, link>>
    /\ UNCHANGED <<published, bound, lastTag, phase, session, drops, handled>>

----------------------------------------------------------------------------
Loop == Connect \/ Answer \/ Notice
Pool == \E j \in jobs : StartJob(j) \/ Process(j) \/ OnDone(j)

Next ==
    \/ Loop \/ Pool \/ ConnectFails \/ Crash \/ LinkLost \/ QueueLost
    \/ \E m \in Messages : Publish(m) \/ Expire(m) \/ Deliver(m)

Spec == Init /\ [][Next]_vars

(* Timers fire, the broker answers and delivers, and no thread is stuck in *)
(* process_message; nothing forces a message to be published or to expire. *)
Fairness ==
    /\ WF_vars(Loop)
    /\ WF_vars(\E m \in Messages : Deliver(m))
    /\ WF_vars(Pool)

FairSpec == Spec /\ Fairness

----------------------------------------------------------------------------
(* Properties *)

(* Every variable keeps its type, and the broker never has more deliveries *)
(* open than the prefetch count.                                           *)
TypeOK ==
    /\ published \subseteq Messages /\ ready \subseteq published
    /\ bound \in BOOLEAN /\ link \in BOOLEAN
    /\ unacked \subseteq [tag: 1..lastTag, msg: published]
    /\ Cardinality(unacked) <= Prefetch
    /\ lastTag \in Nat /\ phase \in Phases /\ session \in Nat /\ drops \in 0..MaxDrops
    /\ jobs \subseteq Job
    /\ acked \subseteq published /\ handled \subseteq published

(* A delivery occupies its prefetch slot only while the pool still has to  *)
(* acknowledge it, or for a payload that is no JSON object: however links  *)
(* are lost and tags collide, no other slot leaks.                         *)
SlotsHeldByWork ==
    \A u \in unacked :
        \/ Kind[u.msg] = "scalar"
        \/ \E j \in jobs : j.session = session /\ j.tag = u.tag /\ j.msg = u.msg

(* Until a connection is lost for the first time, no value is acknowledged *)
(* before a thread has processed it, so a crash does not lose it.          *)
FirstSessionAcks == session <= 1 => acked \subseteq handled

(* acknowledge_message (consumer.py:245): "Acknowledge the message delivery *)
(* from RabbitMQ by sending a Basic.Ack RPC method for the delivery tag".   *)
(* So what the broker takes as acknowledged has been processed.             *)
AckedIsProcessed == acked \subseteq handled

(* As often as the connection or the queue is lost, the consumer gets back *)
(* to consuming.                                                           *)
Recovers == []<>(phase = "consuming" /\ link)

(* While fewer payloads than the prefetch count are no JSON objects, every *)
(* other message that waits in the queue leaves it for good.               *)
Drained ==
    \A m \in Messages :
        Kind[m] # "scalar" => (m \in ready ~> m \notin ready \cup {u.msg : u \in unacked})
=============================================================================
