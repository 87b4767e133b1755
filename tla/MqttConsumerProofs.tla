-------------------------- MODULE MqttConsumerProofs --------------------------
(***************************************************************************)
(* Theorems about MqttConsumer, for any messages, payloads, number of      *)
(* threads, prefetch count and number of lost links: its type invariant,   *)
(* that no prefetch slot leaks but for payloads that are no JSON objects,  *)
(* and that nothing is acknowledged too early on the first connection.     *)
(***************************************************************************)
EXTENDS MqttConsumer, FiniteSetTheorems, TLAPS

(* The broker awaits acknowledgements on an open channel that is consumed  *)
(* from, and on no other.                                                  *)
OpenDeliveries ==
    /\ IsFiniteSet(unacked)
    /\ unacked # {} => link /\ phase = "consuming"
    /\ link => phase \notin {"start", "waiting"} /\ session >= 1

(* Every job was a delivery of this connection or of an earlier one.       *)
KnownJobs ==
    \A j \in jobs : /\ j.session <= session /\ j.session >= 1
                    /\ j.msg \in published
                    /\ j.session = session => j.tag <= lastTag
                    /\ j.state = "done" => j.msg \in handled

(* On the connection that delivered it, a job's tag names its own message. *)
TagsAgree ==
    \A j \in jobs, u \in unacked : j.session = session /\ j.tag = u.tag => j.msg = u.msg

IInv == TypeOK /\ OpenDeliveries /\ KnownJobs /\ TagsAgree /\ SlotsHeldByWork /\ FirstSessionAcks

----------------------------------------------------------------------------
(* No deliveries are within the prefetch count.                            *)
LEMMA NoneOpen ==
    ASSUME NEW S, S = {}
    PROVE  IsFiniteSet(S) /\ Cardinality(S) <= Prefetch
<1>1. IsFiniteSet(S) /\ Cardinality(S) = 0
  BY FS_EmptySet
<1>2. 0 <= Prefetch
  BY PoolAssumption
<1> QED BY <1>1, <1>2

(* A channel that is gone holds no deliveries; the rest is as it was.      *)
LEMMA CloseKeeps ==
    ASSUME IInv, CloseLink, phase' \in Phases, drops' \in 0..MaxDrops, bound' \in BOOLEAN,
           jobs' \subseteq jobs, UNCHANGED <<published, lastTag, session, acked, handled>>
    PROVE  IInv'
<1>1. unacked' = {} /\ link' = FALSE /\ ready' \subseteq published
  BY DEF CloseLink, IInv, TypeOK
<1>2. IsFiniteSet(unacked') /\ Cardinality(unacked') <= Prefetch
  BY <1>1, NoneOpen
<1>3. TypeOK'
  BY <1>1, <1>2 DEF IInv, TypeOK
<1> QED BY <1>1, <1>2, <1>3
    DEF IInv, OpenDeliveries, KnownJobs, TagsAgree, SlotsHeldByWork, FirstSessionAcks

(* Steps that leave the pool and the open deliveries alone.                *)
LEMMA QuietKeeps ==
    ASSUME IInv, TypeOK', phase \in {"start", "waiting", "consuming"} \/ link,
           phase' = phase \/ (unacked = {} /\ (link => phase' \notin {"start", "waiting"})),
           published \subseteq published',
           UNCHANGED <<unacked, link, lastTag, session, jobs, acked, handled>>
    PROVE  IInv'
BY DEF IInv, OpenDeliveries, KnownJobs, TagsAgree, SlotsHeldByWork, FirstSessionAcks

(* A job that advances is still the same delivery.                         *)
LEMMA AdvanceKeeps ==
    ASSUME IInv, NEW j \in jobs, NEW s \in {"running", "done"}, Advance(j, s),
           handled' = IF s = "done" THEN handled \cup {j.msg} ELSE handled,
           UNCHANGED <<brokerVars, phase, session, drops, acked>>
    PROVE  IInv'
<1> DEFINE k == [j EXCEPT !.state = s]
<1>1. j \in Job /\ j.msg \in published
  BY DEF IInv, TypeOK, KnownJobs
<1>2. /\ k \in Job /\ k.state = s
      /\ k.session = j.session /\ k.tag = j.tag /\ k.msg = j.msg
  BY <1>1 DEF Job
<1>3. jobs' = (jobs \ {j}) \cup {k}
  BY DEF Advance
<1> HIDE DEF k
<1>4. TypeOK'
  BY <1>1, <1>2, <1>3 DEF IInv, TypeOK, brokerVars
<1>5. OpenDeliveries'
  BY DEF IInv, OpenDeliveries, brokerVars
<1>6. KnownJobs'
  BY <1>1, <1>2, <1>3 DEF IInv, KnownJobs, brokerVars
<1>7. TagsAgree'
  BY <1>2, <1>3 DEF IInv, TagsAgree, brokerVars
<1>8. SlotsHeldByWork'
  <2> SUFFICES ASSUME NEW u \in unacked, Kind[u.msg] # "scalar"
               PROVE  \E i \in jobs' : i.session = session /\ i.tag = u.tag /\ i.msg = u.msg
    BY DEF SlotsHeldByWork, brokerVars
  <2>1. PICK i \in jobs : i.session = session /\ i.tag = u.tag /\ i.msg = u.msg
    BY DEF IInv, SlotsHeldByWork
  <2>2. CASE i = j
    BY <1>2, <1>3, <2>1, <2>2
  <2>3. CASE i # j
    BY <1>3, <2>1, <2>3
  <2> QED BY <2>2, <2>3
<1>9. FirstSessionAcks'
  BY DEF IInv, FirstSessionAcks
<1> QED BY <1>4, <1>5, <1>6, <1>7, <1>8, <1>9 DEF IInv

----------------------------------------------------------------------------
(* A delivery takes the next tag, which no job of this connection has, and *)
(* the slot it takes is its job's.                                         *)
LEMMA DeliverKeeps ==
    ASSUME IInv, NEW m \in Messages, Deliver(m)
    PROVE  IInv'
<1> DEFINE d == [tag |-> lastTag + 1, msg |-> m]
           k == [session |-> session, tag |-> lastTag + 1, msg |-> m, state |-> "queued"]
<1>1. /\ unacked' = unacked \cup {d} /\ jobs' = jobs \cup {k} /\ lastTag' = lastTag + 1
      /\ link /\ phase = "consuming" /\ Cardinality(unacked) < Prefetch
      /\ ready' = ready \ {m} /\ m \in published
      /\ UNCHANGED <<published, bound, link, phase, session, drops, acked, handled>>
  BY DEF Deliver, IInv, TypeOK
<1>2. lastTag \in Nat /\ session \in Nat /\ Prefetch \in Nat
  BY PoolAssumption DEF IInv, TypeOK
<1>3. /\ IsFiniteSet(unacked')
      /\ Cardinality(unacked') <= Prefetch
  <2>1. IsFiniteSet(unacked) /\ Cardinality(unacked) \in Nat
    BY FS_CardinalityType DEF IInv, OpenDeliveries
  <2>2. /\ IsFiniteSet(unacked \cup {d})
        /\ Cardinality(unacked \cup {d}) \in {Cardinality(unacked), Cardinality(unacked) + 1}
    BY <2>1, FS_AddElement
  <2> QED BY <1>1, <1>2, <2>1, <2>2
<1>4. /\ d.tag = lastTag + 1 /\ d.msg = m
      /\ k \in Job /\ k.session = session /\ k.tag = lastTag + 1 /\ k.msg = m
      /\ k.state = "queued"
  BY <1>2 DEF Job
<1>5. session >= 1
  BY <1>1 DEF IInv, OpenDeliveries
<1>6. TypeOK'
  <2>1. unacked' \subseteq [tag: 1..lastTag', msg: published']
    <3>1. d \in [tag: 1..lastTag', msg: published']
      BY <1>1, <1>2
    <3>2. \A u \in unacked : u \in [tag: 1..lastTag', msg: published']
      BY <1>1, <1>2 DEF IInv, TypeOK
    <3> QED BY <1>1, <3>1, <3>2
  <2>2. lastTag' \in Nat /\ jobs' \subseteq Job /\ ready' \subseteq published
    BY <1>1, <1>2, <1>4 DEF IInv, TypeOK
  <2> QED BY <1>1, <1>3, <2>1, <2>2 DEF IInv, TypeOK
<1> HIDE DEF d, k
<1>7. OpenDeliveries'
  BY <1>1, <1>3 DEF IInv, OpenDeliveries
<1>8. KnownJobs'
  <2> SUFFICES ASSUME NEW j \in jobs'
               PROVE  /\ j.session <= session /\ j.session >= 1
                      /\ j.msg \in published
                      /\ j.session = session => j.tag <= lastTag + 1
                      /\ j.state = "done" => j.msg \in handled
    BY <1>1 DEF KnownJobs
  <2>1. CASE j = k
    BY <1>1, <1>2, <1>4, <1>5, <2>1
  <2>2. CASE j \in jobs
    BY <1>2, <2>2 DEF IInv, KnownJobs, TypeOK, Job
  <2> QED BY <1>1, <2>1, <2>2
<1>9. TagsAgree'
  <2> SUFFICES ASSUME NEW j \in jobs', NEW u \in unacked', j.session = session, j.tag = u.tag
               PROVE  j.msg = u.msg
    BY <1>1 DEF TagsAgree
  <2>1. j = k \/ (j \in jobs /\ j.tag # lastTag + 1)
    BY <1>1, <1>2 DEF IInv, KnownJobs, TypeOK, Job
  <2>2. u = d \/ (u \in unacked /\ u.tag # lastTag + 1)
    BY <1>1, <1>2 DEF IInv, TypeOK
  <2> QED BY <1>4, <2>1, <2>2 DEF IInv, TagsAgree
<1>10. SlotsHeldByWork'
  BY <1>1, <1>4 DEF IInv, SlotsHeldByWork
<1>11. FirstSessionAcks'
  BY <1>1 DEF IInv, FirstSessionAcks
<1> QED BY <1>6, <1>7, <1>8, <1>9, <1>10, <1>11 DEF IInv

(* The callback of a job: the slot it leaves behind is that of a payload   *)
(* that is no JSON object, and on the first connection the tag it          *)
(* acknowledges is its own.                                                *)
LEMMA OnDoneKeeps ==
    ASSUME IInv, NEW j \in jobs, OnDone(j)
    PROVE  IInv'
<1> DEFINE named == {u \in unacked : u.tag = j.tag}
<1>1. /\ jobs' = jobs \ {j} /\ j.state = "done" /\ j.msg \in handled
      /\ UNCHANGED <<published, bound, lastTag, phase, session, drops, handled>>
  BY DEF OnDone, IInv, KnownJobs
<1>2. CASE ~(ReturnsTag(j.msg) /\ HasChannel /\ link)
  <2>1. UNCHANGED <<ready, unacked, link, acked>>
    BY <1>2 DEF OnDone
  <2>2. TypeOK' /\ OpenDeliveries' /\ KnownJobs' /\ TagsAgree' /\ FirstSessionAcks'
    BY <1>1, <2>1 DEF IInv, TypeOK, OpenDeliveries, KnownJobs, TagsAgree, FirstSessionAcks
  <2>3. SlotsHeldByWork'
    <3> SUFFICES ASSUME NEW u \in unacked, Kind[u.msg] # "scalar"
                 PROVE  \E i \in jobs \ {j} : i.session = session /\ i.tag = u.tag /\ i.msg = u.msg
      BY <1>1, <2>1 DEF SlotsHeldByWork
    <3>1. PICK i \in jobs : i.session = session /\ i.tag = u.tag /\ i.msg = u.msg
      BY DEF IInv, SlotsHeldByWork
    <3>2. HasChannel /\ link
      BY DEF IInv, OpenDeliveries, HasChannel
    <3>3. i # j
      BY <1>2, <3>1, <3>2 DEF ReturnsTag
    <3> QED BY <3>1, <3>3
  <2> QED BY <2>2, <2>3 DEF IInv
<1>3. CASE (ReturnsTag(j.msg) /\ HasChannel /\ link) /\ named = {}
  <2>1. CloseLink /\ UNCHANGED acked
    BY <1>3 DEF OnDone
  <2> HIDE DEF named
  <2>2. phase' \in Phases /\ drops' \in 0..MaxDrops /\ bound' \in BOOLEAN /\ jobs' \subseteq jobs
    BY <1>1 DEF IInv, TypeOK
  <2> QED BY <1>1, <2>1, <2>2, CloseKeeps
<1>4. CASE (ReturnsTag(j.msg) /\ HasChannel /\ link) /\ named # {}
  <2>1. /\ unacked' = unacked \ named /\ UNCHANGED <<ready, link>>
        /\ acked' = acked \cup {u.msg : u \in named}
    BY <1>4 DEF OnDone
  <2>2. \A u \in named : u \in unacked /\ u.tag = j.tag /\ u.msg \in published
    BY DEF IInv, TypeOK
  <2>3. IsFiniteSet(unacked') /\ Cardinality(unacked') <= Prefetch
    <3>1. IsFiniteSet(unacked) /\ Cardinality(unacked) \in Nat /\ Cardinality(unacked) <= Prefetch
      BY FS_CardinalityType DEF IInv, OpenDeliveries, TypeOK
    <3>2. unacked' \in SUBSET unacked
      BY <2>1
    <3>3. IsFiniteSet(unacked') /\ Cardinality(unacked') <= Cardinality(unacked)
      BY <3>1, <3>2, FS_Subset
    <3>4. Cardinality(unacked') \in Nat
      BY <3>3, FS_CardinalityType
    <3> QED BY <3>1, <3>3, <3>4, PoolAssumption
  <2>4. TypeOK'
    BY <1>1, <2>1, <2>2, <2>3 DEF IInv, TypeOK
  <2>5. OpenDeliveries' /\ KnownJobs' /\ TagsAgree'
    BY <1>1, <2>1, <2>3 DEF IInv, OpenDeliveries, KnownJobs, TagsAgree
  <2>6. SlotsHeldByWork'
    <3> SUFFICES ASSUME NEW u \in unacked', Kind[u.msg] # "scalar"
                 PROVE  \E i \in jobs \ {j} : i.session = session /\ i.tag = u.tag /\ i.msg = u.msg
      BY <1>1 DEF SlotsHeldByWork
    <3>1. u \in unacked /\ u.tag # j.tag
      BY <2>1
    <3> QED BY <3>1 DEF IInv, SlotsHeldByWork
  <2>7. FirstSessionAcks'
    <3> SUFFICES ASSUME session <= 1, NEW u \in named PROVE u.msg \in handled
      BY <1>1, <2>1 DEF IInv, FirstSessionAcks
    <3>1. j.session = session
      BY DEF IInv, KnownJobs, TypeOK, Job
    <3>2. u.msg = j.msg
      BY <2>2, <3>1 DEF IInv, TagsAgree
    <3> QED BY <1>1, <3>2
  <2> QED BY <2>4, <2>5, <2>6, <2>7 DEF IInv
<1> QED BY <1>2, <1>3, <1>4

(* A new connection: the jobs that are left belong to earlier ones.        *)
LEMMA ConnectKeeps ==
    ASSUME IInv, Connect
    PROVE  IInv'
<1>1. unacked = {} /\ session \in Nat
  BY DEF IInv, OpenDeliveries, TypeOK, Connect
<1>2. TypeOK'
  BY <1>1 DEF IInv, TypeOK, Connect, Phases, Opening
<1>3. OpenDeliveries'
  BY <1>1 DEF IInv, OpenDeliveries, TypeOK, Connect
<1>4. KnownJobs'
  BY <1>1 DEF IInv, KnownJobs, TypeOK, Job, Connect
<1>5. TagsAgree' /\ SlotsHeldByWork' /\ FirstSessionAcks'
  BY <1>1 DEF IInv, TagsAgree, SlotsHeldByWork, FirstSessionAcks, Connect
<1> QED BY <1>2, <1>3, <1>4, <1>5 DEF IInv

----------------------------------------------------------------------------
LEMMA InitHolds == Init => IInv
<1> SUFFICES ASSUME Init PROVE IInv
  OBVIOUS
<1>1. IsFiniteSet(unacked) /\ Cardinality(unacked) <= Prefetch
  BY NoneOpen DEF Init
<1>2. lastTag \in Nat /\ session \in Nat /\ drops \in 0..MaxDrops /\ phase \in Phases
  BY MaxDropsAssumption DEF Init, Phases
<1>3. TypeOK
  <2>1. /\ published = {} /\ ready = {} /\ unacked = {} /\ jobs = {}
        /\ acked = {} /\ handled = {} /\ bound \in BOOLEAN /\ link \in BOOLEAN
    BY DEF Init
  <2> QED BY <1>1, <1>2, <2>1 DEF TypeOK
<1> QED BY <1>1, <1>3
    DEF Init, IInv, OpenDeliveries, KnownJobs, TagsAgree, SlotsHeldByWork, FirstSessionAcks

LEMMA NextKeeps == IInv /\ [Next]_vars => IInv'
<1> SUFFICES ASSUME IInv, [Next]_vars PROVE IInv'
  OBVIOUS
<1>1. CASE Connect
  BY <1>1, ConnectKeeps
<1>2. CASE Answer
  <2>1. phase \in Opening /\ phase' = Following[phase] /\ link
    BY <1>2 DEF Answer
  <2>2. phase' \in Phases /\ phase' \notin {"start", "waiting"} /\ unacked = {}
    BY <2>1 DEF Opening, Following, Phases, IInv, OpenDeliveries
  <2>3. /\ bound' \in BOOLEAN
        /\ UNCHANGED <<published, ready, unacked, link, lastTag, session, jobs, drops, acked, handled>>
    BY <1>2 DEF Answer, IInv, TypeOK
  <2>4. TypeOK'
    BY <2>2, <2>3 DEF IInv, TypeOK
  <2> QED BY <2>1, <2>2, <2>3, <2>4, QuietKeeps
<1>3. CASE Notice
  <2>1. ~link /\ phase' = "waiting" /\ UNCHANGED <<brokerVars, session, jobs, drops, acked, handled>>
    BY <1>3 DEF Notice
  <2>2. unacked = {} /\ TypeOK'
    BY <2>1 DEF IInv, OpenDeliveries, TypeOK, brokerVars, Phases
  <2> QED BY <2>1, <2>2 DEF IInv, OpenDeliveries, KnownJobs, TagsAgree, SlotsHeldByWork,
                            FirstSessionAcks, brokerVars
<1>4. ASSUME NEW j \in jobs, StartJob(j) \/ Process(j) \/ OnDone(j) PROVE IInv'
  <2>1. CASE StartJob(j)
    BY <2>1, AdvanceKeeps DEF StartJob
  <2>2. CASE Process(j)
    BY <2>2, AdvanceKeeps DEF Process
  <2>3. CASE OnDone(j)
    BY <2>3, OnDoneKeeps
  <2> QED BY <1>4, <2>1, <2>2, <2>3
<1>5. CASE ConnectFails
  <2>1. drops' \in 0..MaxDrops
    BY <1>5, MaxDropsAssumption DEF ConnectFails, Dropped, IInv, TypeOK
  <2> QED BY <1>5, <2>1 DEF ConnectFails, brokerVars, IInv, TypeOK, OpenDeliveries, KnownJobs,
                            TagsAgree, SlotsHeldByWork, FirstSessionAcks
<1>6. CASE Crash
  <2>1. /\ CloseLink /\ phase' \in Phases /\ jobs' \subseteq jobs
        /\ UNCHANGED <<published, bound, lastTag, session, acked, handled>>
    BY <1>6 DEF Crash, Phases
  <2>2. drops' \in 0..MaxDrops /\ bound' \in BOOLEAN
    BY <1>6, MaxDropsAssumption DEF Crash, Dropped, IInv, TypeOK
  <2> QED BY <2>1, <2>2, CloseKeeps
<1>7. CASE LinkLost
  <2>1. /\ CloseLink /\ jobs' \subseteq jobs
        /\ UNCHANGED <<published, bound, lastTag, phase, session, acked, handled>>
    BY <1>7 DEF LinkLost
  <2>2. drops' \in 0..MaxDrops /\ bound' \in BOOLEAN /\ phase' \in Phases
    BY <1>7, <2>1, MaxDropsAssumption DEF LinkLost, Dropped, IInv, TypeOK
  <2> QED BY <2>1, <2>2, CloseKeeps
<1>8. CASE QueueLost
  <2>1. drops' \in 0..MaxDrops
    BY <1>8, MaxDropsAssumption DEF QueueLost, Dropped, IInv, TypeOK
  <2>2. IsFiniteSet(unacked') /\ Cardinality(unacked') <= Prefetch
    BY <1>8, NoneOpen DEF QueueLost
  <2>3. TypeOK'
    BY <1>8, <2>1, <2>2 DEF QueueLost, IInv, TypeOK
  <2> QED BY <1>8, <2>2, <2>3 DEF QueueLost, IInv, OpenDeliveries, KnownJobs, TagsAgree,
                                  SlotsHeldByWork, FirstSessionAcks
<1>9. ASSUME NEW m \in Messages, Publish(m) PROVE IInv'
  <2>1. published \subseteq published' /\ TypeOK'
    BY <1>9 DEF Publish, IInv, TypeOK
  <2> QED BY <1>9, <2>1 DEF Publish, IInv, OpenDeliveries, KnownJobs, TagsAgree, SlotsHeldByWork,
                            FirstSessionAcks
<1>10. ASSUME NEW m \in Messages, Expire(m) PROVE IInv'
  BY <1>10 DEF Expire, IInv, TypeOK, OpenDeliveries, KnownJobs, TagsAgree, SlotsHeldByWork,
               FirstSessionAcks
<1>11. ASSUME NEW m \in Messages, Deliver(m) PROVE IInv'
  BY <1>11, DeliverKeeps
<1>12. CASE UNCHANGED vars
  BY <1>12 DEF vars, brokerVars, IInv, TypeOK, OpenDeliveries, KnownJobs, TagsAgree,
               SlotsHeldByWork, FirstSessionAcks
<1> QED BY <1>1, <1>2, <1>3, <1>4, <1>5, <1>6, <1>7, <1>8, <1>9, <1>10, <1>11, <1>12
    DEF Next, Loop, Pool

LEMMA Inductive == Spec => []IInv
BY InitHolds, NextKeeps, PTL DEF Spec

----------------------------------------------------------------------------
(* Every variable keeps its type, and the broker never has more deliveries *)
(* open than the prefetch count.                                           *)
THEOREM TypeCorrect == Spec => []TypeOK
<1>1. IInv => TypeOK
  BY DEF IInv
<1> QED BY <1>1, Inductive, PTL

(* However links are lost and tags of old connections collide with those   *)
(* of the new one, a delivery that no thread has yet to acknowledge is one *)
(* of a payload that is no JSON object: no other slot leaks.               *)
THEOREM SlotsHeld == Spec => []SlotsHeldByWork
<1>1. IInv => SlotsHeldByWork
  BY DEF IInv
<1> QED BY <1>1, Inductive, PTL

(* On the first connection no value is acknowledged before a thread has    *)
(* processed it.                                                           *)
THEOREM FirstSessionAcksHolds == Spec => []FirstSessionAcks
<1>1. IInv => FirstSessionAcks
  BY DEF IInv
<1> QED BY <1>1, Inductive, PTL
=============================================================================
