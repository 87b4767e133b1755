# A verification project for the SwarmSense IoT platform

TLA+ models of the parts of SwarmSense in which several actors read and write
the same state: the processes of the backend (`src/snms`, Flask, Celery and pika)
that share rows, queues and connections, the browser's MQTT client, and the pages
of the web interface (`src/swarmsense-ui`, React) that share a state with the
answers they wait for. TLC configurations check them, and TLAPS checks proofs of
what matters most about the backend and the pages.

The repository has two trivial tests. Nearly everything below happens between
actors, in orders no unit test arranges.

## The system

Devices post values over HTTP or publish them over MQTT. RabbitMQ bridges MQTT
to AMQP, where the process `snms mqtt` consumes them. Values are stored on the
sensor's row in PostgreSQL and in a time series database, and every value queues
a Celery task that evaluates the sensor's alerts. Celery beat starts three
periodic tasks each minute: two look for sensors that have fallen silent, one
runs scheduled events, which change the configuration of sensors. Users attach
alerts, events and networks to sensors over REST. Several HTTP workers, several
Celery workers (eight in the supplied configuration) and eight consumer threads
share the database at READ COMMITTED; there is no row locking and no version
column anywhere.

In the browser, pages ask the REST API through one client (`rest/`), find their
record in parameters that the page before left in `sessionStorage`, share a login
with the other windows in `localStorage`, and receive values as they are posted
over MQTT in a WebSocket.

| Component | State it keeps | Operations | Talks to | Hard because |
|---|---|---|---|---|
| process_alert (`tasks`) | SensorAlertStatus rows | evaluate a posted value | database, Celery (mails), MQTT (actuators) | tasks of a sensor race; stale rows; commits and sends interleave; exceptions end the walk |
| alert attachment (`modules/alerts`) | alerts, their associations | attach, detach, edit, delete | database | changes under a running task |
| value consumer (`core/mqtt`) | connection, channel, thread pool | connect, deliver, acknowledge | RabbitMQ, post_sensor_values | reconnects, tags, prefetch slots, threads |
| posting (`modules/sensors`) | the sensor's row | store a value, end an outage | database, time series, Celery | read, queue, write in that order |
| silence (`tasks`) | is_down, is_inactive, status rows | device_status, inactivity_alerts_check | database, Celery | stale reads against fresh values; NULLs |
| configuration (`modules/sensors`, `modules/events`) | config, config_updated | put, actuate, run event, acknowledge | database, MQTT | whole-column read-modify-write by four writers |
| scheduled events (`modules/events`) | next_runtime | save, run each minute | configuration | equality with the minute; calendar arithmetic |
| companies (`modules/companies`, `modules/auth`) | users, roles, invitations | sign up, invite, add, remove, close | database, mail | several transactions for one operation, lookups before inserts |
| browser's MQTT client (`public/mqttws31.js`) | queue, identifiers, `localStorage` | connect, send, receive, disconnect | broker, pages | cut sockets, reloads, fall-backs, chunks of packets |
| dashboards and widgets (`custom_dashboard`, `Widget*.jsx`) | widgets, layouts, registry of sensors, live clients | load, edit, save, receive | REST, MQTT client | answers, modes and live values cross |
| session (`index.js`, `set_app_settings.js`, `auth_client.js`) | token, user, company, per window and shared | boot, log in and out, switch, log in as | REST, the other windows | `localStorage` is shared, `sessionStorage` is not |
| REST client (`src/rest`) | none | translate calls and answers | REST | windows of time, filters, pages |
| pages of sensors, navigation, account | React state, `sessionStorage` | choose, link, save | REST | what was chosen changes under a call |
| channel pool, networks, sensor types, files, firmware, statistics | rows, series, files | CRUD, copies | databases | dead code or sequential: not modelled |

What makes each correct: an alert is announced on evidence, once, and cleared
once; a value that was acknowledged was processed; ingestion recovers from every
loss; an outage is announced once and ends once; a change of configuration
reaches the device and is not lost to another; an event runs on the days its
form promises; who was invited belongs; a message of quality 2 arrives once; a
page shows what the server, the session and its own buttons say.

## Modules

| Module | What it is |
|---|---|
| `AlertProcessing` | `process_alert` for one sensor, with the environment it runs in, and its refinement mapping |
| `AlertEpisode` | what an alert's status promises a user: quiet, pending, firing |
| `MqttConsumer` | `EmqpConsumer` and as much of RabbitMQ and pika as it depends on |
| `SensorActivity` | `post_sensor_values`, `device_status`, `inactivity_alerts_check` on the sensors' rows |
| `SensorConfig` | a sensor's configuration, its four writers, its scheduled events and its device |
| `EventCalendar` | the form of an event and the dates `get_next_runtime` makes of it |
| `CompanyUsers` | the users of a company and its invitations, with the accounts opened meanwhile |
| `MqttWire` | the packets of the browser's MQTT client: `encode` and `decodeMessage`, byte by byte |
| `PahoClient` | that client over sockets, `localStorage` and timers, with the pages' wrapper and a broker |
| `WebCore` | a mounted page, its React state, its calls in flight and the server |
| `WebDashboard`, `WebWidgets` | a dashboard with its dialogs and live clients; one widget in view |
| `WebSession` | login, company and role in several windows |
| `WebRequests` | the REST client, `api_wraps.js` and the addresses of the resources |
| `WebSensorPages` | the graphs of sensors' histories and the list of sensors |
| `WebNavigation` | routes, parameters, checks of the pages, breadcrumbs, links of every list |
| `WebAccount` | opening, verifying and recovering an account; the profile and its company switcher |
| `...Proofs` | TLAPS proofs about `AlertProcessing`, `MqttConsumer`, `SensorActivity`, `SensorConfig`, `PahoClient` with its packets; `WebFormsProofs` about `WebSession`, `EventCalendar`, `CompanyUsers`; `WebPagesProofs` about single pages and the way between them |
| `MC...` | instances for TLC; `MCWebApp` puts the pages together |

### AlertProcessing

An action is what a worker does up to the next point at which another process
can intervene: the query, the decision on one row of it (`PassOver`, `Reset`,
`Hold`, `Fire`, `Fail`), the commit (`CommitReset`, `CommitHold`, `CommitFire`,
`CommitConflict`), the send (`Announce`, `Actuate`). The order of the code is
kept where it matters: a reset is sent *before* its commit, an announcement
*after* it, and the commit of a reset ends the task.

* `status[a]` is the SensorAlertStatus row of the sensor and alert `a`; the flag
  `absent` means that there is none, `null` that `triggered` was never set.
* `view` and `expired` model SQLAlchemy's identity map: rows are those of the
  query until the task commits, and read again after it (`Loaded`). A row that
  did not exist when the query ran stays `None` in the task (`status is None`),
  so its commit is an INSERT and may conflict.
* `Updated` writes only the columns the task changed *from the value it loaded*,
  as the UPDATE SQLAlchemy emits does; this is what makes lost updates possible.
* `QueryRows` is the outer join: each network of an alert is paired with each
  association of it, and a pair is a row if either leads to the sensor. `via`
  keeps the association of the row, which may be another sensor's.
* Time is in minutes and is read once by a task, when it starts.
* `notes`, `reports` and `skipped` are history: what was sent, what each task's
  reading said of each alert it was to look at, and what it never looked at.

Left out: alerts of type geo-fencing (their test is a pure function of the
sensor's coordinates, which the row carries rather than the posted data), the
rendering of texts except that it may raise (`detailsFail`), and the alert
history in the time series database.

### MqttConsumer

`phase` is what the consumer waits for; each answer of the broker is one step of
`Answer`. `link` is the broker's view of the connection, so between `LinkLost`
and `Notice` the consumer holds a dead channel. Delivery tags count from 1 on
each channel. A job is a delivery handed to the thread pool; `OnDone` is the done
callback, run by the pool's thread, and acknowledges the job's tag on the
channel of the moment, whatever that is. Payloads are of three kinds, as
`process_message` tells them apart. The broker's half (`CloseLink`, `LinkLost`,
`Publish`, `Crash`) is external. `stop` and the callbacks only it reaches are
left out: no code calls it.

### SensorActivity

Three kinds of process write one row: a poster reads the sensor, queues the
recovery if the sensor was inactive, and commits the value in the end; the check
reads all rows it will look at, then commits `is_inactive` and the status row for
each; `device_status` reads all sensors and commits `is_down`. `Stored`, `Commit`
and `StatusCommit` write only the columns the code writes. A fault is a killed
worker, a time series database that refuses the value, or a text that cannot be
rendered.

### SensorConfig

Every writer of `Sensor.config` reads the row (`Load`, `RunRead`), changes its
copy (`Copy`, `Accumulated`), commits the whole column (`Store`) and publishes
the copy (`Publish`; `run_schedule_events` publishes each event's copy *before*
the commit, in `RunEvent`). Between any two of these another writer may act. As
in the UPDATE that SQLAlchemy emits, a column whose value equals the one loaded
is not written; `Store` and `RunCommit` say so, and this decides who wins a race.

* A change is a set of fields with values: what the body of a REST request, an
  alert's or an event's field and value amount to.
* `next[e]` is the event's `next_runtime`. The task compares it with its minute for
  equality, so a minute that passes with an event due (`Tick` with `Due`
  non-empty) is a fault and ends a repeated event for good.
* A device either listens to `sensors/<uid>/configuration` (`Polls` false: a
  publication replaces its configuration, or is lost) or polls: the answer to a
  posted value tells it that `config_updated` is set (`Poll`), then it fetches and
  acknowledges. `AckRead` and `AckCommit` are two steps because the handler reads
  the row first: NULL over NULL is not written.
* `raced` is history: something was committed since the device fetched. So are `wanted`,
  what each field was last asked to have, `missed`, the fields that have changed
  since a worker read its copy, and `exposed`, those whose last change a commit undid
  because its copy was older. They look at the configuration and the requests and
  decide nothing.

Left out: default configurations of sensor types (the first one is any), events
of several sensors, the calendar (`Period` is constant; see `EventCalendar`), the
edit of an event's field, value and repetition. `add_event_history` flushes
the task's UPDATE when it loads the company, and the row is locked until the commit: the model lets another
commit come in between, a superset of what PostgreSQL allows. Alerts and events
publish on `sensors/` and not on `sensors_hid/`: the listening device is one that
has subscribed to the former.

### EventCalendar

`Saves` is `FormEvent.jsx`'s submit, `EventServed` the handlers that store the event
with its first date, `DayPasses` the task on the next day, which may find the event
due and asks `NextRuntime` again.
Months have their lengths and years their leap days; a date is a number of days,
and a day begins at the event's time of day, so that `NextRuntime`'s comparisons
of moments are comparisons of days. `SensorConfig` has the races of task and
edits; this module has the arithmetic. Changing the actuator's type in the form
keeps the field and value of the old one: they are data here.

### CompanyUsers

Each request is served in the steps of its handler, one for each transaction and
each read that a later step relies on: a removal deletes roles, then invitations;
a sign-up commits the account, reads the invitations, commits all memberships at
once and answers 409 if one exists already. `owed` and `joined` are history: the
invitations that stood when an account was opened, and who was told that the
sign-up succeeded. What the model follows the code in, and a reader may not
expect: `filter(email == email)` in the removal of a user compares a name with
itself and deletes every invitation of every company; a sign-up with two
invitations of one company, or added meanwhile, is answered with 409 although
its account exists; an account that a super administrator opens takes no
invitation up; an invitation made between the sign-up's read and its commit is
lost; invitations are never used up, and a deleted user's address stays taken.
The property is stated around these (`owed` shrinks with an invitation).

### MqttWire and PahoClient

`MqttWire` writes and reads packets as `WireMessage.encode` and `decodeMessage` do,
on sequences of bytes: variable lengths, UTF-8 with surrogates, the flags of
CONNECT. `PahoClient` runs them. A handler of JavaScript runs to its end and calls
others on the way, so `_process_queue`, `_receivePublish`, `_disconnected` and the
rest are operators from the client's record to its record, in the order of the
code; an exception is the field `thrown`. The page's handlers throw on the payloads in
`Unreadable` (`JSON.parse` in `startLiveUpdates`), in the middle of what the client
does with the message: after PUBREL has removed the copy in `localStorage`, before the
entry of `_receivedMessages` goes and PUBCOMP is sent. `_handleMessage` catches it and
disconnects. An action is one event: a call of a page
(`utils/mqtt.js`, `startLiveUpdates`), an event of the socket or of a timer, a step
of the broker. A publication may arrive in two chunks, split at a position in `Cuts`.

The broker, the socket and the timers' clock are external. The broker keeps the
protocol: it takes a message of quality 2 under its identifier once, and repeats
what was not acknowledged when a session is resumed. Left out: the timeouts of
subscribe and unsubscribe (they only call back), the trace buffer, callbacks that
call the client again except `onSuccess` subscribing.

The properties are stated around what the code does: `_disconnected` keeps
`receiveBuffer`, so a connection may begin with half a packet of the one before
(`misframed`, an escape of `NothingGarbled` and of the exactly-once
properties); `_requires_ack` lets the identifier run past its maximum;
`_notify_msg_sent` is kept under one key; `_sequence` begins again after a reload. A
message on which the handler throws may be handed over again, so `ExactlyOnceIn` is
about the others, which the disconnections it causes must not double; and
`localStorage` may lack the entry of such a message and no other.

### The web interface

`WebCore` has one mounted page (`page`, `ui`), its server (`srv`) and the calls in
flight (`net`): each is sent, served or not, and answered with success or failure,
and answers may overtake each other. The modules of the pages add their `Init` and
`Next`; one behaviour of `MCWebApp` stays on one page, so its state space is the
sum of theirs. A page that the code takes down with an exception or an error page
stays there. Values and titles are data; the order of `setState`, callbacks and
promises is that of the code. `net` has no order, so a stale answer is any answer
to what has changed since.

* `WebDashboard`: `load_dashboard`, the edit mode, the dialog of a widget, saves and
  their failures, resizes (a timer), `startLiveUpdates` and `stopLiveUpdates`;
  `ui.live` stands for `this.mqtt_clients`. The registry is a sequence and may
  hold a sensor twice; `Without` is `Array.filter`, spelt out by the rank of what it
  keeps; `srv.given` are the ids the server ever gave, for it gives none twice. A
  call of `addWidget` carries the copies of the widgets and of their backup that it
  took before it left, and its answer puts them back (`WidgetAdded`), whatever
  was loaded, changed, saved or removed meanwhile. `ui.putBack` is history: what
  such an answer has put back that the page did not show, since `startLiveUpdates`
  was last called; no client was started for it, and `LiveInViewMode` excepts it.
* `WebWidgets`: which view a widget gets, and the local state of the graph, the
  toggle, the slider and the custom widget.
* `WebSession`: the stages of the boot with their failures, login, login as another
  user in a window of its own, logout, the switch of the company.
* `WebRequests`: the windows of time that a history is asked for in, and the pages,
  filters and addresses of every resource.
* `WebSensorPages`: `GraphSensorHistory` with its periods and comparisons;
  `ListSensors` with its selection and its dialogs of two calls.
* `WebNavigation`: each list's link sets parameters and an address; each page checks
  the parameters, or forwards; the trail is built from the address and from them.
* `WebAccount`: the four forms with the handlers behind them (codes and their mails),
  and the profile, which saves the name in one call and the meta data in one for
  each key that differs. `CompanySwitcher`, which is shown on it, keeps a copy of all the
  meta data as stored at the boot (`ui.stored`); `make_default` puts the copy in the
  place of what the page shows (`Defaulted`). `honest` and `undone` are history: the
  user saved without an edit into a save, a failure or an edit left behind; a
  default has undone the address. What another window writes to `localStorage` is
  left out here (see `WebSession`), as is the page left while a call is under way.

The home page, the floor map, the older dashboard page, the map widget and
admin-on-rest's own lists and forms are left out.

## Runs

All runs set `CHECK_DEADLOCK FALSE`: clock, posts, edits and faults are bounded,
so every behaviour ends when they are used up.

| Run | Instance | Shows |
|---|---|---|
| `alerts_serial` | 1 worker, 2 alerts, 2 networks of which the sensor is in one, 4 values, 4 minutes, 1 crash | `AnnouncedAtStamp`, `NoDuplicateInsert`, `ThresholdHonoured`, refinement of `AlertEpisode` |
| `alerts_racing` | 2 workers, a notification and a trigger alert, 3 values, 1 edit | `NotificationBacked`, `TriggeredIsAnnounced`, `ResetFollowsAnnouncement` |
| `alerts_threshold` | 1 worker, 2 alerts | counterexample to "Trigger only if alert is active for this duration" |
| `alerts_snooze` | 1 worker, a trigger alert and a notification | counterexample to "Process the alerts for the sensor" |
| `mqtt_consumer` | one message of each kind, 2 threads, prefetch 2, 1 loss | no leaked slot, no early acknowledgement on the first connection, recovery, drained queue |
| `mqtt_ack` | 2 values, 1 loss | counterexample: a tag acknowledged on another channel |
| `sensor_activity` | 1 poster, 1 check, 1 device_status, 2 alerts of which one has two rows, 2 values, 1 fault | outages and recoveries pair up, silence is marked |
| `activity_first` | a sensor that never posted | counterexample: its values raise for ever |
| `config_serial` | 1 worker, a listening device, 2 fields, a repeated and a single event, 5 minutes, 2 changes, 1 fault | changes add up and arrive, every occurrence of an event is run |
| `config_racing` | 2 workers, a polling device that may restart, 2 fields, requests for both and 1 event for one of them, 1 minute, 2 changes, 1 fault | a field keeps what it was last asked to have, unless it was changed while a writer held its copy; what the device has acknowledged it has, except for a write in between; it learns of every other |
| `paho_client` | 1 message out, 2 in under one identifier, the handler throws on one, 2 identifiers, 7 sets of options (clean and resumed sessions, 1 or 2 hosts, versions, qualities 0 to 2), 2 connects, 2 faults | quality 2 is exact both ways for what the handler does not throw on, `localStorage` mirrors the client but for what it throws on, an ended client stays ended, nothing is garbled, attempts end |
| `web_app` | each page alone, 2 calls in flight | see below |

What `web_app` shows, page by page:

| Property | Meaning |
|---|---|
| `RegistryCovers` | each sensor of a widget is in the dashboard's registry exactly once, whatever was edited, cancelled, saved, received or put back by an add |
| `LiveInViewMode` | a loaded dashboard in view mode has a live client for each widget, those apart that an add put back |
| `DrawnIsPressed` | a graph draws the period of its disabled button, unless a press crossed a load |
| `SessionAgrees` | a window's user, company and role are those of its token, whatever other windows do |
| `ImpersonationStays` | what windows share is only of users who typed their password |
| `HistoryWindow` | every history is asked for within one window, in groups that make no more points than asked |
| `DialogIsOfSensor` | the dashboards offered are those of the type of the sensor they will be opened for |
| `PlaceIsTold` | a link shows what it names, and the trail above it leads back |
| `AccountAgrees` | an account is verified only by its own mail; a name or address the profile takes for saved is, unless a default has undone it |
| `MembersAgree` | an owner stays administrator; who signed up with success belongs where he was invited |
| `RunsAsPromised` | an event runs on all the days its form promises, the first of a weekly one apart |

Why the bounds suffice. An episode of an alert needs three values (pending,
firing, cleared) and one more to begin again; a lost update needs two workers;
an out-of-turn reading needs a clock that moves between two starts. A stale tag
needs two deliveries on two channels, hence one loss. An outage, its recovery and
a second outage need two values and a clock that passes both limits. The second
alert is there because the failures found are failures of one alert caused by
another. Four properties of `alerts_serial` are *not* true of two workers, and
are stated for one: with two, an INSERT can conflict and stamps can be written
out of turn. What survives any number of workers is in `alerts_racing` and in the
theorems. `RecoveryFollowsOutage`, `TriggeredIsAnnounced` and
`ResetFollowsAnnouncement` are conditional on no fault: the code acts between two
transactions and has no outbox.

A repeated event needs three occurrences (1, 3, 5 minutes) to show a wrong
period; events of different fields in one minute show one undoing the other; a
device that fetched needs one write before and one after its acknowledgement.
The properties of `config_serial` are *not* true of two workers: a change is
lost to a writer that had read the row earlier, and an event whose value the
configuration already had is not written at all and loses to any change
committed meanwhile. `AskedStays` of `config_racing` says that these two are the only
ways to lose one. It takes two workers that hold a copy each, and two fields, so
that one can name what the other leaves out: requests name both (`Requests`, the
changes a request may ask for, is there to keep the run small), the event one.

A message of quality 2 needs one cut between any two of its four packets, and a
second one during what that cut started: two faults. An identifier is used again
when there are two. A handler that throws costs a connection, so `paho_client` has
two of them and a message behind the one it throws on, under the same identifier.
The pages ask for clean sessions; that a session is resumed is what the client
offers any caller, and is where the exception shows. The samples of `WrittenIsReadable` lie around the borders of
the format (127 and 128 bytes, the ends of each UTF-8 width, empty strings).

Two calls in flight are enough for one to overtake the other, an add and the
removal or load it undoes, a save and a default; three calls
(widgets, account, company users) add one that was made of what the first two
left. Two sensors, companies, users and windows let each be taken for the other.
Three boots are a login, a reload and another user's. The calendar's start days
are around the end of January, 15 February and 29 February of a leap year, with a
forty-day walk from days in winter, before the end of March (with a start long past),
at the end of a year and before a leap day.
A company has an owner, another administrator and a guest.

`OneDownPerSilence` is stated for one check, and only forbids a second message with
no newer value in between. A value whose transaction commits
after a later check's may leave `last_execute` ahead of `last_update`: the next
silence is then not announced at all. That is a hazard of the code, not a
promise it makes.

### Fairness

`MqttConsumer` assumes weak fairness of the connection's callbacks and timers
(tornado's IOLoop), of the broker's deliveries, and of the pool (no thread hangs
in `process_message`). Nothing forces a message to be published or to expire,
and nothing forbids a loss, but losses are bounded: `Recovers` says that the
consumer gets back after the last of them. `SensorActivity` assumes that
`device_status` runs, which beat ensures each minute, and nothing of the other
processes. `SensorConfig` assumes that the device posts values and goes on once it
is told to fetch, and nothing of the writers: `Learns` is about the device, and
restarts are bounded. `PahoClient` assumes only that an armed timer of the browser
fires (`ConnectTimeout`); `AttemptsEnd` holds of a broker that never answers. The
web pages assume nothing: a REST call may stay unanswered for ever.

### Disagreements found

Four runs expect a violation, each of a sentence in the code; PROJECT.json quotes
them under `findings`. In short: `return` where `continue` was meant after a
reset; a snooze of None in arithmetic; an acknowledgement on a channel other
than the delivery's; a `last_update` of None when a sensor that was marked
inactive posts its first value.

## Proofs

All theorems are about the unbounded system: any sets of workers, alerts, people,
messages and so on, and any values of the bounds. The assumptions are the named
ones of the modules proved about (types of constants, no more), and where a
theorem says so, one worker or one poster.

**`AlertProcessingProofs`**, for any number of workers:

* `TypeCorrect`: `Spec => []TypeOK`, one lemma for the environment, one for the
  end of a task, one step for each action of a worker.
* `NotificationsBacked`: `Spec => []NotificationBacked`. It is not inductive: an
  announcement copies the worker's decision, the decision what the worker had
  loaded, and that what some task had committed. The invariant `Evidence` follows
  the stamp along this path: every non-NULL stamp, in a status row
  (`StatusBacked`), in a loaded row (`ViewBacked`) or in a pending decision
  (`StepBacked`), is the time of a reading that triggered the alert, and the
  reading of a running task has been recorded for every row it will walk
  (`RowsReported`). Lost updates do not break it, because each column that a
  task writes carries its own evidence; that is why the theorem holds of
  concurrent workers while the refinement of `AlertEpisode` does not.
* `TriggeredAnnounced` and `ResetsAnnounced`, while no worker was killed: `AllTold`
  says of every copy of a triggered flag, in a row, a view or a decision, that its
  alert was told of or that some worker is about to tell. Once told, always told,
  so only the step in between needs care.

and for one worker, `Workers = {w}`:

* `NoDuplicates`: `Unwritten`, that a row the task found missing and has not
  written is still missing, whichever of the rows of the query lead to it.
* `EpisodesImplemented`: `Spec => ImplementsEpisode`, the refinement of
  `AlertEpisode`. `Serial` says that what the worker has loaded of alerts it has
  yet to process is what is stored, that stamps are never ahead of the
  task, and that a decision rests on the row it will write. `CommitShape` lists the rows a commit can leave, and each is a
  move of an episode; every other step stutters or lets time pass.
* `StampsAnnounced`, with `Stamped` on top of `Serial`: announcements lie at or
  before the stamp of their row, the last of them on it.
* `ThresholdsHonoured`, with `Patient`: every cold reading later than a pending
  stamp was skipped, or is the running task's and will reset the alert (`Heeded`),
  so that a decision to fire looks back on none (`LooksBack`).

**`MqttConsumerProofs`**: `TypeCorrect`, `SlotsHeld` and `FirstSessionAcksHolds` from one
inductive invariant. `OpenDeliveries` ties the broker's deliveries to an open
channel, `KnownJobs` the jobs to connections and tags that exist, and `TagsAgree`
says that on the connection that made it a tag names one message. Without the
last, an acknowledgement could free a delivery whose thread is still at work;
with it, only one of an earlier connection can, and `FirstSessionAcks` excludes that.

**`SensorActivityProofs`**: `TypeCorrect` (with `AtWork`: who is at a commit has decided);
`UpFollowsDownHolds`, that without a fault a recovery follows an outage that was
announced or is about to be. `Traced` follows "inactive" through all its copies,
from the row to the poster that read it, the queued recovery, the task, the step
and the message. `RecoveryFollowsOutageHolds` adds, for one poster, that a sensor
comes back no more often than it was lost; `Counted` keeps the books, and the
poster that has queued the recovery but not committed is one entry of them.

With one check at a time, `OneDownPerSilenceHolds`: a status row holds the time of its
latest message and only the task at work writes it, so what it has found of a row
is what is stored (`ViewCurrent`), and a decision to announce an outage rests on a
value later than that (`Deciding`, `Announcing`). Posters never write a status row,
so there may be any number of them, with rows as stale as they like.

**`SensorConfigProofs`**:

* `StaleOnlyByRaceHolds`: `Spec => []StaleOnlyByRace`. Alone it is not inductive:
  the acknowledgement clears the flag without a look at the configuration. The
  missing part is `FetchedIsCurrent`, which holds from the fetch on because each
  commit of a writer, whatever it writes, either comes before the fetch or sets
  `raced`. Four lemmas take the steps by what they touch: a store, a delivery, the
  device's own steps, all others.
* `TypeCorrect`: `Spec => []TypeOK`. Its last conjunct, that an event which does
  not repeat keeps its schedule, needs `KeepsOnce`: a running task holds the
  `next_runtime` it has read, so its commit does not write the column.

* `AskedStaysHolds`: `Spec => []AskedStays`, for any number of workers. `Holds` says
  that a worker's copy differs from the row only in the fields it is known to have
  missed, whoever has committed since. So a commit either sets a field as
  it was asked to, leaves it as it is, or undoes one that was missed (`CommitAsked`).
* with one worker, from `Alone`, nobody writes the row between the
  worker's read and its commit. `QuietIsDeliveredHolds` adds `Heard`: a running task
  has published all that it has gathered, so that a device has the copy before it
  is stored. `EventsTakeEffectHolds`: `Gathered` says of a task's copy that every
  field of an event it ran is there with the value of one of these, and `Together`
  that the events a commit adds to those that occurred are the ones of one task.
* `EveryOccurrenceHolds`, while no minute was missed: `OnTime` says that what is scheduled for an
  event nobody edits is its first occurrence from now on, and that a task at work has
  computed the next one from the start that is stored. `NextIsFirst` is the
  arithmetic of `get_next_runtime` with a remainder: no occurrence is skipped.

`Overlaid` is `dict.update`, spelt out because the prover does not know the `@@` of
module TLC.

**`WebFormsProofs`**, on companies: `MembersAgreeHolds`, of `MembersSpec`, the page of company users
alone (one of the disjuncts of `web_app`). What a sign-up owes lies in three places
one after the other: the invitations, what the request has read, the roles.
`Pending` says that whatever is owed to a user whose sign-up is under way is in one
of them, and `Keeps` is what each other step must leave alone for that: most
delicate where a removal deletes invitations between the sign-up's two commits,
and the debt with them.

**`WebFormsProofs`**, on sessions: `ImpersonationStaysHolds` and `SessionAgreesHolds`, of
`SessionSpec`, for any number of windows. `Sound` says stage by stage what a window may
have before it is done: nothing in its store until it loads, the token's user in
what it loads, and a token of someone who never typed a password only in a window
opened to log in as him. Each action is a step of one window (`StepOf`), and what is shown
is that it leaves the others, which share `localStorage` with it, as sound as they were.

**`WebFormsProofs`**, on the calendar: `RunsAsPromisedHolds`, of `CalendarSpec`, the form of an event and
the days that pass. The calendar first: each month begins where the one before it ends
(`FirstDayNext`, the only step that looks into the tables), so that every day is of one
month and `MonthOf`, which searches a few, finds it (`MonthIsFound`); `AddMonths` leads
to the month it says, later for more months, and `WholeMonths` is the last number of them
not beyond now. Hence the dates of `get_next_runtime`: the first that is left of those the
form promises (`NextIsNext`), in weeks a date within thirteen days (`NextWeekly`), which
after a run is the one seven days later. `KeptDates` says by kind of event what has run since it was
saved and which date is next; of weeks, that all are kept from a `first` on. What takes
an induction over months in a book takes the least counterexample here (`LeastNat`). The
calendar is that of the model: every fourth year is a leap year, as between 1901 and 2099.

**`WebPagesProofs`**, each page by itself with any number of calls in flight:

* `DrawnIsPressedHolds`: `Drawn`, that there is at most one load, from the period drawn to
  the one pressed, until a press crosses it.
* `DialogIsOfSensorHolds`: `ListInv`, that at most one answer with dashboards is awaited,
  of the sensor chosen last.
* `HistoryWindowHolds`, of the wrappers and of the page of graphs: every window that is
  kept or asked for has its ends in order; `Grouped` is the arithmetic of the
  rounded length of a group.
* `AccountAgreesHolds`: `SoundServer` ties an account's codes to the mails that carried
  them. `Honest` says key by key what a save under way and the page agree on: a save
  carries what is shown; of a part of which some save has been kept (`Carried`) the
  server has what is shown, of the others what the page takes for saved. A default
  is a call of its own that disturbs neither, unless the addresses differ, and then
  it has undone one.
* `LiveInViewModeHolds` and `RegistryCoversHolds`, of a dashboard, from `DashInv`. Nothing is placed
  before the load ends (`NothingPlaced`), so that an early Save can do no harm; the
  widgets and their saved copies have the same ids at the same places (`Aligned`),
  so that Cancel finds what it puts back; and the registry knows the sensors of all
  kinds of widgets a step may show: shown, saved, being saved, and those in the two copies of an
  add under way (`RegistryComplete`), which are `Aligned` like the page's own. The last is the reason for the whole: each change registers the sensor of
  the new widget, and none ever takes one out. What `filter` keeps is counted by ranks, and
  `RankAt` finds the place of the j-th by the least number that has as many before
  it (`LeastNat`): the order of the naturals is well founded, which here takes the
  place of an induction.
* `PlaceIsToldHolds`, of the way from page to page, for any records and any places a user
  may visit. Two facts survive every move (`NavInv`): each parameter is an object some
  list may have left (`ParamsOK`), and what was asked of the chart is still in them
  (`StillAsked`), because a link that asks for a chart sets every parameter the chart
  reads. That the trail leads back then holds of every page and all parameters:
  `Found` is what a page that is shown has found in them, and the trails are taken
  family by family. The proof found a form the run had not visited and a check the
  model had left out, those of the alerts of a network, which are the forms of its sensors.

**`PahoClientProofs`**, first what the client reads. `decodeMBI`, `parseUTF8` and `Deframe` are
recursive functions, and what such a function is for every input takes an induction
over data. Here it takes a table: a function whose entries look only ahead, or only
back, has a table of values, since a least entry without one cannot be (`TableIs`,
`LeastNat`), and the function is that table. A fold over a sequence is turned into a
function on sets of positions first (`FoldedIs`). From there each packet
of the broker is read back as the message it was made of (`Carries`: `PublishCarried`,
`AckCarried`, `ConnackCarried`, `SubackCarried`), for identifiers of sixteen bits, and a
run of bytes is framed alike however it is cut (`YieldsPart`, `YieldsWhole`,
`YieldsWholeAndPart`, `YieldsBoth`). `PublishReadBack` is the result in one sentence.

Then what arrives: `PahoInvariant`, and from it `PahoExactlyOnceIn`,
`PahoNothingGarbled` and `PahoEndedStaysEnded`, for any messages, identifiers, options,
numbers of hosts, ways to cut a packet and bounds. The invariant `IInv` is `Good`, unless a
connection began with part of a packet in the buffer (`misframed`, which never ends
once it has happened: from then on the client may read anything as anything). `Good` says

* of the record that it is well formed between events (`Rests`), that a connection that
  is up has no host left to try (`Attached`), which is why `_disconnected` then stops,
  that a CONNECT is sent once and first (`Dialled`), and that a client told to
  disconnect is `Gone`;
* of the bytes (`OnTheWay`) that there is a row of tags, one for each chunk: a whole packet
  of a known message, or its first or second part, each first part followed by its second
  (`Tagged`, `Chain`), and that the buffer fits the first of them (`Link`): it is empty, or
  the first part of what comes next;
* of messages of quality 2 a `Ledger` of four places: what the page was handed, what the
  client keeps, what is on its way, and how far the broker's flow is. What was handed over
  is kept no longer and on its way no more (`HandedOnce`); one copy at most is on its way
  (`OneCopy`); a PUBREL follows every copy of its message, and none is on its way before the
  broker has seen the PUBREC (`ReleasedLast`, `ReleasedPast`); and an identifier serves one
  open message at a time (`OneOpen`). A message on which the handler
  throws may be handed over and still be kept, so the first speaks of the others only; `Backs` says
  that it is also the only kind that the client keeps without its copy in `localStorage`. Without any of these, a copy of the message could come
  behind the PUBREL that hands it over, and be kept and handed over again.

A handler is a composition of operators, so the proof is one too: each operator has a
lemma on what it keeps of the record (`Typed`), of what the page hears (`Quiet`) and of the
connection (`Keeps`); a fold keeps what each turn keeps
(`ResendAllKeeps`, `FoldedAppend`); `Mid` is
the invariant between two messages of one chunk. Then there is one lemma for each action,
from `ConnectGood` to `BrokerPublishesGood`. The assumption on the constants is that
identifiers the broker gives have sixteen bits, as the protocol says.

Only model-checked: of the MQTT client, what it *sends* (`ExactlyOnceOut`,
`DeliveredIsTaken`, `HeldIdIsNotReused`, `StoreMirrorsState`), and all liveness (`Recovers`,
`Drained`, `SilentIsDown`, `Learns`, `AttemptsEnd`), which this prover does not do. The
identifiers of messages sent are the reason for the former: `_requires_ack` lets them grow
past sixteen bits, their answers come back reduced, and the four properties hold only
while they do not. `WrittenIsReadable` is about texts and lengths that the pages never
send, too: it stays with TLC and its samples.

## Observed on the way

Behaviour that a reader of the code may want to know, that the models reproduce or
their properties are stated around, and that no run is set apart for:

* `CustomDashboard.jsx`: Edit and Save during the first load save an empty layout
  under a title of dots; a quick Save and Edit leaves live updates on in edit mode;
  two clients of one sensor overwrite each other's values in the closure of
  `startLiveUpdates`; a dashboard opened for a sensor of another type loads for ever.
  `addWidget` (765-783) puts its copies of the widgets and of their backup back when
  it is answered: a widget removed meanwhile is shown again, one that was edited or
  saved is as before, without a client of its values, and a widget that is added before
  the load has ended may leave the page with that one widget.
* `SwitchCompany.jsx` (112): to choose a default company puts the meta data of the boot in
  place of the page's. On the profile, which shows this menu, an address saved
  since the boot is undone, and the page takes the old one for the saved one.
* `mqttws31.js` (1456-1468, 1532): if the handler throws on a message of quality 2, the client
  disconnects with its entry kept and PUBCOMP not sent. On a resumed session the
  broker repeats the PUBREL and the message is handed over again, although the
  comment on `Message.qos` says "Exactly once" (2424). The pages ask for clean sessions,
  where it does not show. An acknowledgement that finds a SUBSCRIBE or UNSUBSCRIBE under
  its identifier passes it to `onMessageDelivered`, whose handler throws on it.
* `WidgetGraph.jsx`: loads are drawn in the order of their answers. The slider's 0
  is sent as undefined.
* `auth_client.js`: a failed login leaves `localStorage.current_user`; a logout in a
  window opened by "login as" clears every window's storage.
* `rest_client.js`: the answer to a list that carries no total is read as that of an
  update.
* Lists of types, maps and floor maps set only the parameter `sensor`, so after a
  comparison their link shows the comparison; two forms forward to an address that
  has no route, and the forms that add sensors and alerts to a network name their
  forward `OnResolveFail`, so that they are shown without a network.
* `UserProfile.jsx`: an email edited there is ignored by the server and reported as
  saved; edits made during a save are taken for saved.
* `auth/controllers.py`: a reset asked for an unknown address raises on None; a code
  that is mailed again replaces the one mailed before.
* `utils/mqtt.js`: `onMessageDelivered` calls `onMessageArrived`. The DISCONNECT queued
  before CONNACK is lost, and the older version of the protocol is tried instead.

## Not modelled

* The columns of an alert other than its activity, and alerts of type geo-fencing:
  constants of the model.
* `fpika`'s channel pool and the consumer's `stop`: nothing in the repository calls
  them. The per-company counter: one atomic statement, called nowhere.
* Networks of sensors, sensor types, firmware, settings, stored files, statistics,
  deletion of data: handlers of one statement, or copies without a reader that
  relies on them.
* Time series adapters, mail, SMS: I/O; that they may fail is modelled where it
  matters.
* Device authorisation: a decision about one request, without state.
* The home page, the floor map, the older dashboard page and admin-on-rest's own
  lists and forms.

What remains worth doing: the outgoing half of the MQTT client's invariant, with a ledger
of identifiers that have sixteen bits; two pages mounted one after the other with calls of the
first still in flight, which the code ignores with a warning of React.
