---------------------------- MODULE WebRequests ----------------------------
(***************************************************************************)
(* What the web interface asks the REST API: the wrappers of api_wraps.js, *)
(* the translation of a call to an HTTP request and of its answer back     *)
(* (rest_client.js), and the addresses of the resources                    *)
(* (url_transforms.js).  An address is the sequence of its segments, times *)
(* are seconds.                                                            *)
(***************************************************************************)
EXTENDS WebCore, SequencesExt

CONSTANTS
  Missing,   \* an argument that was not given: undefined, null or ""
  Ids,       \* ids of companies, sensors, dashboards, ...
  Now,       \* the moment of the calls
  Week,      \* the window asked for by default
  MaxPoints  \* points of a history asked for by default

ASSUME RequestAssumption ==
  Missing \notin Ids /\ Now \in Nat /\ Week \in Nat /\ MaxPoints \in Nat \ {0}

Given(x) == x # Missing
Else(x, default) == IF Given(x) THEN x ELSE default

(***************************************************************************)
(* Resources that stand for an address with parameters of the session; the *)
(* others stand for themselves.  A parameter the session lacks leaves its  *)
(* placeholder in the address.                                             *)
(***************************************************************************)
Placeholders == {"cid", "sid", "stype", "nid"}
InCompany(tail) == <<"companies", "cid">> \o tail
OfSensor(tail) == <<"sensors", "sid", tail>>

url_transforms ==
  [my_meta_data |-> <<"me", "meta_data">>,
   company_users |-> InCompany(<<"users">>),
   company_sensors |-> InCompany(<<"sensors">>),
   sensors_map |-> InCompany(<<"sensors">>),
   company_sensors_by_type |-> InCompany(<<"sensors_by_type", "stype">>),
   sensors_type_map |-> InCompany(<<"sensors_by_type", "stype">>),
   my_dashboards |-> InCompany(<<"dashboards">>),
   sensor_configuration |-> OfSensor("configuration"),
   sensor_values |-> OfSensor("values"),
   sensor_alerts |-> OfSensor("alerts"),
   sensor_history |-> OfSensor("history"),
   sensor_chart |-> OfSensor("history"),
   sensor_export |-> OfSensor("export"),
   sensor_events |-> OfSensor("events"),
   company_alerts |-> InCompany(<<"alerts">>),
   company_alert_history |-> InCompany(<<"alert_history">>),
   alert_history |-> InCompany(<<"alert_history">>),
   company_networks |-> InCompany(<<"networks">>),
   company_network_sensors |-> InCompany(<<"networks", "nid", "sensors">>),
   network_sensors_map |-> InCompany(<<"networks", "nid", "sensors">>),
   company_network_alerts |-> InCompany(<<"networks", "nid", "alerts">>),
   events_log |-> InCompany(<<"dashboard">>),
   events |-> InCompany(<<"events">>),
   events_history |-> InCompany(<<"event_history">>),
   firmwares |-> <<"ota", "firmwares">>]

transformer(at, session) ==
  IF Len(at) = 1 /\ at[1] \in DOMAIN url_transforms
  THEN LET to == url_transforms[at[1]] IN
       [k \in DOMAIN to |-> IF to[k] \in Placeholders THEN Else(session[to[k]], to[k])
                            ELSE to[k]]
  ELSE at

(***************************************************************************)
(* A call of restClient(type, resource, params).                           *)
(***************************************************************************)
NoRows == <<0, 0>> \* no pagination; otherwise <<page, perPage>>

Ask(type, at) ==
  [type |-> type, at |-> at, id |-> Missing, rows |-> NoRows, sort |-> << >>,
   filter |-> [k \in {} |-> 0], target |-> Missing, data |-> Missing]

AskOne(at, id) == [Ask("GET_ONE", at) EXCEPT !.id = id]
AskPage(at, first, perPage, field) ==
  [Ask("GET_LIST", at) EXCEPT !.rows = <<first, perPage>>, !.sort = <<field, "ASC">>]
AskUpdate(at, id, data) == [Ask("UPDATE", at) EXCEPT !.id = id, !.data = data]
AskCreate(at, data) == [Ask("CREATE", at) EXCEPT !.data = data]
AskDelete(at, id) == [Ask("DELETE", at) EXCEPT !.id = id]

\* The address: the id follows it, checked except when something is deleted.
\* A list and a new record have no id.
Url(ask, session) ==
  LET at == transformer(ask.at, session) IN
  CASE ask.type \in {"GET_LIST", "GET_MANY", "GET_MANY_REFERENCE", "CREATE", "DELETE_MANY"} -> at
    [] ask.type = "DELETE" -> Append(at, ask.id)
    [] OTHER -> IF Given(ask.id) THEN Append(at, ask.id) ELSE at

\* The rows asked for, first to last.  An address bar without a query shows a
\* list from its first page.
RowsOf(ask, hashHasQuery) ==
  LET shown == IF hashHasQuery THEN ask.rows[1] ELSE 1
      perPage == ask.rows[2]
  IN IF perPage = 0 \/ shown = 0 THEN << >>
     ELSE <<(shown - 1) * perPage, shown * perPage - 1>>

\* How the body is sent: a file makes it a form; the type of a dashboard's
\* sensors becomes text, and the call throws when an update has none; the
\* fields of a sensor type become an object.  has: what the data holds.
BodyOf(ask, at, has) ==
  LET dashboard == {"companies", "dashboards"} \subseteq ToSet(at) /\ "widgets" \notin ToSet(at)
  IN CASE ask.type \notin {"UPDATE", "CREATE", "DELETE_MANY"} -> "none"
       [] ask.type = "DELETE_MANY" -> "json"
       [] "floormap" \in has -> "form"
       [] ask.type = "CREATE" /\ "firmware" \in has -> "form"
       [] dashboard /\ "sensor_type" \notin has
            /\ (ask.type = "UPDATE" \/ "device-general" \in has) -> "throws"
       [] at = <<"sensor_types">> -> "fields by name"
       [] OTHER -> "json"

Method(ask) ==
  CASE ask.type = "UPDATE" -> "PUT" [] ask.type = "CREATE" -> "POST"
    [] ask.type \in {"DELETE", "DELETE_MANY"} -> "DELETE" [] OTHER -> "GET"

\* The column of a sort inside a value loses its prefix.
SortOf(ask) ==
  IF ask.at = <<"company_sensors_by_type">> /\ ask.sort # << >> /\ ask.sort[1] = "value.field"
  THEN <<"field", ask.sort[2]>> ELSE ask.sort

\* The export is not asked for at all: the call is echoed.
Echoed(ask) == ask.at = <<"sensor_export">> /\ ask.type = "GET_LIST"

convertRESTRequestToHTTP(ask, session, hashHasQuery, has) ==
  [url |-> Url(ask, session), method |-> Method(ask), body |-> BodyOf(ask, transformer(ask.at, session), has),
   range |-> RowsOf(ask, hashHasQuery), sort |-> SortOf(ask), filter |-> ask.filter]

\* What a body of the shape json, of n records, is resolved with.  A list with
\* data but no total falls into the case of an update: one record, whose id is
\* the empty string, with the list inside.
convertHTTPResponseToREST(ask, json, n) ==
  CASE ask.type = "GET_LIST" /\ json = "nothing" -> [data |-> "body", total |-> 1]
    [] ask.type = "GET_LIST" /\ json = "data and total" -> [data |-> "list", total |-> n]
    [] ask.type = "GET_LIST" /\ json = "data" -> [data |-> "record", total |-> Missing]
    [] ask.type = "GET_LIST" /\ json = "array" -> [data |-> "list", total |-> n]
    [] ask.type = "GET_LIST" /\ ask.at = <<"me">> -> [data |-> "list", total |-> 1]
    [] ask.type = "GET_LIST" /\ ask.at = <<"events_log">> -> [data |-> "list", total |-> n]
    [] ask.type = "GET_ONE" /\ ask.at = <<"my_dashboards">> ->
         [data |-> "wrapped twice", total |-> Missing]
    [] ask.type \notin {"UPDATE", "CREATE"} /\ json \in {"data", "data and total"} ->
         [data |-> "list", total |-> Missing]
    [] OTHER -> [data |-> "record", total |-> Missing]

(***************************************************************************)
(* The wrappers.  a: the arguments; needs: those a wrapper checks.         *)
(***************************************************************************)
Rejected == Ask("rejected", << >>)
Needs(needs, ask) == IF Missing \in needs THEN Rejected ELSE ask

Company(a, what) == <<"companies", a.cid>> \o what
WidgetsOf(a) == Company(a, <<"dashboards", a.did, "widgets">>)

getSettings(a) == Ask("GET_LIST", <<"settings_all">>)
\* The two lists of a network's sensors check nothing.
getAllNetworkSensors(a) == Ask("GET_LIST", Company(a, <<"networks", a.nid, "sensors">>))
getNetworkSensors(a) ==
  AskPage(Company(a, <<"networks", a.nid, "sensors">>), a.page, 20, "id")
getSensorConfiguration(a) ==
  Needs({a.sid}, AskPage(<<"sensors", a.sid, "configuration">>, 1, 1000, Missing))
setSensorConfiguration(a) ==
  Needs({a.sid, a.key}, AskUpdate(<<"sensors", a.sid, "configuration">>, Missing, a.key))
deleteWidget(a) == Needs({a.cid, a.did, a.wid}, AskDelete(WidgetsOf(a), a.wid))
updateWidget(a) ==
  Needs({a.cid, a.did, a.wid, a.data}, AskUpdate(WidgetsOf(a), a.wid, a.data))
\* Without the widget's id this is the address of all the widgets.
getWidget(a) == Needs({a.cid, a.did}, AskOne(WidgetsOf(a), a.wid))
getWidgets(a) == Needs({a.cid, a.did}, AskPage(WidgetsOf(a), a.page, 20, "id"))
askWidget(a) == Needs({a.cid, a.did, a.data}, AskCreate(WidgetsOf(a), a.data))
updateDashboard(a) ==
  Needs({a.cid, a.did, a.data}, AskUpdate(Company(a, <<"dashboards">>), a.did, a.data))
deleteDashboard(a) == Needs({a.cid, a.did}, AskDelete(Company(a, <<"dashboards">>), a.did))
addDashboard(a) == Needs({a.cid, a.data}, AskCreate(Company(a, <<"dashboards">>), a.data))
getCustomDashboard(a) == Needs({a.cid, a.did}, AskOne(Company(a, <<"dashboards">>), a.did))

Filtered(ask, key, value) ==
  IF Given(value) THEN [ask EXCEPT !.filter = [k \in {key} |-> value]] ELSE ask

getDashboards(a) ==
  Needs({a.cid}, Filtered(AskPage(Company(a, <<"dashboards">>), a.page, 10, "id"),
                          "sensor_type", a.key))
getSensorInfo(a) == Needs({a.cid, a.sid}, AskOne(Company(a, <<"sensors">>), a.sid))
getAlertHistory(a) ==
  [Ask("GET_LIST", IF Given(a.cid) THEN Company(a, <<"alert_history">>)
                   ELSE <<"company_alert_history">>) EXCEPT !.rows = <<a.page, 10>>]
getDashboard(a) == Needs({a.cid}, Ask("GET_LIST", Company(a, <<"dashboard">>)))
getStats(a) == Needs({a.cid}, Ask("GET_LIST", Company(a, <<"stats">>)))
getSensorDataTypes(a) == Ask("GET_LIST", <<"sensor_data_types">>)
getAllSensorTypes(a) == AskOne(<<"sensor_types_all">>, Missing)
getCurrentUser(a) == AskOne(<<"me">>, Missing)
setCurrentUser(a) == AskCreate(<<"me">>, a.data)
set_one_meta_data(a) == AskCreate(<<"me", "meta_data">>, a.key)
getMetadata(a) == AskOne(<<"me", "meta_data">>, Missing)
getCompanies(a) == Ask("GET_LIST", <<"companies">>)
get_token(a) == Needs({a.key}, AskOne(<<"users", a.key, "token">>, Missing))

\* Sensors, by name, of a type: a type known by its id is asked for first.
getSensorsOf(a, type) ==
  Filtered(AskPage(Company(a, IF Given(type) THEN <<"sensors_by_type", type>>
                              ELSE <<"sensors">>), a.page, 10, "id"), "q", a.key)
getSensors(a) ==
  Needs({a.cid}, IF Given(a.type_id) THEN AskOne(<<"sensor_types">>, a.type_id)
                 ELSE getSensorsOf(a, a.type))

\* The default company, or all of them.
getGlobalCompany(a) ==
  IF Given(a.cid) THEN AskOne(<<"companies">>, a.cid) ELSE getCompanies(a)

(***************************************************************************)
(* The history of a sensor.                                                *)
(***************************************************************************)
MutantHistoryFrom(from, duration, created) == Else(from, Now - Else(duration, Week))

\* The start asked for, or the duration before now, but not before the
\* sensor was created.
HistoryFrom(from, duration, created) ==
  LET start == Else(from, Now - Else(duration, Week)) IN
  IF start < created THEN created ELSE start

\* Either the page asked for, or one page of at most MaxPoints groups, unless
\* the window has fewer seconds than that.
HistoryAsk(a, created) ==
  LET start == HistoryFrom(a.from, a.duration, created)
      end == Else(a.to, Now)
      group == (end - start) \div MaxPoints
      window(length) == [start |-> start, end |-> end, created |-> created, group |-> length]
      ask == Ask("GET_LIST", <<"sensors", a.sid, "history">>)
  IN IF end < start THEN Rejected \* "Time period not valid."
     ELSE IF a.page > 0
     THEN [ask EXCEPT !.rows = <<a.page, 30>>, !.filter = window(0)]
     ELSE IF group = 0 THEN [ask EXCEPT !.filter = window(0)]
     ELSE [ask EXCEPT !.rows = <<1, MaxPoints>>, !.filter = window(group)]

\* Its first step asks for the sensor if nobody knows when it was created.
getSensorHistory(a) ==
  Needs({a.cid, a.sid}, IF Given(a.created) THEN HistoryAsk(a, a.created) ELSE getSensorInfo(a))

\* A field of a record: its value, else its mean over the group, else nothing.
FieldOf(record, f) ==
  IF f \in record.values THEN "value" ELSE IF f \in record.means THEN "mean" ELSE "null"

\* Grouped by field: the series of each field, a point for each record.
GroupedByField(records, fields) ==
  [f \in fields |-> [k \in DOMAIN records |->
                      [time |-> records[k].time, value |-> FieldOf(records[k], f)]]]

\* Fields are shown by falling weight; a weight of 0, or none, counts as 10.
Weight(w) == IF w \in Nat \ {0} THEN w ELSE 10
SortedFields(weights) ==
  SetToSortSeq(DOMAIN weights, LAMBDA f, g : Weight(weights[f]) > Weight(weights[g]))

(***************************************************************************)
(* A caller that awaits one of the wrappers made of two calls: the calls   *)
(* it makes, and its outcome.                                              *)
(***************************************************************************)
NoArguments ==
  [cid |-> Missing, sid |-> Missing, key |-> Missing, type |-> Missing, type_id |-> Missing,
   page |-> 0, from |-> Missing, to |-> Missing, duration |-> Missing, created |-> Missing]

RequestsInit ==
  /\ page = "Requests" /\ net = {} /\ sent = 0
  /\ ui = [a |-> NoArguments, asks |-> << >>, result |-> "idle"]
  /\ srv \in [created : 0..Now, companies : BOOLEAN]

Outcome(result) == ui' = [ui EXCEPT !.result = result] /\ UNCHANGED <<page, sent, net, srv>>

Makes(a, ask, first) ==
  /\ ui' = [a |-> a, asks |-> IF ask = Rejected THEN ui.asks ELSE Append(ui.asks, ask),
            result |-> IF ask = Rejected THEN "rejected" ELSE first]
  /\ UNCHANGED <<page, sent, net, srv>>

Idle == page = "Requests" /\ ui.result = "idle"
Optional(S) == {Missing} \cup S

CallsHistory ==
  /\ Idle
  /\ \E cid, sid \in Optional(Ids), from, to \in Optional(0..Now),
        duration \in {Missing, 1}, known \in BOOLEAN, p \in {0, 2} :
       LET a == [NoArguments EXCEPT
                   !.cid = cid, !.sid = sid, !.from = from, !.to = to, !.page = p,
                   !.duration = duration, !.created = IF known THEN srv.created ELSE Missing]
       IN Makes(a, getSensorHistory(a), IF known THEN "history" ELSE "sensor")

CallsSensors ==
  /\ Idle
  /\ \E cid, type, type_id \in Optional(Ids) :
       LET a == [NoArguments EXCEPT !.cid = cid, !.type = type, !.type_id = type_id, !.page = 1]
       IN Makes(a, getSensors(a), IF Given(type_id) THEN "type" ELSE "sensors")

CallsCompany ==
  /\ Idle
  /\ \E cid \in Optional(Ids) :
       LET a == [NoArguments EXCEPT !.cid = cid] IN
       Makes(a, getGlobalCompany(a), IF Given(cid) THEN "company" ELSE "companies")

Awaits(what) == page = "Requests" /\ ui.result = what

SensorAnswered ==
  /\ Awaits("sensor")
  /\ Makes(ui.a, HistoryAsk(ui.a, srv.created), "history")

TypeAnswered ==
  /\ Awaits("type")
  /\ \E type \in Ids : Makes(ui.a, getSensorsOf(ui.a, type), "sensors")

\* Only a default company that is not found is replaced by the first.
CompanyAnswered(how) ==
  /\ Awaits("company")
  /\ CASE how = "found" -> Outcome("resolved")
       [] how = "not found" -> Makes(ui.a, getCompanies(ui.a), "companies")
       [] OTHER -> Outcome("rejected")

CompaniesAnswered ==
  /\ Awaits("companies")
  /\ Outcome(IF srv.companies THEN "resolved" ELSE "rejected")

LastAnswered == (Awaits("history") \/ Awaits("sensors")) /\ Outcome("resolved")

CallFails ==
  /\ page = "Requests" /\ ui.result \in {"sensor", "history", "type", "sensors", "companies"}
  /\ Outcome("rejected")

RequestsNext ==
  \/ CallsHistory \/ CallsSensors \/ CallsCompany
  \/ SensorAnswered \/ TypeAnswered \/ CompaniesAnswered \/ LastAnswered \/ CallFails
  \/ \E how \in {"found", "not found", "failed"} : CompanyAnswered(how)

(***************************************************************************)
(* Properties.                                                             *)
(***************************************************************************)
\* A history that is asked for lies in a window of the sensor's life, however
\* its ends and the sensor were given, and the groups asked for reach over
\* more than half of the window: the rounding of their length leaves out the
\* rest of it, and asks for none that is empty.
SoundWindow(w) ==
  /\ w.created <= w.start /\ w.start <= w.end
  /\ w.group > 0 => /\ MaxPoints * w.group <= w.end - w.start
                    /\ 2 * MaxPoints * w.group > w.end - w.start

AsksMade ==
  IF page = "Requests" THEN ToSet(ui.asks)
  ELSE IF page = "SensorHistory" THEN {r.call.ask : r \in net} ELSE {}

HistoryWindow ==
  \A ask \in AsksMade : "start" \in DOMAIN ask.filter => SoundWindow(ask.filter)
=============================================================================
