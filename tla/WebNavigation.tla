--------------------------- MODULE WebNavigation ---------------------------
(***************************************************************************)
(* Going from page to page: the parameters a list leaves in sessionStorage *)
(* for the page it links to (helpers.js), the check each page makes of     *)
(* them before it is shown (InjectParams.jsx), the routes, and the trail   *)
(* above the page that tells where it is (BreadCrumbs.jsx).                *)
(***************************************************************************)
EXTENDS WebCore, SequencesExt

CONSTANTS
  Records,  \* what the lists list: sensors, networks, companies, alerts...
  NoRecord, \* no record; also a parameter that was never set
  Places,   \* addresses that are visited by the menu, a bookmark or Back
  MaxMoves  \* moves of one behaviour

ASSUME NavigationAssumption == NoRecord \notin Records /\ MaxMoves \in Nat

(***************************************************************************)
(* Addresses: << >> is home, then a resource, "create" or a record in it.  *)
(***************************************************************************)
Home == << >>
Chart == <<"sensor_chart">>

\* Resources with a list, and those with the form of a new or an old record.
Editable ==
  {"company_users", "settings", "users", "sensor_types", "companies", "me", "my_meta_data",
   "company_sensors", "sensor_alerts", "company_alerts", "company_networks",
   "company_network_sensors", "company_network_alerts", "my_dashboards", "events",
   "sensor_events", "firmwares"}
Listed ==
  Editable \cup
  {"company_sensors_by_type", "sensor_configuration", "alert_history", "sensor_export",
   "sensors_map", "network_sensors_map", "sensors_type_map", "sensor_history", "events_log",
   "events_history"}

\* Pages with routes of their own; those of a network or a dashboard are
\* forwarded when none is given.
customRoutes ==
  {Chart, <<"profile">>, <<"sign-up">>, <<"recover-password">>, <<"reset-password">>,
   <<"verify-email">>} \cup
  {<<"cdash", r>> : r \in Records} \cup {<<"floormap", r>> : r \in Records}
Redirected(url) ==
  CASE url = <<"cdash">> -> <<"my_dashboards">>
    [] url = <<"floormap">> -> <<"company_networks">>
    [] Len(url) = 2 /\ url[1] \in {"me", "my_meta_data"} /\ url[2] # "create" -> <<url[1]>>
    [] OTHER -> url

Routes ==
  {Home} \cup customRoutes \cup {<<r>> : r \in Listed} \cup
  {<<r, v>> : r \in Editable, v \in Records \cup {"create"}}

(***************************************************************************)
(* The parameters in sessionStorage: each the object a list has put there, *)
(* of which the pages read the id and the name, together or one alone.     *)
(***************************************************************************)
Object(id, name) == [id |-> id, name |-> name]
Whole(r) == Object(r, r)
Empty == Object(NoRecord, NoRecord)

param_keys ==
  {"global_company", "sensor", "sensor_type", "network", "company", "alert", "user",
   "cdashboard", "event", "setting", "sensors", "params", "multiple", "graph_sensor_history"}

\* What nobody has set reads as an object without id, the flag as false.
NoParams ==
  [k \in param_keys |-> CASE k = "multiple" -> FALSE
                          [] k \in {"sensors", "params"} -> NoRecord
                          [] OTHER -> Empty]

\* Keys that are not in the list are not kept.
set_params(params, new) ==
  [k \in param_keys |-> IF k \in DOMAIN new THEN new[k] ELSE params[k]]

resolveIfCompany(p) == p.global_company.id # NoRecord
resolveIfNetwork(p) == resolveIfCompany(p) /\ p.network.id # NoRecord
resolveIfSensor(p) == resolveIfCompany(p) /\ p.sensor.id # NoRecord
resolveIfSensorsAndParams(p) == resolveIfCompany(p) /\ NoRecord \notin {p.sensors, p.params}
resolveIfSensorType(p) == p.sensor_type.id # NoRecord

(***************************************************************************)
(* The pages and what they need; a page that does not get it forwards.     *)
(***************************************************************************)
PageView(url) == IF Len(url) = 1 THEN "list" ELSE IF url[2] = "create" THEN "create" ELSE "edit"

\* A comparison needs the sensors and parameters it was opened with.
ChartResolves(p) == IF p.multiple THEN resolveIfSensorsAndParams(p) ELSE resolveIfSensor(p)

OfCompany == {"company_sensors", "company_alerts", "company_networks", "my_dashboards",
              "sensors_map", "alert_history"}
OfNetwork == {"company_network_sensors", "company_network_alerts", "network_sensors_map"}
OfASensor == {"sensor_configuration", "sensor_export", "sensor_alerts", "sensor_history",
             "sensor_events"}
OfType == {"company_sensors_by_type", "sensors_type_map"}

\* The forms that put sensors and alerts in a network, and take them out of it.
NetworkForms == {"company_network_sensors", "company_network_alerts"}

\* What each page asks of the parameters before it is shown.  The form that
\* puts something in a network names its forward wrongly and is always shown.
Resolves(url, p) ==
  url # Home =>
    LET of == url[1]
        view == PageView(url)
    IN /\ of \in {"cdash", "floormap"} => resolveIfCompany(p)
       /\ of \in OfCompany /\ view = "list" => resolveIfCompany(p)
       /\ of = "company_users" /\ view = "edit" => resolveIfCompany(p)
       /\ of \in OfNetwork /\ view = "list" => resolveIfNetwork(p)
       /\ of \in NetworkForms /\ view = "edit" => resolveIfNetwork(p)
       /\ of \in OfASensor => resolveIfSensor(p)
       /\ of = "company_sensors" /\ view = "edit" => resolveIfSensor(p)
       /\ of \in OfType => resolveIfSensorType(p)
       /\ of = "sensor_chart" => ChartResolves(p)

\* Two forms of a sensor forward to an address that does not exist.
OnFailResolve(url) ==
  LET of == url[1] IN
  CASE of \in {"sensor_alerts", "sensor_events"} /\ PageView(url) = "create" -> <<"company_sensor">>
    [] of \in {"sensor_alerts", "sensor_events", "sensor_history", "sensors_type_map"}
         -> <<"company_sensors">>
    [] of \in NetworkForms /\ PageView(url) # "list" -> <<"company_network_sensors">>
    [] of \in OfNetwork \cup {"company_networks"}
         -> <<"company_networks">>
    [] of = "alert_history" -> url \* "#": where it is already
    [] OTHER -> Home

\* Where a move ends: a page that is forwarded to may forward again.
Forwarder(url, p) == IF url \notin Routes \/ Resolves(url, p) THEN url ELSE OnFailResolve(url)
Lands(url, p) == Forwarder(Forwarder(Forwarder(Redirected(url), p), p), p)

PageShown(url, p) == url \in Routes /\ Resolves(url, p)

(***************************************************************************)
(* The trail above the page: what is read, and where it leads, if anywhere. *)
(***************************************************************************)
Nowhere == <<"nowhere">>
Crumb(label, to) == [label |-> label, to |-> to]
HomeCrumb == Crumb("Home", Home)
DevicesCrumb == Crumb("Devices", <<"company_sensors">>)
Networks == Crumb("Networks", <<"company_networks">>)
AccountCrumb == Crumb("Account", <<"me">>)
NameCrumb(p, key) == Crumb(p[key].name, Nowhere)
TheSensor(p) == Crumb(p.sensor.name, <<"company_sensors", p.sensor.id>>)

\* The end of the trail of a form: the names are those of the parameters,
\* whatever the record of the address.
url_end(url, p) ==
  LET of == url[1] IN
  CASE Len(url) = 1 -> << >>
    [] PageView(url) = "create" -> <<Crumb("Create", Nowhere)>>
    [] of \in {"company_sensors", "company_network_sensors"} -> <<NameCrumb(p, "sensor")>>
    [] of = "company_networks" -> <<NameCrumb(p, "network")>>
    [] of \in {"sensor_alerts", "company_network_alerts", "company_alerts"}
         -> <<NameCrumb(p, "alert")>>
    [] of = "company_users" -> <<Crumb("Edit", Nowhere)>>
    [] of = "companies" -> <<NameCrumb(p, "global_company")>>
    [] of = "users" -> <<NameCrumb(p, "user")>>
    [] of = "sensor_types" -> <<NameCrumb(p, "sensor_type")>>
    [] of = "settings" -> <<NameCrumb(p, "setting")>>
    [] OTHER -> <<Crumb(url[2], Nowhere)>>

OfDevices(url, p) ==
  LET ByType == Crumb("By-type", <<"company_sensors_by_type">>) IN
  CASE url[1] = "company_sensors" -> <<DevicesCrumb>> \o url_end(url, p)
    [] url[1] = "sensors_map" -> <<DevicesCrumb, Crumb("Map", <<"sensors_map">>)>>
    [] url[1] = "company_sensors_by_type" -> <<DevicesCrumb, ByType>>
    [] url[1] = "sensors_type_map" ->
         <<DevicesCrumb, ByType, Crumb("Map", <<"company_sensors_by_type">>)>>

\* The chart of several sensors is told from that of one by the flag.
OfDevice(url, p) ==
  LET History == Crumb("History", <<"sensor_history">>) IN
  CASE url[1] = "sensor_configuration" ->
         <<DevicesCrumb, TheSensor(p), Crumb("Configure", <<"sensor_configuration">>)>>
    [] url[1] = "sensor_alerts" ->
         <<DevicesCrumb, TheSensor(p), Crumb("Alerts", <<"sensor_alerts">>)>> \o url_end(url, p)
    [] url[1] = "sensor_history" -> <<DevicesCrumb, TheSensor(p), History>>
    [] url[1] = "sensor_chart" ->
         <<DevicesCrumb, IF p.multiple THEN Crumb("Compare", Nowhere) ELSE TheSensor(p),
           History, Crumb("Graphs", Chart)>>
    [] url[1] = "sensor_export" ->
         <<DevicesCrumb, TheSensor(p), History, Crumb("Export", <<"sensor_export">>)>>

OfANetwork(url, p) ==
  LET Members == Crumb("Devices", <<"company_network_sensors">>) IN
  CASE url[1] = "company_networks" -> <<Networks>> \o url_end(url, p)
    [] url[1] = "company_network_sensors" ->
         <<Networks, NameCrumb(p, "network"), Members>> \o url_end(url, p)
    [] url[1] = "network_sensors_map" ->
         <<Networks, Members, Crumb("Map", <<"network_sensors_map">>)>>
    [] url[1] = "company_network_alerts" ->
         <<Networks, Crumb(p.network.name, <<"company_networks", p.network.id>>),
           Crumb("Alerts", <<"company_network_alerts">>)>> \o url_end(url, p)

OfTheCompany(url, p) ==
  LET Alerts == Crumb("Alerts", <<"company_alerts">>) IN
  CASE url[1] = "events_log" ->
         <<Crumb("Events-log", <<"events_log">>), NameCrumb(p, "global_company")>>
    [] url[1] = "company_alerts" -> <<Alerts>> \o url_end(url, p)
    [] url[1] = "alert_history" -> <<Alerts, Crumb("History", <<"alert_history">>)>>
    [] url[1] = "company_users" ->
         <<Crumb("Users(company)", <<"company_users">>)>> \o url_end(url, p)
    [] url[1] = "companies" -> <<Crumb("Companies", <<"companies">>)>> \o url_end(url, p)

OfAccount(url, p) ==
  LET Edit == IF Len(url) = 1 THEN << >> ELSE <<Crumb("Edit", <<url[1], "create">>)>> IN
  CASE url[1] = "me" -> <<AccountCrumb>> \o Edit
    [] url[1] = "my_meta_data" -> <<AccountCrumb, Crumb("User-settings", <<"my_meta_data">>)>> \o Edit
    [] url[1] = "users" -> <<Crumb("Users(all)", <<"users">>)>> \o url_end(url, p)
    [] url[1] = "sensor_types" -> <<Crumb("Sensor-types", <<"sensor_types">>)>> \o url_end(url, p)
    [] url[1] = "settings" -> <<Crumb("Web-settings", <<"settings">>)>> \o url_end(url, p)

\* Other pages, home among them, have no trail.
build_breadcrumbs(url, p) ==
  LET In(of) == url # Home /\ url[1] \in of IN
  IF In({"company_sensors", "sensors_map", "company_sensors_by_type", "sensors_type_map"})
  THEN <<HomeCrumb>> \o OfDevices(url, p)
  ELSE IF In((OfASensor \ {"sensor_events"}) \cup {"sensor_chart"})
  THEN <<HomeCrumb>> \o OfDevice(url, p)
  ELSE IF In(OfNetwork \cup {"company_networks"}) THEN <<HomeCrumb>> \o OfANetwork(url, p)
  ELSE IF In({"events_log", "company_alerts", "alert_history", "company_users", "companies"})
  THEN <<HomeCrumb>> \o OfTheCompany(url, p)
  ELSE IF In({"me", "my_meta_data", "users", "sensor_types", "settings"})
  THEN <<HomeCrumb>> \o OfAccount(url, p)
  ELSE << >>

(***************************************************************************)
(* The links of the lists: the parameters they set and where they lead;    *)
(* shows: the sensors whose chart is asked for, kept to be compared.       *)
(***************************************************************************)
Link(set, to) == [set |-> set, to |-> to, shows |-> {}]

\* "History" of one sensor forgets the comparison there was before.
MutantHistoryOf(r) == [Link([sensor |-> Whole(r)], Chart) EXCEPT !.shows = {r}]
HistoryOf(r) ==
  [Link([sensors |-> {}, multiple |-> FALSE, sensor |-> Whole(r)], Chart) EXCEPT !.shows = {r}]

\* The sensors selected, and the parameters that were chosen for them.
CompareLinks ==
  {[Link([sensors |-> s, params |-> s, multiple |-> TRUE], Chart) EXCEPT !.shows = s] :
     s \in {t \in SUBSET Records : Cardinality(t) >= 2}}

\* The list of devices, of the company and of a network.
SensorLinks(of) ==
  CompareLinks \cup
  {HistoryOf(r) : r \in Records} \cup
  {Link([sensor_type |-> Object(r, NoRecord)], <<"company_sensors_by_type">>) : r \in Records} \cup
  (IF srv.read THEN {} ELSE {Link([sensor |-> Whole(r)], <<of, r>>) : r \in Records})

\* Lists by type and maps name the sensor only: a comparison stays.
ByTypeLinks ==
  {Link([sensor |-> Whole(r)], Chart) : r \in Records} \cup
  {Link(<< >>, <<"sensors_type_map">>), Link(<< >>, <<"company_sensors">>)}
MapLinks == {Link([sensor |-> Whole(r)], Chart) : r \in Records}

NetworkLinks ==
  {Link([network |-> Whole(r)], <<"company_network_sensors">>) : r \in Records} \cup
  {Link([none |-> r], <<"floormap", r>>) : r \in Records} \cup
  (IF srv.read THEN {} ELSE {Link([network |-> Whole(r)], <<"company_networks", r>>) : r \in Records})

\* An alert's name leads to its history with the name alone, on a wide screen
\* with the text of its id, which has neither id nor name.
AlertLinks(of) ==
  {Link([alert |-> o], <<"alert_history">>) :
     o \in {Empty} \cup {Object(NoRecord, r) : r \in Records} \cup {Whole(r) : r \in Records}} \cup
  (IF srv.read THEN {} ELSE {Link([alert |-> Whole(r)], <<of, r>>) : r \in Records})

\* "More" of the alerts at home, where the company's history is meant; that of
\* the events sets a parameter nobody keeps.
HomeLinks ==
  {Link([alert |-> Empty, sensor |-> Empty], <<"alert_history">>),
   Link([events_log |-> Empty], <<"events_log">>)}

\* Lists whose edit button leaves the record for the trail.
Edited ==
  [users |-> "user", company_users |-> "user", companies |-> "company", settings |-> "setting",
   sensor_types |-> "sensor_type", events |-> "event", my_dashboards |-> "cdashboard"]
EditLinks(of) == {Link([k \in {Edited[of]} |-> Whole(r)], <<of, r>>) : r \in Records}

\* The calendar forgets to leave the event.
EventLinks ==
  IF srv.read THEN {} ELSE EditLinks("events") \cup {Link(<< >>, <<"events", r>>) : r \in Records}

\* The company of the session, switched on the pages of the account.
CompanyLinks == {Link([global_company |-> Whole(r)], Home) : r \in Records}

Links(url) ==
  IF url = Home THEN HomeLinks
  ELSE IF url[1] = "floormap" THEN MapLinks
  ELSE IF url[1] = "profile" \/ url = <<"me">> THEN CompanyLinks
  ELSE IF PageView(url) # "list" THEN {}
  ELSE CASE url[1] \in {"company_sensors", "company_network_sensors"} -> SensorLinks(url[1])
         [] url = <<"company_sensors_by_type">> -> ByTypeLinks
         [] url[1] \in {"sensors_map", "network_sensors_map", "sensors_type_map"} -> MapLinks
         [] url[1] = "events" -> EventLinks
         [] url[1] = "company_networks" -> NetworkLinks
         [] url[1] \in {"company_alerts", "sensor_alerts", "company_network_alerts"}
              -> AlertLinks(url[1])
         [] url[1] \in DOMAIN Edited -> EditLinks(url[1])
         [] OTHER -> {}

(***************************************************************************)
(* Moves.                                                                  *)
(***************************************************************************)
\* read: the role of the company's readers, who edit nothing.
NavigationInit ==
  /\ page = "Navigation" /\ net = {} /\ sent = 0
  /\ srv \in [read : BOOLEAN]
  /\ \E company \in {Empty} \cup {Whole(r) : r \in Records} :
       ui = [url |-> Home, params |-> [NoParams EXCEPT !.global_company = company],
             shows |-> {}, moves |-> 0]

Moves(set, to, shows) ==
  /\ page = "Navigation" /\ ui.moves < MaxMoves
  /\ LET p == set_params(ui.params, set) IN
     ui' = [url |-> Lands(to, p), params |-> p, shows |-> shows, moves |-> ui.moves + 1]
  /\ UNCHANGED <<page, sent, net, srv>>

\* The menu, the trail, a button, a bookmark, Back: the parameters are those
\* the last list left.
Visits(url) == Moves(<< >>, url, {})

Follows ==
  /\ page = "Navigation" /\ PageShown(ui.url, ui.params)
  /\ \E link \in Links(ui.url) : Moves(link.set, link.to, link.shows)

NavigationNext == Follows \/ \E url \in Places : Visits(url)

(***************************************************************************)
(* Properties.                                                             *)
(***************************************************************************)
\* What the chart draws, of the parameters it finds.
Charted(p) == IF p.multiple THEN p.sensors ELSE {p.sensor.id}

Labels(trail) == {crumb.label : crumb \in ToSet(trail)}

\* The chart a list of devices was asked for is of the sensors asked for, and
\* the trail says so.
AskedIsShown ==
  (ui.url = Chart /\ ui.shows # {}) =>
    /\ Charted(ui.params) = ui.shows
    /\ (IF Cardinality(ui.shows) = 1 THEN ui.shows ELSE {"Compare"})
         \subseteq Labels(build_breadcrumbs(ui.url, ui.params))

\* Nothing but a comparison and the forms shown unchecked leads astray.
Unchecked(url, p) ==
  \/ url = Chart /\ p.multiple
  \/ url[1] \in NetworkForms /\ PageView(url) = "create"

\* Where a page is shown, all of its trail leads to pages that are shown.
TrailLeads ==
  (ui.url # Home /\ PageShown(ui.url, ui.params) /\ resolveIfCompany(ui.params)
   /\ ~Unchecked(ui.url, ui.params)) =>
    \A crumb \in ToSet(build_breadcrumbs(ui.url, ui.params)) :
      crumb.to = Nowhere \/ PageShown(crumb.to, ui.params)

\* Whatever was compared, chosen, switched and visited before, a list's link
\* shows what it names, and the trail above a page tells where it is and leads
\* back (set_params in the lists, build_breadcrumbs, InjectParams).
PlaceIsTold == page = "Navigation" => AskedIsShown /\ TrailLeads
=============================================================================
