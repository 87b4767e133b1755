--------------------------- MODULE WebSensorPages ---------------------------
(***************************************************************************)
(* Two pages of a company's sensors: the graphs of their history           *)
(* (GraphSensorHistory.jsx) and their list (ListSensors.jsx), with what is *)
(* chosen there: sensors to compare, to put into a network or to take out  *)
(* of it, and the dashboard of one.                                        *)
(***************************************************************************)
EXTENDS WebRequests

CONSTANTS
  Devices,    \* the sensors of the list
  DeviceType, \* the type of each
  Boards,     \* dashboards of a sensor
  Moments     \* the times a user picks

ASSUME SensorPagesAssumption == Devices = DOMAIN DeviceType /\ Moments \subseteq 0..Now

(***************************************************************************)
(* The graphs of one sensor's history, or of several to compare.           *)
(***************************************************************************)
NoDate == Missing
Dates(from, to) == [from |-> from, to |-> to]
WeekToNow == Dates(IF Now > Week THEN Now - Week ELSE 0, Now)

\* The dates the page was left with, unless they are reset.
getInitialDates(noReset) ==
  IF noReset THEN Dates(Else(ui.last.from, WeekToNow.from), Else(ui.last.to, WeekToNow.to))
  ELSE WeekToNow

\* What the charts draw of the answer: for several sensors a chart for each
\* parameter, else one for each field that is not a file; zooming is offered
\* on them, and the links to one sensor's pages only for one sensor.
Charts(multiple, parameters, fields) ==
  IF multiple THEN parameters ELSE {f \in fields : f # "file"}

HistoryAsked(dates, created) ==
  HistoryAsk([NoArguments EXCEPT !.cid = "cid", !.sid = "sid",
                                 !.from = dates.from, !.to = dates.to], created)

GraphUi(dates, last) ==
  [dates |-> dates, last |-> last, loading |-> TRUE, drawn |-> Dates(NoDate, NoDate),
   version |-> 0, filter |-> FALSE, zoomed |-> FALSE]

\* Every date is in the past, and the sensor is not younger than the page.
GraphInit ==
  /\ page = "SensorHistory" /\ net = {} /\ sent = 0
  /\ srv \in [created : Moments]
  /\ \E from, to \in Optional(Moments) :
       ui = GraphUi(Dates(Else(from, WeekToNow.from), Else(to, WeekToNow.to)), Dates(from, to))

OnGraph == page = "SensorHistory"
GraphStill == UNCHANGED <<page, sent, net, srv>>

\* A window that is not valid is refused without a call.
Loads(dates, record) ==
  LET ask == HistoryAsked(dates, srv.created) IN
  IF ask = Rejected
  THEN ui' = record /\ UNCHANGED <<sent, net>>
  ELSE ui' = record /\ Send([ask |-> ask, dates |-> dates])

GraphMounts ==
  /\ OnGraph /\ ui.loading /\ sent = 0
  /\ Loads(ui.dates, [ui EXCEPT !.loading = HistoryAsked(ui.dates, srv.created) # Rejected])
  /\ UNCHANGED <<page, srv>>

ShowFilter ==
  /\ OnGraph /\ (sent > 0 \/ ~ui.loading)
  /\ ui' = [ui EXCEPT !.filter = ~@]
  /\ GraphStill

\* The dates picked are kept for the next time the page is opened.
PickDate(d) ==
  /\ OnGraph /\ ui.filter
  /\ \E dates \in {Dates(d, ui.dates.to), Dates(ui.dates.from, d)} :
       ui' = [ui EXCEPT !.dates = dates, !.last = dates]
  /\ GraphStill

\* The progress bar is gone before the answer comes.
LoadButton ==
  /\ OnGraph /\ ui.filter
  /\ Loads(ui.dates, [ui EXCEPT !.loading = FALSE])
  /\ UNCHANGED <<page, srv>>

\* "Reset", and "Reset Zoom" below a chart that was zoomed.
ResetButton(zoom) ==
  /\ OnGraph /\ IF zoom THEN ui.zoomed ELSE ui.filter
  /\ Loads(getInitialDates(FALSE),
           [ui EXCEPT !.dates = getInitialDates(FALSE), !.loading = FALSE,
                      !.zoomed = IF zoom THEN FALSE ELSE @])
  /\ UNCHANGED <<page, srv>>

\* A selection on a chart: its ends become the dates, and are not kept.
onSelection(from, to) ==
  /\ OnGraph /\ ui.version > 0 /\ from < to
  /\ Loads(Dates(from, to), [ui EXCEPT !.dates = Dates(from, to), !.zoomed = TRUE])
  /\ UNCHANGED <<page, srv>>

\* A failure leaves the charts as they were.
GraphAnswered(r, ok) ==
  /\ OnGraph /\ Settle(r, ok)
  /\ ui' = [ui EXCEPT !.loading = FALSE,
                      !.drawn = IF ok THEN r.call.dates ELSE @,
                      !.version = IF ok THEN 1 ELSE @]
  /\ UNCHANGED <<page, srv>>

GraphServes(r) == OnGraph /\ Serve(r, srv)

GraphNext ==
  \/ GraphMounts \/ ShowFilter \/ LoadButton
  \/ \E zoom \in BOOLEAN : ResetButton(zoom)
  \/ \E d, e \in Moments : (d = e /\ PickDate(d)) \/ onSelection(d, e)
  \/ \E r \in net : GraphServes(r) \/ \E ok \in BOOLEAN : GraphAnswered(r, ok)

(***************************************************************************)
(* The list of the sensors.                                                *)
(***************************************************************************)
ListUi ==
  [selected |-> {}, loading |-> TRUE, removing |-> FALSE, assigning |-> FALSE,
   params |-> {}, comparing |-> FALSE,
   choosing |-> FALSE, chosen |-> Missing, boards |-> {}, sensor |-> Missing,
   quick |-> FALSE, \* select_dashboard_loading
   route |-> "sensors"]

\* nid: the list of a network; read: the role of the company's readers.
ListInit ==
  /\ page = "SensorsList" /\ net = {} /\ sent = 0 /\ ui = ListUi
  /\ srv \in [nid : BOOLEAN, read : BOOLEAN,
              boards : [{DeviceType[d] : d \in Devices} -> SUBSET Boards],
              network : {{}}]

OnList == page = "SensorsList" /\ ui.route = "sensors"
ListStill == UNCHANGED <<page, sent, net, srv>>
ListCall(what, sensors, type) == [what |-> what, sensors |-> sensors, type |-> type]

\* A modal dialog covers the list; the others close when the list is clicked.
Uncovered == OnList /\ ~ui.loading /\ ~ui.choosing
DialogFree == Uncovered /\ ~ui.assigning /\ ~ui.comparing

\* The list of a network asks how many sensors it has; a failure leaves the
\* page loading.
ListMounts ==
  /\ OnList /\ ui.loading
  /\ IF srv.nid
     THEN sent = 0 /\ Send(ListCall("total", {}, Missing)) /\ UNCHANGED ui
     ELSE ui' = [ui EXCEPT !.loading = FALSE] /\ UNCHANGED <<sent, net>>
  /\ UNCHANGED <<page, srv>>

TotalAnswered(r, ok) ==
  /\ OnList /\ r.call.what = "total" /\ Settle(r, ok)
  /\ ui' = [ui EXCEPT !.loading = ~ok]
  /\ UNCHANGED <<page, srv>>

\* What the buttons of the list are, for a reader and for others.
ListButtons ==
  {"Compare devices", "Map"} \cup
  (IF srv.nid THEN {"Networks"} ELSE {}) \cup
  (IF srv.read THEN {} ELSE IF srv.nid THEN {"Remove Devices"} ELSE {"Assign network"})

select_sensor(d) ==
  /\ DialogFree
  /\ ui' = [ui EXCEPT !.selected = IF d \in @ THEN @ \ {d} ELSE @ \cup {d}]
  /\ ListStill

\* The parameters of the sensors selected now; those chosen before stay chosen
\* when the selection changes.
make_params == ui.selected

OpensDialog ==
  /\ DialogFree
  /\ \/ ui' = [ui EXCEPT !.comparing = TRUE]
     \/ "Assign network" \in ListButtons /\ ui' = [ui EXCEPT !.assigning = TRUE]
  /\ ListStill

\* A dialog in which sensors are being removed stays until they are.
ClosesDialog ==
  /\ OnList /\ (ui.comparing \/ (ui.assigning /\ ~ui.removing))
  /\ ui' = [ui EXCEPT !.comparing = FALSE, !.assigning = FALSE]
  /\ ListStill

ChoosesParam(p) ==
  /\ OnList /\ ui.comparing /\ p \in make_params \cup ui.params
  /\ ui' = [ui EXCEPT !.params = IF p \in @ THEN @ \ {p} ELSE @ \cup {p}]
  /\ ListStill

compare_sensors ==
  /\ OnList /\ ui.comparing
  /\ Cardinality(ui.selected) >= 2 /\ ui.params # {}
  /\ ui' = [ui EXCEPT !.route = "sensor_chart"]
  /\ net' = {} /\ UNCHANGED <<page, sent, srv>>

assign_network ==
  /\ OnList /\ ui.assigning /\ ~ui.removing /\ ui.selected # {}
  /\ Send(ListCall("assign", ui.selected, Missing))
  /\ UNCHANGED <<page, ui, srv>>

remove_sensors_from_network ==
  /\ DialogFree /\ "Remove Devices" \in ListButtons /\ ui.selected # {}
  /\ Send(ListCall("remove", ui.selected, Missing))
  /\ ui' = [ui EXCEPT !.removing = TRUE, !.assigning = TRUE]
  /\ UNCHANGED <<page, srv>>

\* After a removal the page is left and opened again, which is a new list.
NetworkAnswered(r, ok) ==
  /\ OnList /\ r.call.what \in {"assign", "remove"} /\ Settle(r, ok)
  /\ ui' = IF ok /\ r.call.what = "remove" THEN [ui EXCEPT !.route = "company_network_sensors"]
           ELSE [ui EXCEPT !.assigning = FALSE, !.removing = FALSE]
  /\ UNCHANGED <<page, srv>>

MutantquickView(d) ==
  /\ DialogFree
  /\ Send(ListCall("dashboards", {d}, DeviceType[d]))
  /\ ui' = [ui EXCEPT !.sensor = d, !.quick = TRUE]
  /\ UNCHANGED <<page, srv>>

\* "Quick view" of a sensor: one at a time asks for its dashboards.
quickView(d) ==
  /\ DialogFree /\ ~ui.quick
  /\ Send(ListCall("dashboards", {d}, DeviceType[d]))
  /\ ui' = [ui EXCEPT !.sensor = d, !.quick = TRUE]
  /\ UNCHANGED <<page, srv>>

\* None: a warning; one: it is opened; several: a dialog offers them, with the
\* one chosen for another sensor before still chosen in it.
load_dashboards(r, ok) ==
  LET boards == srv.boards[r.call.type] IN
  /\ OnList /\ r.call.what = "dashboards" /\ Settle(r, ok)
  /\ ui' = IF ~ok THEN [ui EXCEPT !.choosing = FALSE, !.quick = FALSE]
           ELSE IF boards = {} THEN [ui EXCEPT !.quick = FALSE]
           ELSE IF Cardinality(boards) = 1
           THEN [ui EXCEPT !.quick = FALSE, !.boards = boards, !.route = "cdash",
                           !.chosen = CHOOSE b \in boards : TRUE]
           ELSE [ui EXCEPT !.quick = FALSE, !.boards = boards, !.choosing = TRUE]
  /\ UNCHANGED <<page, srv>>

ChoosesDashboard(b) ==
  /\ OnList /\ ui.choosing /\ ~ui.quick /\ b \in ui.boards
  /\ ui' = [ui EXCEPT !.chosen = b]
  /\ ListStill

CancelsChoice ==
  /\ OnList /\ ui.choosing /\ ~ui.quick
  /\ ui' = [ui EXCEPT !.choosing = FALSE]
  /\ ListStill

goto_selected_dashboard ==
  /\ OnList /\ ui.choosing /\ ui.chosen # Missing
  /\ ui' = [ui EXCEPT !.route = "cdash"]
  /\ net' = {} /\ UNCHANGED <<page, sent, srv>>

ListServes(r) ==
  OnList /\ Serve(r, CASE r.call.what = "assign" -> [srv EXCEPT !.network = @ \cup r.call.sensors]
                       [] r.call.what = "remove" -> [srv EXCEPT !.network = @ \ r.call.sensors]
                       [] OTHER -> srv)

ListNext ==
  \/ ListMounts \/ OpensDialog \/ ClosesDialog \/ compare_sensors \/ assign_network
  \/ remove_sensors_from_network \/ CancelsChoice \/ goto_selected_dashboard
  \/ \E d \in Devices : select_sensor(d) \/ ChoosesParam(d) \/ quickView(d)
  \/ \E b \in Boards : ChoosesDashboard(b)
  \/ \E r \in net :
       \/ ListServes(r)
       \/ \E ok \in BOOLEAN :
            TotalAnswered(r, ok) \/ NetworkAnswered(r, ok) \/ load_dashboards(r, ok)

(***************************************************************************)
(* Properties.                                                             *)
(***************************************************************************)
\* The dialog that offers dashboards offers those of the type of the sensor
\* they will be opened for, whatever answers were under way when it was asked
\* for: load_dashboards reads the sensor of the state before its second call
\* and goto_selected_dashboard reads it again when one is opened.
DialogIsOfSensor ==
  (page = "SensorsList" /\ ui.choosing) => ui.boards = srv.boards[DeviceType[ui.sensor]]
=============================================================================
