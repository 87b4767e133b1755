---------------------------- MODULE WebPagesProofs ----------------------------
(***************************************************************************)
(* Theorems about single pages of the web interface, each of a page that   *)
(* is mounted alone: the graph of a widget, the list of the sensors, the   *)
(* history of a sensor, the forms of an account, the profile, a dashboard; *)
(* and about the way from page to page.                                    *)
(***************************************************************************)
EXTENDS WebAccount, WebWidgets, WebSensorPages, WebDashboard, WebNavigation,
        FiniteSetTheorems, SequenceTheorems, WellFoundedInduction, TLAPS

(* Calls in flight, served or not: the records the pages send.             *)
Requested(c) == [id |-> sent, call |-> c, served |-> FALSE]
RequestShape == {"id", "call", "served"}

----------------------------------------------------------------------------
(* A widget in view.                                                       *)
WidgetSpec == WidgetInit /\ [][WidgetNext]_webVars

WidgetShape ==
  {"view", "options", "menu", "period", "chart", "crossed", "loading", "currently",
   "at", "body", "maker", "failed"}

(* While nothing crossed a load there is at most one, from the period that *)
(* is drawn to the one whose button is pressed.                            *)
Drawn ==
  \/ net = {} /\ ui.chart = ui.period
  \/ \E r \in net : net = {r} /\ r.call.value = ui.period /\ r.call.before = ui.chart

WidgetInv ==
  /\ page = "Widget" /\ DOMAIN ui = WidgetShape
  /\ ui.menu \in BOOLEAN /\ ui.crossed \in BOOLEAN
  /\ \A r \in net : DOMAIN r = RequestShape
  /\ ui.view = "graph" /\ ~ui.menu /\ ~ui.crossed => Drawn

LEMMA WidgetStarts == WidgetInit => WidgetInv
<1> SUFFICES ASSUME WidgetInit PROVE WidgetInv
  OBVIOUS
<1>1. PICK w \in WidgetData, f \in Fields : ui = WidgetUi(w, f, srv.config)
  BY DEF WidgetInit
<1>2. /\ DOMAIN ui = WidgetShape /\ ui.menu = FALSE /\ ui.crossed = FALSE
      /\ ui.period = 0 /\ ui.chart = 0
  BY <1>1 DEF WidgetUi, WidgetShape
<1> QED BY <1>2 DEF WidgetInit, WidgetInv, Drawn

LEMMA ClickDraws ==
  ASSUME WidgetInv, NEW days, clickHandler(days) PROVE WidgetInv'
<1> DEFINE q == Requested(Asks("history", days, ui.period))
<1>1. /\ net' = net \cup {q} /\ page' = page /\ Is("graph") /\ ~ui.menu
      /\ ui' = [ui EXCEPT !.period = days, !.crossed = @ \/ net # {}]
  BY DEF clickHandler, Send, Requested
<1>2. /\ DOMAIN q = RequestShape /\ q.call.value = days /\ q.call.before = ui.period
  BY DEF Requested, RequestShape, Asks
<1>3. /\ DOMAIN ui' = WidgetShape /\ ui'.period = days /\ ui'.chart = ui.chart
      /\ ui'.menu = ui.menu /\ ui'.view = ui.view /\ ui'.crossed = (ui.crossed \/ net # {})
  BY <1>1 DEF WidgetInv, WidgetShape
<1> HIDE DEF q
<1> QED BY <1>1, <1>2, <1>3 DEF WidgetInv, Drawn, Is

LEMMA HistoryDraws ==
  ASSUME WidgetInv, NEW r \in net, NEW ok \in BOOLEAN, HistoryAnswered(r, ok) PROVE WidgetInv'
<1>1. net' = net \ {r} /\ page' = page
  BY DEF HistoryAnswered, Settle
<1>2. /\ DOMAIN ui' = WidgetShape /\ ui'.menu = ui.menu /\ ui'.view = ui.view
      /\ ui'.crossed = ui.crossed
      /\ \/ ui'.chart = r.call.value /\ ui'.period = ui.period
         \/ ui'.chart = ui.chart /\ ui'.period = r.call.before
  <2>1. CASE ok
    BY <2>1 DEF HistoryAnswered, WidgetInv, WidgetShape
  <2>2. CASE ~ok
    BY <2>2 DEF HistoryAnswered, WidgetInv, WidgetShape
  <2> QED BY <2>1, <2>2
<1> QED BY <1>1, <1>2 DEF WidgetInv, Drawn

LEMMA PropsDraw ==
  ASSUME WidgetInv, GraphReceivesProps PROVE WidgetInv'
<1> DEFINE drawn == ui.menu \/ ui.period = 0
<1>1. /\ net' = net /\ page' = page
      /\ ui' = [ui EXCEPT !.chart = IF drawn THEN 0 ELSE @,
                          !.crossed = @ \/ (drawn /\ net # {})]
  BY DEF GraphReceivesProps
<1>2. /\ DOMAIN ui' = WidgetShape /\ ui'.menu = ui.menu /\ ui'.view = ui.view
      /\ ui'.period = ui.period /\ ui'.crossed = (ui.crossed \/ (drawn /\ net # {}))
      /\ ui'.chart = IF drawn THEN 0 ELSE ui.chart
  BY <1>1 DEF WidgetInv, WidgetShape
<1> QED BY <1>1, <1>2 DEF WidgetInv, Drawn

(* The other steps of a widget: in its edit mode, or of another view.      *)
Elsewhere ==
  /\ page' = page /\ DOMAIN ui' = WidgetShape /\ ui'.view = ui.view
  /\ ui'.menu \in BOOLEAN /\ ui'.crossed = ui.crossed
  /\ ui.view # "graph" \/ ui'.menu

LEMMA ElsewhereDraws ==
  ASSUME WidgetInv, Elsewhere, \A r \in net' : DOMAIN r = RequestShape PROVE WidgetInv'
BY DEF WidgetInv, Elsewhere

LEMMA ConfigurationDraws ==
  ASSUME WidgetInv, onToggle \/ DragStop PROVE WidgetInv'
<1>1. /\ page' = page /\ ui.view # "graph" /\ ui' = [ui EXCEPT !.loading = TRUE]
      /\ \E c : net' = net \cup {Requested(c)}
  BY Zenon DEF onToggle, DragStop, Send, Requested, Is
<1>2. Elsewhere
  BY <1>1 DEF Elsewhere, WidgetInv, WidgetShape
<1>3. \A r \in net' : DOMAIN r = RequestShape
  BY <1>1 DEF Requested, RequestShape, WidgetInv
<1> QED BY <1>2, <1>3, ElsewhereDraws

LEMMA AnswerDraws ==
  ASSUME WidgetInv, NEW r \in net, NEW ok \in BOOLEAN, ConfigAnswered(r, ok) PROVE WidgetInv'
<1>1. /\ page' = page /\ ui.view # "graph" /\ net' = net \ {r}
      /\ \E a : ui' = [ui EXCEPT !.loading = FALSE, !.at = a]
  BY DEF ConfigAnswered, Settle, Is
<1>2. Elsewhere
  BY <1>1 DEF Elsewhere, WidgetInv, WidgetShape
<1> QED BY <1>1, <1>2, ElsewhereDraws DEF WidgetInv

LEMMA LocalDraws ==
  ASSUME WidgetInv,
         \/ EditModeStarts \/ ConfigReceivesProps \/ BodyChanges
         \/ \E value \in Positions : Drag(value)
  PROVE  WidgetInv'
<1>1. page' = page /\ net' = net
  BY DEF EditModeStarts, ConfigReceivesProps, BodyChanges, Drag
<1>2. Elsewhere
  <2>1. CASE EditModeStarts
    BY <2>1 DEF EditModeStarts, Elsewhere, WidgetInv, WidgetShape
  <2>2. CASE ConfigReceivesProps
    BY <2>2 DEF ConfigReceivesProps, Is, Elsewhere, WidgetInv, WidgetShape
  <2>3. CASE BodyChanges
    BY <2>3 DEF BodyChanges, make_custom_widget_maker, Is, Elsewhere, WidgetInv, WidgetShape
  <2>4. CASE \E value \in Positions : Drag(value)
    BY <2>4 DEF Drag, Is, Elsewhere, WidgetInv, WidgetShape
  <2> QED BY <2>1, <2>2, <2>3, <2>4
<1> QED BY <1>1, <1>2, ElsewhereDraws DEF WidgetInv

LEMMA ServingDraws ==
  ASSUME WidgetInv, NEW r \in net, WidgetServes(r) PROVE WidgetInv'
<1> DEFINE q == [r EXCEPT !.served = TRUE]
<1>1. net' = (net \ {r}) \cup {q} /\ UNCHANGED <<page, ui>>
  BY DEF WidgetServes, Serve
<1>2. DOMAIN q = RequestShape /\ q.call = r.call
  BY DEF WidgetInv, RequestShape
<1> HIDE DEF q
<1> QED BY <1>1, <1>2 DEF WidgetInv, Drawn

LEMMA WidgetSteps == WidgetInv /\ [WidgetNext]_webVars => WidgetInv'
<1> SUFFICES ASSUME WidgetInv, [WidgetNext]_webVars PROVE WidgetInv'
  OBVIOUS
<1>1. CASE WidgetNext
  BY <1>1, ClickDraws, HistoryDraws, PropsDraw, ConfigurationDraws, AnswerDraws,
     LocalDraws, ServingDraws DEF WidgetNext
<1>2. CASE UNCHANGED webVars
  BY <1>2 DEF webVars, WidgetInv, Drawn
<1> QED BY <1>1, <1>2

(* The graph of a widget in view draws the period of its disabled button   *)
(* whenever no load is under way and none was crossed                      *)
(* (WidgetGraph.jsx: clickHandler and its promise).                *)
THEOREM DrawnIsPressedHolds == WidgetSpec => []DrawnIsPressed
<1>1. WidgetInv => DrawnIsPressed
  BY DEF WidgetInv, Drawn, DrawnIsPressed, Is
<1> QED BY <1>1, WidgetStarts, WidgetSteps, PTL DEF WidgetSpec

----------------------------------------------------------------------------
(* The list of the sensors.                                                *)
ListSpec == ListInit /\ [][ListNext]_webVars

ListShape ==
  {"selected", "loading", "removing", "assigning", "params", "comparing", "choosing",
   "chosen", "boards", "sensor", "quick", "route"}

(* A call for dashboards: of the sensor chosen last, whose button waits.   *)
ForDashboards == {r \in net : r.call.what = "dashboards"}
OfSensorChosen(c) == ui.quick /\ c.type = DeviceType[ui.sensor]

ListInv ==
  /\ page = "SensorsList" /\ DOMAIN ui = ListShape
  /\ DOMAIN srv = {"nid", "read", "boards", "network"}
  /\ \A r \in net : DOMAIN r = RequestShape
  /\ \A r \in ForDashboards : OfSensorChosen(r.call)
  /\ \A r, q \in ForDashboards : r = q
  /\ ui.choosing => ui.boards = srv.boards[DeviceType[ui.sensor]]

LEMMA ListStarts == ListInit => ListInv
BY DEF ListInit, ListUi, ListInv, ListShape, ForDashboards

(* Steps that touch neither the choice of a sensor nor its dashboards.     *)
SameChoice ==
  /\ page' = page /\ DOMAIN ui' = ListShape
  /\ ui'.sensor = ui.sensor /\ ui'.boards = ui.boards /\ ui'.quick = ui.quick
  /\ ui'.choosing => ui.choosing

(* ... some send another call, ...                                         *)
LEMMA OtherCall ==
  ASSUME ListInv, SameChoice, srv' = srv, NEW c, c.what # "dashboards",
         net' = net \cup {Requested(c)}
  PROVE  ListInv'
<1> DEFINE q == Requested(c)
<1>1. DOMAIN q = RequestShape /\ q.call = c
  BY DEF Requested, RequestShape
<1> HIDE DEF q
<1>2. net' = net \cup {q}
  BY DEF q
<1>3. ForDashboards' = ForDashboards
  BY <1>1, <1>2 DEF ForDashboards
<1> QED BY <1>1, <1>2, <1>3 DEF ListInv, SameChoice, OfSensorChosen

(* ... some settle or give up calls.                                       *)
LEMMA FewerCalls ==
  ASSUME ListInv, SameChoice, srv' = srv, net' \subseteq net
  PROVE  ListInv'
<1>1. ForDashboards' \subseteq ForDashboards
  BY DEF ForDashboards
<1> QED BY <1>1 DEF ListInv, SameChoice, OfSensorChosen

LEMMA ListCalls ==
  ASSUME ListInv, ListMounts \/ assign_network \/ remove_sensors_from_network
  PROVE  ListInv'
<1>1. SameChoice /\ srv' = srv
  <2>1. CASE ListMounts
    BY <2>1 DEF ListMounts, SameChoice, ListInv, ListShape
  <2>2. CASE assign_network
    BY <2>2 DEF assign_network, SameChoice, ListInv
  <2>3. CASE remove_sensors_from_network
    BY <2>3 DEF remove_sensors_from_network, SameChoice, ListInv, ListShape
  <2> QED BY <2>1, <2>2, <2>3
<1>2. \/ net' = net
      \/ \E c : c.what # "dashboards" /\ net' = net \cup {Requested(c)}
  BY DEF ListMounts, assign_network, remove_sensors_from_network, Send, ListCall, Requested
<1> QED BY <1>1, <1>2, OtherCall, FewerCalls

LEMMA ListLocal ==
  ASSUME ListInv,
         \/ OpensDialog \/ ClosesDialog \/ compare_sensors \/ CancelsChoice
         \/ goto_selected_dashboard
         \/ \E d \in Devices : select_sensor(d) \/ ChoosesParam(d)
         \/ \E b \in Boards : ChoosesDashboard(b)
  PROVE  ListInv'
<1>1. srv' = srv /\ net' \subseteq net
  BY DEF OpensDialog, ClosesDialog, compare_sensors, CancelsChoice,
         goto_selected_dashboard, select_sensor, ChoosesParam, ChoosesDashboard, ListStill
<1>2. SameChoice
  <2> USE DEF SameChoice, ListInv, ListShape, ListStill
  <2>1. CASE OpensDialog \/ ClosesDialog
    BY <2>1 DEF OpensDialog, ClosesDialog
  <2>2. CASE compare_sensors \/ CancelsChoice \/ goto_selected_dashboard
    BY <2>2 DEF compare_sensors, CancelsChoice, goto_selected_dashboard
  <2>3. CASE \E d \in Devices : select_sensor(d)
    BY <2>3 DEF select_sensor
  <2>4. CASE \E d \in Devices : ChoosesParam(d)
    BY <2>4 DEF ChoosesParam
  <2>5. CASE \E b \in Boards : ChoosesDashboard(b)
    BY <2>5 DEF ChoosesDashboard
  <2> QED BY <2>1, <2>2, <2>3, <2>4, <2>5
<1> QED BY <1>1, <1>2, FewerCalls

LEMMA ListAnswers ==
  ASSUME ListInv, NEW r \in net, NEW ok \in BOOLEAN,
         TotalAnswered(r, ok) \/ NetworkAnswered(r, ok)
  PROVE  ListInv'
<1>1. srv' = srv /\ net' \subseteq net
  BY DEF TotalAnswered, NetworkAnswered, Settle
<1>2. SameChoice
  BY DEF TotalAnswered, NetworkAnswered, SameChoice, ListInv, ListShape
<1> QED BY <1>1, <1>2, FewerCalls

LEMMA ListQuickView ==
  ASSUME ListInv, NEW d \in Devices, quickView(d) PROVE ListInv'
<1> DEFINE q == Requested(ListCall("dashboards", {d}, DeviceType[d]))
<1>1. /\ page' = page /\ srv' = srv /\ net' = net \cup {q} /\ ~ui.choosing /\ ~ui.quick
      /\ ui' = [ui EXCEPT !.sensor = d, !.quick = TRUE]
  BY DEF quickView, Send, Requested, DialogFree, Uncovered
<1>2. /\ DOMAIN ui' = ListShape /\ ui'.sensor = d /\ ui'.quick
      /\ ui'.choosing = ui.choosing
  BY <1>1 DEF ListInv, ListShape
<1>3. DOMAIN q = RequestShape /\ q.call.type = DeviceType[d]
  BY DEF Requested, RequestShape, ListCall
<1> HIDE DEF q
<1>4. ForDashboards' \subseteq {q}
  BY <1>1 DEF ForDashboards, ListInv, OfSensorChosen
<1> QED BY <1>1, <1>2, <1>3, <1>4 DEF ListInv, OfSensorChosen

LEMMA ListDashboards ==
  ASSUME ListInv, NEW r \in net, NEW ok \in BOOLEAN, load_dashboards(r, ok) PROVE ListInv'
<1>1. page' = page /\ srv' = srv /\ net' = net \ {r} /\ r.call.what = "dashboards"
  BY DEF load_dashboards, Settle
<1>2. r \in ForDashboards /\ ForDashboards' = {}
  BY <1>1 DEF ForDashboards, ListInv
<1>3. DOMAIN ui' = ListShape /\ ui'.sensor = ui.sensor
  BY DEF load_dashboards, ListInv, ListShape
<1>4. ui'.choosing => \/ ui'.boards = ui.boards /\ ui.choosing
                      \/ ui'.boards = srv.boards[r.call.type]
  BY DEF load_dashboards, ListInv, ListShape
<1> QED BY <1>1, <1>2, <1>3, <1>4 DEF ListInv, OfSensorChosen

LEMMA ListServing ==
  ASSUME ListInv, NEW r \in net, ListServes(r) PROVE ListInv'
<1> DEFINE q == [r EXCEPT !.served = TRUE]
<1>1. net' = (net \ {r}) \cup {q} /\ UNCHANGED <<page, ui>>
  BY DEF ListServes, Serve
<1>2. DOMAIN q = RequestShape /\ q.call = r.call
  BY DEF ListInv, RequestShape
<1>3. DOMAIN srv' = DOMAIN srv /\ srv'.boards = srv.boards
  BY DEF ListServes, Serve, ListInv
<1> HIDE DEF q
<1>4. \A p \in ForDashboards' : p \in ForDashboards \/ (p = q /\ r \in ForDashboards)
  BY <1>1, <1>2 DEF ForDashboards
<1>5. \A p, s \in ForDashboards' : p = s
  BY <1>1, <1>4 DEF ListInv, ForDashboards
<1> QED BY <1>1, <1>2, <1>3, <1>4, <1>5 DEF ListInv, OfSensorChosen

LEMMA ListSteps == ListInv /\ [ListNext]_webVars => ListInv'
<1> SUFFICES ASSUME ListInv, [ListNext]_webVars PROVE ListInv'
  OBVIOUS
<1>1. CASE ListNext
  BY <1>1, ListCalls, ListLocal, ListAnswers, ListQuickView, ListDashboards, ListServing
     DEF ListNext
<1>2. CASE UNCHANGED webVars
  BY <1>2 DEF webVars, ListInv, ForDashboards, OfSensorChosen
<1> QED BY <1>1, <1>2

(* The dialog of the list offers the dashboards of the type of the sensor  *)
(* they will be opened for: at most one answer is awaited, and nothing     *)
(* chooses another sensor meanwhile (ListSensors.jsx: quickView,           *)
(* load_dashboards, goto_selected_dashboard).                              *)
THEOREM DialogIsOfSensorHolds == ListSpec => []DialogIsOfSensor
<1>1. ListInv => DialogIsOfSensor
  BY DEF ListInv, DialogIsOfSensor
<1> QED BY <1>1, ListStarts, ListSteps, PTL DEF ListSpec

----------------------------------------------------------------------------
(* The history of a sensor, asked for by a caller of the wrappers and by   *)
(* the page of its graphs.                                                 *)
HistorySpec == (RequestsInit \/ GraphInit) /\ [][RequestsNext \/ GraphNext]_webVars

Time == Int \cup {Missing}
Windowed(ask) == "start" \in DOMAIN ask.filter => SoundWindow(ask.filter)

(* A length in groups, rounded down.                                       *)
LEMMA Grouped ==
  ASSUME NEW d \in Nat, NEW n \in Nat \ {0}, NEW g \in Nat, g = d \div n, g > 0
  PROVE  n * g <= d /\ 2 * n * g > d
<1>1. n * g <= d /\ d < n * g + n
  OBVIOUS
<1>2. n <= n * g
  OBVIOUS
<1>3. 2 * n * g = n * g + n * g /\ n * g \in Nat
  OBVIOUS
<1> QED BY <1>1, <1>2, <1>3

LEMMA HistoryIsWindowed ==
  ASSUME NEW a, a.from \in Time, a.to \in Time, a.duration \in Time, a.page \in Nat,
         NEW created \in Int
  PROVE  Windowed(HistoryAsk(a, created))
<1> DEFINE start == HistoryFrom(a.from, a.duration, created)
           end == Else(a.to, Now)
           group == (end - start) \div MaxPoints
           window(g) == [start |-> start, end |-> end, created |-> created, group |-> g]
<1>1. start \in Int /\ end \in Int /\ created <= start
  BY RequestAssumption DEF HistoryFrom, Else, Given, Time
<1>2. Windowed(Rejected)
  BY DEF Rejected, Ask, Windowed
<1>3. CASE end < start
  BY <1>2, <1>3 DEF HistoryAsk
<1>4. CASE ~(end < start)
  <2>1. end - start \in Nat /\ MaxPoints \in Nat \ {0} /\ group \in Nat
    BY <1>1, <1>4, RequestAssumption
  <2>2. SoundWindow(window(0))
    BY <1>1, <1>4 DEF SoundWindow
  <2>3. group # 0 => SoundWindow(window(group))
    <3>1. group > 0 => MaxPoints * group <= end - start /\ 2 * MaxPoints * group > end - start
      BY <2>1, Grouped
    <3> HIDE DEF start, end, group
    <3> QED BY <1>1, <1>4, <2>1, <3>1 DEF SoundWindow
  <2> DEFINE ask == Ask("GET_LIST", <<"sensors", a.sid, "history">>)
  <2>4. \/ HistoryAsk(a, created).filter = window(0)
        \/ group # 0 /\ HistoryAsk(a, created).filter = window(group)
    <3>1. CASE a.page > 0
      <4>1. HistoryAsk(a, created) =
              [ask EXCEPT !.rows = <<a.page, 30>>, !.filter = window(0)]
        BY <1>4, <3>1 DEF HistoryAsk
      <4> HIDE DEF window, group
      <4> QED BY <4>1 DEF Ask
    <3>2. CASE ~(a.page > 0) /\ group = 0
      <4>1. HistoryAsk(a, created) = [ask EXCEPT !.filter = window(0)]
        BY <1>4, <3>2 DEF HistoryAsk
      <4> HIDE DEF window, group
      <4> QED BY <4>1 DEF Ask
    <3>3. CASE ~(a.page > 0) /\ group # 0
      <4>1. HistoryAsk(a, created) =
              [ask EXCEPT !.rows = <<1, MaxPoints>>, !.filter = window(group)]
        BY <1>4, <3>3 DEF HistoryAsk
      <4> HIDE DEF window, group
      <4> QED BY <3>3, <4>1 DEF Ask
    <3> QED BY <3>1, <3>2, <3>3
  <2> QED BY <2>2, <2>3, <2>4 DEF Windowed
<1> QED BY <1>3, <1>4

(* Every other call has no window.                                         *)
LEMMA OthersAreWindowed ==
  ASSUME NEW a, NEW type
  PROVE  /\ Windowed(getSensorInfo(a)) /\ Windowed(getSensorsOf(a, type))
         /\ Windowed(getSensors(a)) /\ Windowed(getGlobalCompany(a)) /\ Windowed(getCompanies(a))
<1>1. \A t, at : Windowed(Ask(t, at))
  BY DEF Ask, Windowed
<1>2. \A at, id : Windowed(AskOne(at, id))
  BY DEF Ask, AskOne, Windowed
<1>3. \A at, first, perPage, field : Windowed(AskPage(at, first, perPage, field))
  BY DEF Ask, AskPage, Windowed
<1>4. \A at, first, value : Windowed(Filtered(AskPage(at, first, 10, "id"), "q", value))
  <2> TAKE at, first, value
  <2> DEFINE ask == AskPage(at, first, 10, "id")
             by == [k \in {"q"} |-> value]
             full == [ask EXCEPT !.filter = by]
  <2>1. Filtered(ask, "q", value) = ask \/ Filtered(ask, "q", value) = full
    BY DEF Filtered
  <2>2. DOMAIN by = {"q"} /\ "start" \notin {"q"}
    OBVIOUS
  <2> HIDE DEF by
  <2>3. full.filter = by
    BY DEF AskPage, Ask
  <2>4. Windowed(ask)
    BY <1>3
  <2> HIDE DEF ask, full
  <2>5. Windowed(full)
    BY <2>2, <2>3 DEF Windowed
  <2> QED BY <2>1, <2>4, <2>5 DEF ask
<1>5. \A needs, ask : Windowed(ask) => Windowed(Needs(needs, ask))
  BY <1>1 DEF Needs, Rejected
<1>6. Windowed(getSensorInfo(a)) /\ Windowed(getGlobalCompany(a)) /\ Windowed(getCompanies(a))
  BY <1>1, <1>2, <1>5 DEF getSensorInfo, getGlobalCompany, getCompanies
<1>7. \A t : Windowed(getSensorsOf(a, t))
  BY <1>4 DEF getSensorsOf
<1>8. Windowed(getSensors(a))
  BY <1>2, <1>5, <1>7 DEF getSensors
<1> QED BY <1>6, <1>7, <1>8

(* A caller of the wrappers: its arguments are times or missing, and what  *)
(* it has asked for has a window.                                          *)
Timely(a) == {a.from, a.to, a.duration} \subseteq Time /\ a.page \in Nat

RequestsInv ==
  /\ page = "Requests" /\ DOMAIN ui = {"a", "asks", "result"}
  /\ srv.created \in Int /\ Timely(ui.a)
  /\ \E S : ui.asks \in Seq(S) /\ \A ask \in S : Windowed(ask)

LEMMA RequestsStart == RequestsInit => RequestsInv
<1> SUFFICES ASSUME RequestsInit PROVE RequestsInv
  OBVIOUS
<1>1. srv.created \in Int /\ Timely(NoArguments)
  BY RequestAssumption DEF RequestsInit, Timely, NoArguments, Time
<1>2. \E S : << >> \in Seq(S) /\ \A ask \in S : Windowed(ask)
  <2>1. << >> \in Seq({}) /\ \A ask \in {} : Windowed(ask)
    OBVIOUS
  <2> DEFINE P(S) == << >> \in Seq(S) /\ \A ask \in S : Windowed(ask)
  <2> HIDE DEF P
  <2>2. P({})
    BY <2>1 DEF P
  <2>3. \E S : P(S)
    BY <2>2
  <2> QED BY <2>3 DEF P
<1> QED BY <1>1, <1>2 DEF RequestsInit, RequestsInv

LEMMA MakesWindowed ==
  ASSUME RequestsInv, NEW a, Timely(a), NEW ask, Windowed(ask), NEW first, Makes(a, ask, first)
  PROVE  RequestsInv'
<1>1. PICK S : ui.asks \in Seq(S) /\ \A x \in S : Windowed(x)
  BY DEF RequestsInv
<1>2. /\ page' = page /\ srv' = srv /\ DOMAIN ui' = {"a", "asks", "result"} /\ ui'.a = a
      /\ ui'.asks = ui.asks \/ ui'.asks = Append(ui.asks, ask)
  BY DEF Makes
<1>3. ui'.asks \in Seq(S \cup {ask})
  BY <1>1, <1>2
<1>4. \A x \in S \cup {ask} : Windowed(x)
  BY <1>1
<1> QED BY <1>2, <1>3, <1>4 DEF RequestsInv

LEMMA OutcomeWindowed ==
  ASSUME RequestsInv, NEW result, Outcome(result) PROVE RequestsInv'
<1>1. /\ page' = page /\ srv' = srv /\ DOMAIN ui' = DOMAIN ui /\ ui'.a = ui.a
      /\ ui'.asks = ui.asks
  BY DEF Outcome, RequestsInv
<1> QED BY <1>1 DEF RequestsInv

LEMMA CallsHistoryWindowed ==
  ASSUME RequestsInv, CallsHistory PROVE RequestsInv'
<1>1. PICK cid \in Optional(Ids), sid \in Optional(Ids), from \in Optional(0..Now),
           to \in Optional(0..Now), duration \in {Missing, 1}, known \in BOOLEAN, p \in {0, 2} :
        LET a == [NoArguments EXCEPT
                    !.cid = cid, !.sid = sid, !.from = from, !.to = to, !.page = p,
                    !.duration = duration, !.created = IF known THEN srv.created ELSE Missing]
        IN Makes(a, getSensorHistory(a), IF known THEN "history" ELSE "sensor")
  BY Zenon DEF CallsHistory
<1> DEFINE c == IF known THEN srv.created ELSE Missing
           a == [NoArguments EXCEPT
                    !.cid = cid, !.sid = sid, !.from = from, !.to = to, !.page = p,
                    !.duration = duration, !.created = c]
<1>2. /\ a.from = from /\ a.to = to /\ a.duration = duration /\ a.page = p
      /\ a.created = c
  BY DEF NoArguments
<1>3. Timely(a)
  BY <1>2, RequestAssumption DEF Timely, Time, Optional
<1>4. Makes(a, getSensorHistory(a), IF known THEN "history" ELSE "sensor")
  BY <1>1
<1>5. a.created # Missing => a.created \in Int
  BY <1>2 DEF RequestsInv
<1> HIDE DEF a
<1>6. Windowed(HistoryAsk(a, a.created)) \/ ~Given(a.created)
  BY <1>3, <1>5, HistoryIsWindowed DEF Timely, Given
<1>7. Windowed(getSensorHistory(a))
  BY <1>6, OthersAreWindowed DEF getSensorHistory, Needs, Rejected, Windowed, Ask
<1> QED BY <1>3, <1>4, <1>7, MakesWindowed

LEMMA CallsOthersWindowed ==
  ASSUME RequestsInv, CallsSensors \/ CallsCompany PROVE RequestsInv'
<1>1. CASE CallsSensors
  <2>1. PICK cid, type, type_id :
          LET a == [NoArguments EXCEPT !.cid = cid, !.type = type, !.type_id = type_id,
                                       !.page = 1]
          IN Makes(a, getSensors(a), IF Given(type_id) THEN "type" ELSE "sensors")
    BY <1>1 DEF CallsSensors
  <2> DEFINE a == [NoArguments EXCEPT !.cid = cid, !.type = type, !.type_id = type_id,
                                      !.page = 1]
  <2>2. Timely(a)
    BY DEF Timely, Time, NoArguments
  <2> HIDE DEF a
  <2>3. Makes(a, getSensors(a), IF Given(type_id) THEN "type" ELSE "sensors")
    BY <2>1 DEF a
  <2> QED BY <2>2, <2>3, MakesWindowed, OthersAreWindowed
<1>2. CASE CallsCompany
  <2>1. PICK cid :
          LET a == [NoArguments EXCEPT !.cid = cid] IN
          Makes(a, getGlobalCompany(a), IF Given(cid) THEN "company" ELSE "companies")
    BY <1>2 DEF CallsCompany
  <2> DEFINE a == [NoArguments EXCEPT !.cid = cid]
  <2>2. Timely(a)
    BY DEF Timely, Time, NoArguments
  <2> HIDE DEF a
  <2>3. Makes(a, getGlobalCompany(a), IF Given(cid) THEN "company" ELSE "companies")
    BY <2>1 DEF a
  <2> QED BY <2>2, <2>3, MakesWindowed, OthersAreWindowed
<1> QED BY <1>1, <1>2

LEMMA AnswersWindowed ==
  ASSUME RequestsInv,
         \/ SensorAnswered \/ TypeAnswered \/ CompaniesAnswered \/ LastAnswered \/ CallFails
         \/ \E how \in {"found", "not found", "failed"} : CompanyAnswered(how)
  PROVE  RequestsInv'
<1>1. CASE SensorAnswered
  <2>1. Windowed(HistoryAsk(ui.a, srv.created))
    BY HistoryIsWindowed DEF RequestsInv, Timely
  <2> QED BY <1>1, <2>1, MakesWindowed DEF SensorAnswered, RequestsInv
<1>2. CASE TypeAnswered
  BY <1>2, MakesWindowed, OthersAreWindowed DEF TypeAnswered, RequestsInv
<1>3. CASE CompaniesAnswered \/ LastAnswered \/ CallFails
  BY <1>3, OutcomeWindowed DEF CompaniesAnswered, LastAnswered, CallFails
<1>4. ASSUME NEW how \in {"found", "not found", "failed"}, CompanyAnswered(how)
      PROVE  RequestsInv'
  <2>1. (\E result : Outcome(result)) \/ Makes(ui.a, getCompanies(ui.a), "companies")
    BY <1>4 DEF CompanyAnswered
  <2> QED BY <2>1, OutcomeWindowed, MakesWindowed, OthersAreWindowed DEF RequestsInv
<1> QED BY <1>1, <1>2, <1>3, <1>4

(* The page of the graphs.                                                 *)
GraphShape == {"dates", "last", "loading", "drawn", "version", "filter", "zoomed"}
Dated(dates) == dates.from \in Int /\ dates.to \in Int

GraphInv ==
  /\ page = "SensorHistory" /\ DOMAIN ui = GraphShape /\ Dated(ui.dates)
  /\ srv.created \in Int
  /\ \A r \in net : DOMAIN r = RequestShape /\ Windowed(r.call.ask)

LEMMA DefaultDates == Dated(WeekToNow) /\ Dated(getInitialDates(FALSE))
BY RequestAssumption DEF Dated, WeekToNow, Dates, getInitialDates

LEMMA GraphStarts == GraphInit => GraphInv
<1> SUFFICES ASSUME GraphInit PROVE GraphInv
  OBVIOUS
<1>1. PICK from \in Optional(Moments), to \in Optional(Moments) :
        ui = GraphUi(Dates(Else(from, WeekToNow.from), Else(to, WeekToNow.to)), Dates(from, to))
  BY DEF GraphInit
<1>2. Moments \subseteq Int
  BY RequestAssumption, SensorPagesAssumption
<1>3. DOMAIN ui = GraphShape
      /\ ui.dates = Dates(Else(from, WeekToNow.from), Else(to, WeekToNow.to))
  BY <1>1 DEF GraphUi, GraphShape
<1>4. Dated(ui.dates)
  <2>1. \A t \in Optional(Moments), d \in Int : Else(t, d) \in Int
    BY <1>2 DEF Else, Given, Optional
  <2>2. Else(from, WeekToNow.from) \in Int /\ Else(to, WeekToNow.to) \in Int
    BY <2>1, DefaultDates DEF Dated
  <2> QED BY <1>3, <2>2 DEF Dated, Dates
<1>5. srv.created \in Int
  BY <1>2 DEF GraphInit
<1> QED BY <1>3, <1>4, <1>5 DEF GraphInit, GraphInv

LEMMA LoadsWindowed ==
  ASSUME GraphInv, NEW dates, Dated(dates), NEW record, Loads(dates, record),
         page' = page, srv' = srv, DOMAIN record = GraphShape, Dated(record.dates)
  PROVE  GraphInv'
<1> DEFINE ask == HistoryAsked(dates, srv.created)
           q == Requested([ask |-> ask, dates |-> dates])
<1>1. Windowed(ask)
  <2> DEFINE a == [NoArguments EXCEPT !.cid = "cid", !.sid = "sid",
                                      !.from = dates.from, !.to = dates.to]
  <2>1. Timely(a)
    BY DEF Timely, Time, NoArguments, Dated
  <2>2. ask = HistoryAsk(a, srv.created)
    BY DEF HistoryAsked
  <2> HIDE DEF a
  <2> QED BY <2>1, <2>2, HistoryIsWindowed DEF Timely, GraphInv
<1>2. DOMAIN q = RequestShape /\ q.call.ask = ask
  BY DEF Requested, RequestShape
<1>3. ui' = record /\ (net' = net \/ net' = net \cup {q})
  BY DEF Loads, Send, Requested
<1> HIDE DEF ask, q
<1> QED BY <1>1, <1>2, <1>3 DEF GraphInv

LEMMA GraphLoads ==
  ASSUME GraphInv,
         \/ GraphMounts \/ LoadButton
         \/ \E zoom \in BOOLEAN : ResetButton(zoom)
         \/ \E d, e \in Moments : onSelection(d, e)
  PROVE  GraphInv'
<1>1. CASE GraphMounts
  <2> DEFINE l == HistoryAsked(ui.dates, srv.created) # Rejected
             record == [ui EXCEPT !.loading = l]
  <2>1. Loads(ui.dates, record) /\ page' = page /\ srv' = srv
    BY <1>1 DEF GraphMounts
  <2> HIDE DEF l
  <2>2. DOMAIN record = GraphShape /\ record.dates = ui.dates
    BY DEF GraphInv, GraphShape
  <2> QED BY <2>1, <2>2, LoadsWindowed DEF GraphInv
<1>2. CASE LoadButton
  <2> DEFINE record == [ui EXCEPT !.loading = FALSE]
  <2>1. Loads(ui.dates, record) /\ page' = page /\ srv' = srv
    BY <1>2 DEF LoadButton
  <2>2. DOMAIN record = GraphShape /\ record.dates = ui.dates
    BY DEF GraphInv, GraphShape
  <2> QED BY <2>1, <2>2, LoadsWindowed DEF GraphInv
<1>3. ASSUME NEW zoom \in BOOLEAN, ResetButton(zoom) PROVE GraphInv'
  <2> DEFINE dates == getInitialDates(FALSE)
             record == [ui EXCEPT !.dates = dates, !.loading = FALSE,
                                  !.zoomed = IF zoom THEN FALSE ELSE @]
  <2>1. Loads(dates, record) /\ page' = page /\ srv' = srv
    BY <1>3 DEF ResetButton
  <2>2. Dated(dates)
    BY DefaultDates
  <2> HIDE DEF dates
  <2>3. DOMAIN record = GraphShape /\ record.dates = dates
    BY DEF GraphInv, GraphShape
  <2> QED BY <2>1, <2>2, <2>3, LoadsWindowed
<1>4. ASSUME NEW d \in Moments, NEW e \in Moments, onSelection(d, e) PROVE GraphInv'
  <2> DEFINE dates == Dates(d, e)
             record == [ui EXCEPT !.dates = dates, !.zoomed = TRUE]
  <2>1. Loads(dates, record) /\ page' = page /\ srv' = srv
    BY <1>4 DEF onSelection
  <2>2. Dated(dates)
    BY RequestAssumption, SensorPagesAssumption DEF Dated, Dates
  <2> HIDE DEF dates
  <2>3. DOMAIN record = GraphShape /\ record.dates = dates
    BY DEF GraphInv, GraphShape
  <2> QED BY <2>1, <2>2, <2>3, LoadsWindowed
<1> QED BY <1>1, <1>2, <1>3, <1>4

LEMMA GraphOthers ==
  ASSUME GraphInv,
         \/ ShowFilter
         \/ \E d \in Moments : PickDate(d)
         \/ \E r \in net : GraphServes(r) \/ \E ok \in BOOLEAN : GraphAnswered(r, ok)
  PROVE  GraphInv'
<1>1. CASE ShowFilter
  BY <1>1 DEF ShowFilter, GraphStill, GraphInv, GraphShape
<1>2. ASSUME NEW d \in Moments, PickDate(d) PROVE GraphInv'
  <2>1. PICK dates \in {Dates(d, ui.dates.to), Dates(ui.dates.from, d)} :
          ui' = [ui EXCEPT !.dates = dates, !.last = dates]
    BY <1>2 DEF PickDate
  <2>2. d \in Int
    BY RequestAssumption, SensorPagesAssumption
  <2>3. Dated(dates)
    BY <2>2 DEF Dated, Dates, GraphInv
  <2>4. DOMAIN ui' = GraphShape /\ ui'.dates = dates
    BY <2>1 DEF GraphInv, GraphShape
  <2> QED BY <1>2, <2>3, <2>4 DEF PickDate, GraphStill, GraphInv
<1>3. ASSUME NEW r \in net, GraphServes(r) PROVE GraphInv'
  <2> DEFINE q == [r EXCEPT !.served = TRUE]
  <2>1. net' = (net \ {r}) \cup {q} /\ UNCHANGED <<page, ui, srv>>
    BY <1>3 DEF GraphServes, Serve
  <2>2. DOMAIN q = RequestShape /\ q.call = r.call
    BY DEF GraphInv, RequestShape
  <2> HIDE DEF q
  <2> QED BY <2>1, <2>2 DEF GraphInv
<1>4. ASSUME NEW r \in net, NEW ok \in BOOLEAN, GraphAnswered(r, ok) PROVE GraphInv'
  <2>1. net' \subseteq net /\ UNCHANGED <<page, srv>>
    BY <1>4 DEF GraphAnswered, Settle
  <2>2. DOMAIN ui' = GraphShape /\ ui'.dates = ui.dates
    BY <1>4 DEF GraphAnswered, GraphInv, GraphShape
  <2> QED BY <2>1, <2>2 DEF GraphInv
<1> QED BY <1>1, <1>2, <1>3, <1>4

HistoryInv == RequestsInv \/ GraphInv

LEMMA HistorySteps == HistoryInv /\ [RequestsNext \/ GraphNext]_webVars => HistoryInv'
<1> SUFFICES ASSUME HistoryInv, [RequestsNext \/ GraphNext]_webVars PROVE HistoryInv'
  OBVIOUS
<1>1. CASE RequestsNext
  <2>1. page = "Requests"
    BY <1>1 DEF RequestsNext, CallsHistory, CallsSensors, CallsCompany, SensorAnswered,
         TypeAnswered, CompaniesAnswered, LastAnswered, CallFails, CompanyAnswered, Idle, Awaits
  <2>2. RequestsInv
    BY <2>1 DEF HistoryInv, GraphInv
  <2> QED BY <1>1, <2>2, CallsHistoryWindowed, CallsOthersWindowed, AnswersWindowed
       DEF RequestsNext, HistoryInv
<1>2. CASE GraphNext
  <2>1. page = "SensorHistory"
    BY <1>2 DEF GraphNext, GraphMounts, ShowFilter, LoadButton, ResetButton, PickDate,
         onSelection, GraphServes, GraphAnswered, OnGraph
  <2>2. GraphInv
    BY <2>1 DEF HistoryInv, RequestsInv
  <2> QED BY <1>2, <2>2, GraphLoads, GraphOthers DEF GraphNext, HistoryInv
<1>3. CASE UNCHANGED webVars
  BY <1>3 DEF webVars, HistoryInv, RequestsInv, GraphInv
<1> QED BY <1>1, <1>2, <1>3

LEMMA HistoryCovers == HistoryInv => HistoryWindow
<1> SUFFICES ASSUME HistoryInv, NEW ask \in AsksMade PROVE Windowed(ask)
  BY DEF HistoryWindow, Windowed
<1>1. CASE RequestsInv
  <2>1. ask \in ToSet(ui.asks)
    BY <1>1 DEF AsksMade, RequestsInv
  <2> QED BY <1>1, <2>1 DEF RequestsInv, ToSet
<1>2. CASE GraphInv
  BY <1>2 DEF AsksMade, GraphInv
<1> QED BY <1>1, <1>2 DEF HistoryInv

(* A history that is asked for lies in the life of its sensor, and its     *)
(* groups are not empty and reach over more than half of it, for every     *)
(* combination of ends, durations and ages, known when the call is made or *)
(* asked for first (api_wraps.js: getSensorHistory; GraphSensorHistory.jsx).  *)
THEOREM HistoryWindowHolds == HistorySpec => []HistoryWindow
<1>1. RequestsInit \/ GraphInit => HistoryInv
  BY RequestsStart, GraphStarts DEF HistoryInv
<1> QED BY <1>1, HistorySteps, HistoryCovers, PTL DEF HistorySpec

----------------------------------------------------------------------------
(* The forms of an account.                                                *)
AccountShape == {"password", "verified", "verification_code", "reset_code"}
FieldsShape == {"email", "password", "code", "named"}
CallShape == {"what", "email", "password", "code", "fine", "gone"}
Asked == {"signup", "verify", "resend-verification", "forgot-password", "reset-password"}

Mailed(s, e, code) == \E m \in s.mails : m.to = e /\ m.code = code
CameBack(s, e) == \E m \in s.mails : m.to = e /\ <<e, m.code>> \in s.back

(* What holds of the address e at a server s that checks addresses: a      *)
(* verified one has sent a code back; the code that verifies it, and the   *)
(* one that gives it a new password, were mailed to it.                    *)
SoundAddress(s, e) ==
  LET a == s.accounts[e] IN
  /\ DOMAIN a = AccountShape /\ a.verified \in BOOLEAN
  /\ a.verified => CameBack(s, e) \/ ~s.checks
  /\ Exists(a) /\ ~a.verified => Mailed(s, e, a.verification_code) \/ ~s.checks
  /\ a.reset_code # Blank => Mailed(s, e, a.reset_code)

SoundServer(s) ==
  /\ DOMAIN s = {"accounts", "mails", "back", "checks"} /\ DOMAIN s.accounts = Emails
  /\ \A e \in Emails : SoundAddress(s, e)

(* The form for a new password sends no blank code.                        *)
SoundForm(c) ==
  /\ DOMAIN c = CallShape /\ c.what \in Asked /\ c.email \in Emails
  /\ c.what = "reset-password" => c.code # Blank

FormsInv ==
  /\ page = "Account" /\ SoundServer(srv)
  /\ DOMAIN ui = {"form", "reverify", "fields"} /\ DOMAIN ui.fields = FieldsShape
  /\ ui.fields.email \in Emails \cup {Blank}
  /\ \A r \in net : DOMAIN r = RequestShape /\ SoundForm(r.call)

LEMMA Unopened ==
  /\ DOMAIN NoAccount = AccountShape /\ NoAccount.verified = FALSE
  /\ NoAccount.password = Blank /\ NoAccount.reset_code = Blank
BY DEF NoAccount, AccountShape

LEMMA FormsStart == FormsInit => FormsInv
<1> SUFFICES ASSUME FormsInit PROVE FormsInv
  OBVIOUS
<1>1. /\ DOMAIN srv = {"accounts", "mails", "back", "checks"}
      /\ srv.accounts = [e \in Emails |-> NoAccount]
  BY DEF FormsInit
<1>2. ASSUME NEW e \in Emails PROVE SoundAddress(srv, e)
  <2>1. srv.accounts[e] = NoAccount
    BY <1>1
  <2> QED BY <2>1, Unopened DEF SoundAddress, Exists
<1>3. /\ DOMAIN ui = {"form", "reverify", "fields"} /\ ui.fields = Cleared_form
  BY DEF FormsInit
<1>4. DOMAIN Cleared_form = FieldsShape /\ Cleared_form.email = Blank
  BY DEF Cleared_form, FieldsShape
<1> QED BY <1>1, <1>2, <1>3, <1>4 DEF FormsInv, FormsInit, SoundServer

(* What the server does keeps every mail and every code that came back.    *)
LEMMA OtherAddresses ==
  ASSUME SoundServer(srv), NEW s, NEW e \in Emails,
         DOMAIN s = {"accounts", "mails", "back", "checks"},
         NEW a, s.accounts = [srv.accounts EXCEPT ![e] = a],
         srv.mails \subseteq s.mails, srv.back \subseteq s.back, s.checks = srv.checks,
         SoundAddress(s, e)
  PROVE  SoundServer(s)
<1>1. ASSUME NEW f \in Emails, f # e PROVE SoundAddress(s, f)
  <2>1. s.accounts[f] = srv.accounts[f]
    BY <1>1 DEF SoundServer
  <2>2. SoundAddress(srv, f)
    BY DEF SoundServer
  <2> QED BY <2>1, <2>2 DEF SoundAddress, CameBack, Mailed
<1> QED BY <1>1 DEF SoundServer

LEMMA SignupSound ==
  ASSUME SoundServer(srv), NEW c, c.email \in Emails PROVE SoundServer(SignupResource(c))
<1> DEFINE e == c.email
           m == Mail(e, "verify", NewCode)
           v == ~srv.checks
           a == [NoAccount EXCEPT !.password = c.password, !.verified = v,
                                  !.verification_code = NewCode]
           s == SignupResource(c)
<1>1. v \in BOOLEAN /\ (v <=> ~srv.checks)
  OBVIOUS
<1>2. /\ DOMAIN s = {"accounts", "mails", "back", "checks"}
      /\ s.accounts = [srv.accounts EXCEPT ![e] = a]
      /\ s.back = srv.back /\ s.checks = srv.checks
      /\ srv.checks => s.mails = srv.mails \cup {m}
      /\ ~srv.checks => s.mails = srv.mails
  BY DEF SignupResource, SoundServer
<1>3. m.to = e /\ m.code = NewCode
  BY DEF Mail
<1> HIDE DEF s, m, v
<1>4. /\ DOMAIN a = AccountShape /\ a.verified = v /\ a.verification_code = NewCode
      /\ a.reset_code = Blank
  BY Unopened DEF AccountShape
<1> HIDE DEF a
<1>5. s.accounts[e] = a
  BY <1>2 DEF SoundServer
<1>6. SoundAddress(s, e)
  BY <1>1, <1>2, <1>3, <1>4, <1>5 DEF SoundAddress, Mailed
<1> QED BY <1>2, <1>6, OtherAddresses DEF s

LEMMA ForgotSound ==
  ASSUME SoundServer(srv), NEW c, c.email \in Emails PROVE SoundServer(ForgotPassword(c))
<1> DEFINE e == c.email
           m == Mail(e, "reset", NewCode)
           a == [srv.accounts[e] EXCEPT !.reset_code = NewCode]
           s == ForgotPassword(c)
<1>1. /\ DOMAIN s = {"accounts", "mails", "back", "checks"}
      /\ s.accounts = [srv.accounts EXCEPT ![e] = a]
      /\ s.back = srv.back /\ s.checks = srv.checks /\ s.mails = srv.mails \cup {m}
  BY DEF ForgotPassword, SoundServer
<1>2. m.to = e /\ m.code = NewCode
  BY DEF Mail
<1>3. SoundAddress(srv, e)
  BY DEF SoundServer
<1>4. /\ DOMAIN a = AccountShape /\ a.reset_code = NewCode
      /\ a.verified = srv.accounts[e].verified /\ a.password = srv.accounts[e].password
      /\ a.verification_code = srv.accounts[e].verification_code
  BY <1>3 DEF SoundAddress, AccountShape
<1> HIDE DEF s, m, a
<1>5. s.accounts[e] = a
  BY <1>1 DEF SoundServer
<1>6. SoundAddress(s, e)
  BY <1>1, <1>2, <1>3, <1>4, <1>5 DEF SoundAddress, Mailed, CameBack, Exists
<1> QED BY <1>1, <1>6, OtherAddresses DEF s

LEMMA ResendSound ==
  ASSUME SoundServer(srv), NEW c, c.email \in Emails PROVE SoundServer(ResendVerificationMail(c))
<1> DEFINE e == c.email
           m == Mail(e, "verify", NewCode)
           a == [srv.accounts[e] EXCEPT !.verification_code = NewCode]
           s == ResendVerificationMail(c)
<1>1. /\ DOMAIN s = {"accounts", "mails", "back", "checks"}
      /\ s.accounts = [srv.accounts EXCEPT ![e] = a]
      /\ s.back = srv.back /\ s.checks = srv.checks /\ s.mails = srv.mails \cup {m}
  BY DEF ResendVerificationMail, SoundServer
<1>2. m.to = e /\ m.code = NewCode
  BY DEF Mail
<1>3. SoundAddress(srv, e)
  BY DEF SoundServer
<1>4. /\ DOMAIN a = AccountShape /\ a.verification_code = NewCode
      /\ a.verified = srv.accounts[e].verified /\ a.password = srv.accounts[e].password
      /\ a.reset_code = srv.accounts[e].reset_code
  BY <1>3 DEF SoundAddress, AccountShape
<1> HIDE DEF s, m, a
<1>5. s.accounts[e] = a
  BY <1>1 DEF SoundServer
<1>6. SoundAddress(s, e)
  BY <1>1, <1>2, <1>3, <1>4, <1>5 DEF SoundAddress, Mailed, CameBack
<1> QED BY <1>1, <1>6, OtherAddresses DEF s

(* The code that came back with an accepted call was mailed.               *)
LEMMA ResetSound ==
  ASSUME SoundServer(srv), NEW c, SoundForm(c), c.what = "reset-password", Accepts(c)
  PROVE  SoundServer(ResetPassword(c))
<1> DEFINE e == c.email
           a == [NoAccount EXCEPT !.password = c.password, !.verified = TRUE]
           s == ResetPassword(c)
<1>1. /\ e \in Emails /\ SoundAddress(srv, e)
      /\ Mailed(srv, e, c.code)
  BY DEF SoundServer, SoundForm, SoundAddress, Accepts
<1>2. DOMAIN a = AccountShape /\ a.verified = TRUE /\ a.reset_code = Blank
  BY Unopened DEF AccountShape
<1>3. /\ DOMAIN s = {"accounts", "mails", "back", "checks"}
      /\ s.accounts = [srv.accounts EXCEPT ![e] = a]
      /\ s.back = srv.back \cup {<<e, c.code>>} /\ s.checks = srv.checks
      /\ s.mails = srv.mails
  BY DEF ResetPassword, SoundServer
<1> HIDE DEF s, a
<1>4. s.accounts[e] = a
  BY <1>1, <1>3 DEF SoundServer
<1>5. CameBack(s, e)
  BY <1>1, <1>3 DEF Mailed, CameBack
<1>6. SoundAddress(s, e)
  BY <1>2, <1>3, <1>4, <1>5 DEF SoundAddress
<1> QED BY <1>1, <1>3, <1>6, OtherAddresses DEF s

LEMMA VerifySound ==
  ASSUME SoundServer(srv), NEW c, SoundForm(c), c.what = "verify", Accepts(c)
  PROVE  SoundServer(EmailVerifyResource(c))
<1> DEFINE e == c.email
           a == [srv.accounts[e] EXCEPT !.verified = TRUE, !.verification_code = Blank]
           s == EmailVerifyResource(c)
<1>1. e \in Emails /\ SoundAddress(srv, e)
  BY DEF SoundServer, SoundForm
<1>2. CASE srv.accounts[e].verified
  BY <1>2 DEF EmailVerifyResource
<1>3. CASE ~srv.accounts[e].verified
  <2>1. Mailed(srv, e, c.code) \/ ~srv.checks
    BY <1>1, <1>3 DEF SoundAddress, Accepts
  <2>2. /\ DOMAIN s = {"accounts", "mails", "back", "checks"}
        /\ s.accounts = [srv.accounts EXCEPT ![e] = a]
        /\ s.back = srv.back \cup {<<e, c.code>>} /\ s.checks = srv.checks
        /\ s.mails = srv.mails
    BY <1>1, <1>3 DEF EmailVerifyResource, SoundServer, SoundAddress, AccountShape
  <2>3. /\ DOMAIN a = AccountShape /\ a.verified = TRUE
        /\ a.reset_code = srv.accounts[e].reset_code
    BY <1>1 DEF SoundAddress, AccountShape
  <2> HIDE DEF s, a
  <2>4. s.accounts[e] = a
    BY <1>1, <2>2 DEF SoundServer
  <2>5. CameBack(s, e) \/ ~s.checks
    BY <2>1, <2>2 DEF Mailed, CameBack
  <2>6. SoundAddress(s, e)
    BY <1>1, <2>2, <2>3, <2>4, <2>5 DEF SoundAddress, Mailed
  <2> QED BY <1>1, <2>2, <2>6, OtherAddresses DEF s
<1> QED BY <1>2, <1>3

LEMMA FormServedSound ==
  ASSUME FormsInv, NEW r \in net, FormServed(r) PROVE FormsInv'
<1>1. SoundServer(srv) /\ SoundForm(r.call)
  BY DEF FormsInv
<1>2. SoundServer(srv')
  <2>1. CASE ~Accepts(r.call)
    BY <1>1, <2>1 DEF FormServed
  <2>2. CASE Accepts(r.call)
    <3>1. CASE r.call.what = "signup"
      BY <1>1, <2>2, <3>1, SignupSound DEF FormServed, SoundForm
    <3>2. CASE r.call.what = "verify"
      BY <1>1, <2>2, <3>2, VerifySound DEF FormServed
    <3>3. CASE r.call.what = "forgot-password"
      BY <1>1, <2>2, <3>3, ForgotSound DEF FormServed, SoundForm
    <3>4. CASE r.call.what = "reset-password"
      BY <1>1, <2>2, <3>4, ResetSound DEF FormServed
    <3>5. CASE r.call.what = "resend-verification"
      BY <1>1, <2>2, <3>5, ResendSound DEF FormServed, SoundForm
    <3> QED BY <1>1, <3>1, <3>2, <3>3, <3>4, <3>5 DEF SoundForm, Asked
  <2> QED BY <2>1, <2>2
<1> DEFINE fine == Accepts(r.call)
           c == [r.call EXCEPT !.fine = fine]
           q == [r EXCEPT !.served = TRUE, !.call.fine = fine]
<1>3. net' = (net \ {r}) \cup {q} /\ UNCHANGED <<page, ui>>
  BY DEF FormServed
<1> HIDE DEF fine
<1>4. SoundForm(c)
  BY <1>1 DEF SoundForm, CallShape
<1>5. DOMAIN q = RequestShape /\ q.call = c
  BY DEF FormsInv, RequestShape
<1> HIDE DEF q, c
<1> QED BY <1>2, <1>3, <1>4, <1>5 DEF FormsInv

LEMMA SubmitsSound ==
  ASSUME FormsInv, NEW form, NEW what \in Asked, Submits(form, what),
         what = "reset-password" => ui.fields.code # Blank
  PROVE  FormsInv'
<1> DEFINE c == FormCall(what)
           q == Requested(c)
<1>1. net' = net \cup {q} /\ UNCHANGED <<page, ui, srv>> /\ ui.fields.email # Blank
  BY DEF Submits, Send, Requested
<1>2. SoundForm(c)
  BY <1>1 DEF SoundForm, FormCall, CallShape, FormsInv
<1>3. DOMAIN q = RequestShape /\ q.call = c
  BY DEF Requested, RequestShape
<1> HIDE DEF q, c
<1> QED BY <1>1, <1>2, <1>3 DEF FormsInv

LEMMA FormActionsSound ==
  ASSUME FormsInv,
         \/ \E form \in Forms : OpensForm(form)
         \/ \E field \in {"email", "password", "code", "named"} : Types(field)
         \/ TogglesReverify
         \/ \E r \in net : \E ok \in BOOLEAN : FormAnswered(r, ok)
  PROVE  FormsInv'
<1>1. DOMAIN Cleared_form = FieldsShape /\ Cleared_form.email = Blank
  BY DEF Cleared_form, FieldsShape
<1>2. ASSUME NEW form \in Forms, OpensForm(form) PROVE FormsInv'
  <2>1. /\ net' = {[r EXCEPT !.call.gone = TRUE] : r \in net} /\ UNCHANGED <<page, srv>>
        /\ ui' = [form |-> form, reverify |-> FALSE, fields |-> Cleared_form]
    BY <1>2 DEF OpensForm
  <2>2. ASSUME NEW r \in net
        PROVE  /\ DOMAIN [r EXCEPT !.call.gone = TRUE] = RequestShape
               /\ SoundForm([r EXCEPT !.call.gone = TRUE].call)
    <3> DEFINE c == [r.call EXCEPT !.gone = TRUE]
    <3>1. SoundForm(c)
      BY DEF FormsInv, SoundForm, CallShape
    <3>2. [r EXCEPT !.call.gone = TRUE].call = c
      BY DEF FormsInv, RequestShape
    <3>3. DOMAIN [r EXCEPT !.call.gone = TRUE] = RequestShape
      BY DEF FormsInv
    <3> QED BY <3>1, <3>2, <3>3
  <2>3. \A q \in net' : DOMAIN q = RequestShape /\ SoundForm(q.call)
    BY <2>1, <2>2
  <2>4. DOMAIN ui' = {"form", "reverify", "fields"} /\ ui'.fields = Cleared_form
    BY <2>1
  <2> QED BY <1>1, <2>1, <2>3, <2>4 DEF FormsInv
<1>3. ASSUME NEW field \in {"email", "password", "code", "named"}, Types(field) PROVE FormsInv'
  <2>1. PICK v \in Typed(field) : ui' = [ui EXCEPT !.fields[field] = v]
    BY <1>3 DEF Types
  <2>2. UNCHANGED <<page, net, srv>>
    BY <1>3 DEF Types, FormStill
  <2>3. DOMAIN ui' = DOMAIN ui /\ ui'.fields = [ui.fields EXCEPT ![field] = v]
    BY <2>1 DEF FormsInv
  <2>4. field = "email" => v \in Emails
    BY DEF Typed
  <2>5. DOMAIN ui'.fields = FieldsShape /\ ui'.fields.email \in Emails \cup {Blank}
    BY <2>3, <2>4 DEF FormsInv, FieldsShape
  <2> QED BY <2>2, <2>3, <2>5 DEF FormsInv
<1>4. CASE TogglesReverify
  BY <1>4 DEF TogglesReverify, FormStill, FormsInv
<1>5. ASSUME NEW r \in net, NEW ok \in BOOLEAN, FormAnswered(r, ok) PROVE FormsInv'
  <2>1. net' \subseteq net /\ UNCHANGED <<page, srv>>
    BY <1>5 DEF FormAnswered, Settle
  <2>2. DOMAIN ui' = DOMAIN ui /\ (ui'.fields = ui.fields \/ ui'.fields = Cleared_form)
    <3>1. CASE ok /\ ~r.call.gone
      <4> DEFINE b == ui.reverify /\ r.call.what # "resend-verification"
      <4>1. ui' = [ui EXCEPT !.fields = Cleared_form, !.reverify = b]
        BY <1>5, <3>1 DEF FormAnswered
      <4> HIDE DEF b
      <4> QED BY <4>1 DEF FormsInv
    <3>2. CASE ~(ok /\ ~r.call.gone)
      BY <1>5, <3>2 DEF FormAnswered
    <3> QED BY <3>1, <3>2
  <2> QED BY <1>1, <2>1, <2>2 DEF FormsInv
<1> QED BY <1>2, <1>3, <1>4, <1>5

LEMMA FormsSteps == FormsInv /\ FormsNext => FormsInv'
<1> SUFFICES ASSUME FormsInv, FormsNext PROVE FormsInv'
  OBVIOUS
<1>1. CASE sign_up \/ confirm_email \/ resend_email \/ forgot_password \/ reset_password
  BY <1>1, SubmitsSound
     DEF sign_up, confirm_email, resend_email, forgot_password, reset_password, Asked
<1> QED BY <1>1, FormServedSound, FormActionsSound DEF FormsNext

(* The profile.                                                            *)
Parts == {"user", "meta"}
UserShape == {"name", "email"}
MetaShape == {"address", "company"}
ProfileShape ==
  {"user", "meta", "initial", "stored", "selected", "switcher", "honest", "undone",
   "failed", "notice"}
SaveShape == {"what", "value", "keys", "batch"}

(* Of each part, what the server has to keep for the page and it to agree. *)
Main(part) == IF part = "user" THEN "name" ELSE "address"

ShownIsKept(part) == ui[part][Main(part)] = srv[part][Main(part)]
SavedIsKept(part) == ui.initial[part][Main(part)] = srv[part][Main(part)]

(* The saves of a part that have nothing left to change of it.             *)
Carried(part) == {r \in net : r.call.what = part /\ Main(part) \notin r.call.keys}

(* As long as the page was used honestly and the switcher undid nothing: a *)
(* save carries what is shown; once it is carried the server keeps it; and *)
(* what the page takes for saved is kept, or an answer is on its way that  *)
(* will make it so.                                                        *)
Honest ==
  /\ \A r \in SavesSent : r.call.value[Main(r.call.what)] = ui[r.call.what][Main(r.call.what)]
  /\ \A part \in Parts : /\ Carried(part) # {} => ShownIsKept(part)
                         /\ Carried(part) = {} => SavedIsKept(part)

ProfileCall(r) ==
  /\ DOMAIN r = RequestShape /\ DOMAIN r.call = SaveShape
  /\ r.call.what \in Parts \cup {"default"}
  /\ r.call.what = "default" => r.call.keys \subseteq {"company"}
  /\ r.call.what = "meta" => r.call.keys \subseteq MetaShape
  /\ r.call.what = "user" => r.call.keys \subseteq {"name"}
  /\ r.served => r.call.keys = {}

ProfileInv ==
  /\ page = "Profile" /\ DOMAIN ui = ProfileShape
  /\ ui.honest \in BOOLEAN /\ ui.undone \in BOOLEAN
  /\ DOMAIN ui.user = UserShape /\ DOMAIN ui.meta = MetaShape /\ DOMAIN ui.stored = MetaShape
  /\ DOMAIN ui.initial = Parts
  /\ DOMAIN ui.initial.user = UserShape /\ DOMAIN ui.initial.meta = MetaShape
  /\ DOMAIN srv = Parts /\ DOMAIN srv.user = UserShape /\ DOMAIN srv.meta = MetaShape
  /\ \A r \in net : ProfileCall(r)
  /\ ui.honest /\ ~ui.undone => Honest

LEMMA ProfileStarts == ProfileInit => ProfileInv
<1> SUFFICES ASSUME ProfileInit PROVE ProfileInv
  OBVIOUS
<1>1. PICK n, default, selected, user, meta :
        /\ user = [name |-> n, email |-> n] /\ meta = [address |-> n, company |-> default]
        /\ ui = [user |-> user, meta |-> meta, initial |-> [user |-> user, meta |-> meta],
                 stored |-> meta, selected |-> selected, switcher |-> "loading",
                 honest |-> TRUE, undone |-> FALSE, failed |-> {}, notice |-> "none"]
        /\ srv = [user |-> user, meta |-> meta]
  BY DEF ProfileInit
<1>2. page = "Profile" /\ net = {}
  BY DEF ProfileInit
<1>3. DOMAIN user = UserShape /\ DOMAIN meta = MetaShape
  BY <1>1 DEF UserShape, MetaShape
<1>4. /\ ui.user = user /\ ui.meta = meta /\ ui.initial.user = user /\ ui.initial.meta = meta
      /\ ui.stored = meta /\ ui.honest = TRUE /\ ui.undone = FALSE
      /\ srv.user = user /\ srv.meta = meta
      /\ DOMAIN ui = ProfileShape /\ DOMAIN ui.initial = Parts /\ DOMAIN srv = Parts
  BY <1>1 DEF Parts, ProfileShape
<1>5. Honest
  BY <1>2, <1>4 DEF Honest, Carried, SavesSent, SavedIsKept, Parts
<1> QED BY <1>2, <1>3, <1>4, <1>5 DEF ProfileInv

(* What is taken for saved is kept while no save is under way.             *)
LEMMA QuietlyKept ==
  ASSUME ProfileInv, ui.honest, ~ui.undone, SavesSent = {}, NEW part \in Parts
  PROVE  SavedIsKept(part) /\ Carried(part) = {}
<1>1. Carried(part) \subseteq SavesSent
  BY DEF Carried, SavesSent, Parts
<1> QED BY <1>1 DEF ProfileInv, Honest

(* Steps that keep the calls and the server.                               *)
LEMMA EditsHonest ==
  ASSUME ProfileInv, Edits PROVE ProfileInv'
<1> DEFINE h == ui.honest /\ SavesSent = {}
           g == h /\ ~ui.undone
<1>1. PICK n \in Names :
        \/ ui' = [ui EXCEPT !.user.name = n, !.honest = h]
        \/ ui' = [ui EXCEPT !.user.email = n, !.honest = h]
        \/ ui' = [ui EXCEPT !.meta.address = n, !.honest = g]
  BY DEF Edits
<1>2. UNCHANGED <<page, net, srv>>
  BY DEF Edits, FormStill
<1>3. h \in BOOLEAN /\ g \in BOOLEAN /\ (g => h) /\ (h => ui.honest /\ SavesSent = {})
  BY DEF ProfileInv
<1> HIDE DEF h, g
<1>4. /\ DOMAIN ui' = ProfileShape
      /\ DOMAIN ui'.user = UserShape /\ DOMAIN ui'.meta = MetaShape
      /\ ui'.stored = ui.stored /\ ui'.undone = ui.undone
      /\ ui'.initial = ui.initial /\ ui'.honest \in {h, g}
  BY <1>1 DEF ProfileInv, ProfileShape, UserShape, MetaShape
<1>5. h /\ ~ui.undone => Honest'
  <2> SUFFICES ASSUME h, ~ui.undone PROVE Honest'
    OBVIOUS
  <2>1. \A part \in Parts : SavedIsKept(part) /\ Carried(part) = {}
    BY <1>3, QuietlyKept
  <2> QED BY <1>2, <1>3, <1>4, <2>1 DEF Honest, Carried, SavesSent, SavedIsKept
<1> QED BY <1>2, <1>3, <1>4, <1>5 DEF ProfileInv

LEMMA ResetHonest ==
  ASSUME ProfileInv, reset PROVE ProfileInv'
<1> DEFINE h == ui.honest /\ SavesSent = {}
<1>1. UNCHANGED <<page, net, srv>>
  BY DEF reset, FormStill
<1>2. ui' = [[ui EXCEPT !.user = ui.initial.user, !.meta = ui.initial.meta] EXCEPT !.honest = h]
  BY DEF reset, WentBack, ProfileInv, ProfileShape
<1>3. h \in BOOLEAN /\ (h => ui.honest /\ SavesSent = {})
  BY DEF ProfileInv
<1> HIDE DEF h
<1>4. /\ DOMAIN ui' = ProfileShape
      /\ DOMAIN ui'.user = UserShape /\ DOMAIN ui'.meta = MetaShape
      /\ ui'.stored = ui.stored /\ ui'.undone = ui.undone
      /\ ui'.initial = ui.initial /\ ui'.honest = h
  BY <1>2 DEF ProfileInv, ProfileShape
<1>5. h /\ ~ui.undone => Honest'
  <2> SUFFICES ASSUME h, ~ui.undone PROVE Honest'
    OBVIOUS
  <2>1. \A part \in Parts : SavedIsKept(part) /\ Carried(part) = {}
    BY <1>3, QuietlyKept
  <2> QED BY <1>1, <1>3, <1>4, <2>1 DEF Honest, Carried, SavesSent, SavedIsKept
<1> QED BY <1>1, <1>3, <1>4, <1>5 DEF ProfileInv

LEMMA ReopensHonest ==
  ASSUME ProfileInv, Reopens PROVE ProfileInv'
<1> DEFINE h == /\ ui.honest /\ ~Unsaved("user")
                /\ ui.undone \/ ui.meta.address = ui.initial.meta.address
           i == [user |-> ui.user, meta |-> ui.meta]
<1>1. UNCHANGED <<page, net, srv>> /\ net = {}
  BY DEF Reopens, FormStill
<1>2. PICK selected \in Workplaces :
        ui' = [ui EXCEPT !.initial = i, !.failed = {}, !.notice = "none",
                         !.selected = selected, !.switcher = "loading", !.honest = h]
  BY DEF Reopens
<1>3. /\ h \in BOOLEAN
      /\ h /\ ~ui.undone => /\ ui.honest /\ ui.initial.user = ui.user
                           /\ ui.initial.meta.address = ui.meta.address
  BY DEF ProfileInv, Unsaved
<1>4. DOMAIN i = Parts /\ i.user = ui.user /\ i.meta = ui.meta
  BY DEF Parts
<1> HIDE DEF h, i
<1>5. /\ DOMAIN ui' = ProfileShape /\ ui'.user = ui.user /\ ui'.meta = ui.meta
      /\ ui'.stored = ui.stored /\ ui'.undone = ui.undone
      /\ ui'.initial = i /\ ui'.honest = h
  BY <1>2 DEF ProfileInv, ProfileShape
<1>6. h /\ ~ui.undone => Honest'
  <2> SUFFICES ASSUME h, ~ui.undone PROVE Honest'
    OBVIOUS
  <2>1. \A part \in Parts : SavedIsKept(part)
    BY <1>1, <1>3, QuietlyKept DEF SavesSent
  <2>2. \A part \in Parts : ui'.initial[part][Main(part)] = ui.initial[part][Main(part)]
    BY <1>3, <1>4, <1>5 DEF Parts, Main
  <2> QED BY <1>1, <1>5, <2>1, <2>2 DEF Honest, Carried, SavesSent, SavedIsKept
<1> QED BY <1>1, <1>3, <1>4, <1>5, <1>6 DEF ProfileInv

(* Calls that are sent.                                                    *)
LEMMA SaveHonest ==
  ASSUME ProfileInv, save PROVE ProfileInv'
<1> DEFINE parts == {part \in Parts : Unsaved(part)}
           calls == {[id |-> <<sent, part>>, call |-> SaveCall(part), served |-> FALSE] :
                       part \in parts}
           notice == IF parts = {} THEN "Please change" ELSE "Saving"
<1>1. /\ UNCHANGED <<page, srv>> /\ ui' = [ui EXCEPT !.notice = notice]
      /\ net' = net \/ net' = net \cup calls
  BY DEF save, Parts
<1>2. ASSUME NEW r \in calls
      PROVE  /\ ProfileCall(r) /\ r.call.what \in Parts
             /\ r.call.value = ui[r.call.what] /\ r.call.keys = Changed(r.call.what)
  <2>1. PICK part \in parts :
          r = [id |-> <<sent, part>>, call |-> SaveCall(part), served |-> FALSE]
    OBVIOUS
  <2>2. /\ DOMAIN r = RequestShape /\ r.served = FALSE /\ r.call = SaveCall(part)
        /\ part \in Parts
    BY <2>1 DEF RequestShape
  <2>3. /\ DOMAIN r.call = SaveShape /\ r.call.what = part /\ r.call.value = ui[part]
        /\ r.call.keys = Changed(part)
    BY <2>2 DEF SaveCall, SaveShape
  <2>4. /\ part = "user" => Changed(part) = {"name"}
        /\ part = "meta" => Changed(part) \subseteq MetaShape
    BY DEF Changed, MetaShape
  <2> QED BY <2>2, <2>3, <2>4 DEF ProfileCall, Parts
<1> HIDE DEF notice, calls
<1>3. /\ DOMAIN ui' = ProfileShape /\ ui'.user = ui.user /\ ui'.meta = ui.meta
      /\ ui'.stored = ui.stored /\ ui'.undone = ui.undone
      /\ ui'.initial = ui.initial /\ ui'.honest = ui.honest
  BY <1>1 DEF ProfileInv, ProfileShape
<1>4. \A part \in Parts : ui'[part] = ui[part]
  BY <1>3 DEF Parts
<1>5. \A r \in net' : ProfileCall(r)
  BY <1>1, <1>2 DEF ProfileInv
<1>6. ui.honest /\ ~ui.undone => Honest'
  <2> SUFFICES ASSUME ui.honest, ~ui.undone PROVE Honest'
    OBVIOUS
  <2>1. \A r \in SavesSent' : r.call.value[Main(r.call.what)] = ui'[r.call.what][Main(r.call.what)]
    BY <1>1, <1>2, <1>4, <1>5 DEF ProfileInv, Honest, SavesSent, ProfileCall
  <2>2. ASSUME NEW part \in Parts
        PROVE  /\ Carried(part)' # {} => ShownIsKept(part)
               /\ Carried(part)' = {} => SavedIsKept(part)
    <3>1. Carried(part) \subseteq Carried(part)'
      BY <1>1 DEF Carried
    <3>2. CASE Carried(part) # {}
      BY <3>1, <3>2 DEF ProfileInv, Honest
    <3>3. CASE Carried(part) = {}
      <4>1. SavedIsKept(part)
        BY <3>3 DEF ProfileInv, Honest
      <4>2. ASSUME Carried(part)' # {} PROVE ui[part][Main(part)] = ui.initial[part][Main(part)]
        <5>1. PICK r \in calls : r.call.what = part /\ Main(part) \notin r.call.keys
          BY <1>1, <3>3, <4>2 DEF Carried
        <5>2. Main(part) \notin Changed(part)
          BY <1>2, <5>1
        <5> QED BY <5>2 DEF Changed, Main, Parts
      <4> QED BY <4>1, <4>2 DEF SavedIsKept, ShownIsKept
    <3> QED BY <3>2, <3>3
  <2> QED BY <1>1, <1>3, <1>4, <2>1, <2>2 DEF Honest, ShownIsKept, SavedIsKept
<1> QED BY <1>1, <1>3, <1>5, <1>6 DEF ProfileInv

LEMMA DefaultHonest ==
  ASSUME ProfileInv, companies_listed \/ make_default PROVE ProfileInv'
<1> DEFINE q == [id |-> <<sent, "default">>, call |-> DefaultCall, served |-> FALSE]
<1>1. PICK s : ui' = [ui EXCEPT !.switcher = s]
  BY DEF companies_listed, make_default
<1>2. UNCHANGED <<page, srv>> /\ (net' = net \/ net' = net \cup {q})
  BY DEF companies_listed, make_default, FormStill
<1>3. ProfileCall(q) /\ q.call.what = "default"
  <2>1. DOMAIN q = RequestShape /\ q.served = FALSE /\ q.call = DefaultCall
    BY DEF RequestShape
  <2>2. /\ DOMAIN DefaultCall = SaveShape /\ DefaultCall.what = "default"
        /\ DefaultCall.keys = {"company"}
    BY DEF DefaultCall, SaveShape
  <2> QED BY <2>1, <2>2 DEF ProfileCall
<1> HIDE DEF q
<1>4. /\ DOMAIN ui' = ProfileShape /\ ui'.user = ui.user /\ ui'.meta = ui.meta
      /\ ui'.stored = ui.stored /\ ui'.undone = ui.undone
      /\ ui'.initial = ui.initial /\ ui'.honest = ui.honest
  BY <1>1 DEF ProfileInv, ProfileShape
<1>5. SavesSent' = SavesSent /\ \A part \in Parts : Carried(part)' = Carried(part)
  BY <1>2, <1>3 DEF SavesSent, Carried, Parts
<1>6. Honest => Honest'
  <2>1. \A r \in SavesSent : r.call.what \in Parts
    BY DEF SavesSent, ProfileInv, ProfileCall
  <2>2. \A part \in Parts : ui'[part] = ui[part]
    BY <1>4 DEF Parts
  <2> QED BY <1>2, <1>4, <1>5, <2>1, <2>2 DEF Honest, ShownIsKept, SavedIsKept
<1> QED BY <1>2, <1>3, <1>4, <1>6 DEF ProfileInv

(* Answers.                                                                *)
LEMMA SavedHonest ==
  ASSUME ProfileInv, NEW r \in net, Saved(r) PROVE ProfileInv'
<1> DEFINE what == r.call.what
           notice == IF save_finished(r) THEN "User updated!" ELSE ui.notice
           i == [ui.initial EXCEPT ![what] = ui[what]]
<1>1. UNCHANGED <<page, srv>> /\ net' = net \ {r} /\ what \in Parts /\ r.call.keys = {}
  BY DEF Saved, Settle, ProfileInv, ProfileCall, SavesSent
<1>2. ui' = [ui EXCEPT !.initial = i, !.notice = notice]
  BY Zenon DEF Saved
<1> HIDE DEF notice
<1>3. /\ DOMAIN i = Parts /\ i[what] = ui[what]
      /\ \A part \in Parts : part # what => i[part] = ui.initial[part]
  BY <1>1 DEF ProfileInv
<1> HIDE DEF i
<1>4. /\ DOMAIN ui' = ProfileShape /\ ui'.user = ui.user /\ ui'.meta = ui.meta
      /\ ui'.stored = ui.stored /\ ui'.undone = ui.undone
      /\ ui'.initial = i /\ ui'.honest = ui.honest
  BY <1>2 DEF ProfileInv, ProfileShape
<1>5. ui.honest /\ ~ui.undone => Honest'
  <2> SUFFICES ASSUME ui.honest, ~ui.undone PROVE Honest'
    OBVIOUS
  <2>1. \A part \in Parts : ui'[part] = ui[part]
    BY <1>4 DEF Parts
  <2>2. ShownIsKept(what)
    <3>1. r \in Carried(what)
      BY <1>1 DEF Carried
    <3> QED BY <1>1, <3>1 DEF ProfileInv, Honest
  <2>3. \A part \in Parts : part # what => Carried(part)' = Carried(part)
    BY <1>1 DEF Carried
  <2>4. ASSUME NEW part \in Parts
        PROVE  /\ (Carried(part) # {} => ShownIsKept(part))'
               /\ (Carried(part) = {} => SavedIsKept(part))'
    <3>1. CASE part = what
      BY <1>1, <1>3, <1>4, <2>1, <2>2, <3>1 DEF ShownIsKept, SavedIsKept
    <3>2. CASE part # what
      BY <1>1, <1>3, <1>4, <2>1, <2>3, <3>2
         DEF ShownIsKept, SavedIsKept, ProfileInv, Honest
    <3> QED BY <3>1, <3>2
  <2>5. \A q \in SavesSent' : q \in SavesSent /\ q.call.what \in Parts
    BY <1>1 DEF SavesSent, ProfileInv, ProfileCall
  <2>6. \A q \in SavesSent' : q.call.value[Main(q.call.what)] = ui'[q.call.what][Main(q.call.what)]
    BY <2>1, <2>5 DEF ProfileInv, Honest
  <2> QED BY <2>4, <2>6 DEF Honest
<1>6. DOMAIN i.user = UserShape /\ DOMAIN i.meta = MetaShape
  BY <1>1, <1>3 DEF Parts, ProfileInv
<1> QED BY <1>1, <1>3, <1>4, <1>5, <1>6 DEF ProfileInv

LEMMA FailedHonest ==
  ASSUME ProfileInv, NEW r \in net, failed_save(r) PROVE ProfileInv'
<1> DEFINE failed == ui.failed \cup {r.call.batch}
<1>1. UNCHANGED <<page, srv>> /\ net' \subseteq net
  BY DEF failed_save, Settle
<1>2. ui' = [[ui EXCEPT !.user = ui.initial.user, !.meta = ui.initial.meta]
               EXCEPT !.honest = FALSE, !.failed = failed, !.notice = "User not updated"]
  BY DEF failed_save, WentBack, ProfileInv, ProfileShape
<1> HIDE DEF failed
<1>3. /\ DOMAIN ui' = ProfileShape
      /\ DOMAIN ui'.user = UserShape /\ DOMAIN ui'.meta = MetaShape
      /\ ui'.stored = ui.stored /\ ui'.undone = ui.undone
      /\ ui'.initial = ui.initial /\ ui'.honest = FALSE
  BY <1>2 DEF ProfileInv, ProfileShape
<1> QED BY <1>1, <1>3 DEF ProfileInv

LEMMA DefaultedHonest ==
  ASSUME ProfileInv, NEW r \in net, Defaulted(r) \/ failed_default(r) PROVE ProfileInv'
<1> DEFINE meta == [ui.stored EXCEPT !.company = r.call.value.company]
           u == ui.undone \/ ui.meta.address # ui.stored.address
<1>1. UNCHANGED <<page, srv>> /\ net' = net \ {r} /\ r.call.what = "default"
  BY DEF Defaulted, failed_default, Settle, SavesSent
<1>2. \/ ui' = [ui EXCEPT !.switcher = "shown"]
      \/ ui' = [ui EXCEPT !.stored = meta, !.meta = meta, !.switcher = "shown", !.undone = u]
  BY Zenon DEF Defaulted, failed_default
<1>3. DOMAIN meta = MetaShape /\ meta.address = ui.stored.address /\ u \in BOOLEAN
  BY DEF ProfileInv, MetaShape
<1>4. ~u => ~ui.undone /\ ui.meta.address = ui.stored.address
  OBVIOUS
<1> HIDE DEF meta, u
<1>5. /\ DOMAIN ui' = ProfileShape /\ ui'.user = ui.user
      /\ DOMAIN ui'.meta = MetaShape /\ DOMAIN ui'.stored = MetaShape
      /\ ui'.initial = ui.initial /\ ui'.honest = ui.honest /\ ui'.undone \in BOOLEAN
      /\ ~ui'.undone => ~ui.undone /\ ui'.meta.address = ui.meta.address
  BY <1>2, <1>3, <1>4 DEF ProfileInv, ProfileShape
<1>6. SavesSent' = SavesSent /\ \A part \in Parts : Carried(part)' = Carried(part)
  BY <1>1 DEF SavesSent, Carried, Parts
<1>7. Honest /\ ~ui'.undone => Honest'
  <2> SUFFICES ASSUME Honest, ~ui'.undone PROVE Honest'
    OBVIOUS
  <2>1. \A s \in SavesSent : s.call.what \in Parts
    BY DEF SavesSent, ProfileInv, ProfileCall
  <2>2. \A part \in Parts : ui'[part][Main(part)] = ui[part][Main(part)]
    BY <1>5 DEF Parts, Main
  <2> QED BY <1>1, <1>5, <1>6, <2>1, <2>2 DEF Honest, ShownIsKept, SavedIsKept
<1> QED BY <1>1, <1>5, <1>7 DEF ProfileInv

(* The server keeps a key.                                                 *)
LEMMA ServedHonest ==
  ASSUME ProfileInv, NEW r \in net, ProfileServed(r) PROVE ProfileInv'
<1> DEFINE what == r.call.what
           part == IF what = "default" THEN "meta" ELSE what
<1>1. PICK k \in r.call.keys :
        /\ srv' = [srv EXCEPT ![part][k] = r.call.value[k]]
        /\ net' = (net \ {r}) \cup
                    {[r EXCEPT !.call.keys = @ \ {k}, !.served = r.call.keys = {k}]}
        /\ UNCHANGED <<page, ui>>
  BY DEF ProfileServed
<1> DEFINE call == [r.call EXCEPT !.keys = @ \ {k}]
           done == r.call.keys = {k}
           q == [r EXCEPT !.call = call, !.served = done]
           kept == [srv[part] EXCEPT ![k] = r.call.value[k]]
<1>2. ProfileCall(r) /\ part \in Parts /\ (what # "default" => part = what)
  BY DEF ProfileInv, ProfileCall, Parts
<1>3. net' = (net \ {r}) \cup {q} /\ srv' = [srv EXCEPT ![part] = kept]
  BY <1>1, <1>2 DEF ProfileCall, RequestShape
<1>4. /\ call.what = what /\ call.value = r.call.value /\ call.keys = r.call.keys \ {k}
      /\ DOMAIN call = SaveShape
  BY <1>2 DEF ProfileCall, SaveShape
<1>5. DOMAIN q = RequestShape /\ q.call = call /\ q.served = done
  BY <1>2 DEF ProfileCall, RequestShape
<1>6. ProfileCall(q) /\ q.call.what = what /\ q.call.value = r.call.value
      /\ q.call.keys = r.call.keys \ {k}
  BY <1>2, <1>4, <1>5 DEF ProfileCall
<1>7. /\ DOMAIN kept = DOMAIN srv[part]
      /\ \A m \in DOMAIN kept : kept[m] = IF m = k THEN r.call.value[k] ELSE srv[part][m]
  OBVIOUS
<1> HIDE DEF q, call, done, kept
<1>8. /\ DOMAIN srv' = Parts /\ DOMAIN srv'.user = UserShape /\ DOMAIN srv'.meta = MetaShape
      /\ \A p \in Parts : srv'[p] = IF p = part THEN kept ELSE srv[p]
  <2>1. DOMAIN srv' = Parts /\ \A p \in Parts : srv'[p] = IF p = part THEN kept ELSE srv[p]
    BY <1>2, <1>3 DEF ProfileInv
  <2> QED BY <1>2, <1>7, <2>1 DEF ProfileInv, Parts
<1>9. Main(part) \in DOMAIN kept
  BY <1>2, <1>7 DEF ProfileInv, Parts, Main, UserShape, MetaShape
<1>10. ui.honest /\ ~ui.undone => Honest'
  <2> SUFFICES ASSUME ui.honest, ~ui.undone PROVE Honest'
    OBVIOUS
  <2>1. ASSUME NEW p \in SavesSent'
        PROVE  p.call.value[Main(p.call.what)] = ui'[p.call.what][Main(p.call.what)]
    <3>1. PICK o \in net : o.call.what = p.call.what /\ o.call.value = p.call.value
      BY <1>3, <1>6, <2>1 DEF SavesSent
    <3> QED BY <1>1, <2>1, <3>1 DEF SavesSent, ProfileInv, Honest
  <2>2. CASE what # "default" /\ k = Main(part)
    <3>1. srv'[part][Main(part)] = ui'[part][Main(part)]
      <4>1. r.call.value[Main(what)] = ui[what][Main(what)]
        BY <2>2 DEF ProfileInv, Honest, SavesSent
      <4> QED BY <1>1, <1>2, <1>7, <1>8, <1>9, <2>2, <4>1
    <3>2. q \in Carried(part)'
      BY <1>2, <1>3, <1>6, <2>2 DEF Carried
    <3>3. ASSUME NEW p \in Parts, p # part
          PROVE  Carried(p)' = Carried(p) /\ srv'[p] = srv[p]
      BY <1>2, <1>3, <1>6, <1>8, <2>2, <3>3 DEF Carried
    <3> QED BY <1>1, <2>1, <3>1, <3>2, <3>3 DEF Honest, ShownIsKept, SavedIsKept, ProfileInv
  <2>3. CASE ~(what # "default" /\ k = Main(part))
    <3>1. k # Main(part)
      <4>1. CASE what = "default"
        BY <1>1, <1>2, <4>1 DEF ProfileCall, Main
      <4> QED BY <2>3, <4>1
    <3>2. \A p \in Parts : srv'[p][Main(p)] = srv[p][Main(p)]
      BY <1>7, <1>8, <1>9, <3>1
    <3>3. ASSUME NEW p \in Parts PROVE Carried(p)' = {} <=> Carried(p) = {}
      <4>1. q \in Carried(p)' <=> r \in Carried(p)
        <5>1. p = what => k # Main(p)
          BY <1>2, <3>1, <3>3 DEF Parts
        <5> QED BY <1>3, <1>6, <5>1 DEF Carried
      <4>2. \A o \in net \ {r} : o \in Carried(p)' <=> o \in Carried(p)
        BY <1>3 DEF Carried
      <4> QED BY <1>3, <4>1, <4>2 DEF Carried
    <3> QED BY <1>1, <2>1, <3>2, <3>3 DEF Honest, ShownIsKept, SavedIsKept, ProfileInv
  <2> QED BY <2>2, <2>3
<1> QED BY <1>1, <1>3, <1>6, <1>8, <1>10 DEF ProfileInv

LEMMA ProfileSteps == ProfileInv /\ ProfileNext => ProfileInv'
BY EditsHonest, SaveHonest, ResetHonest, ReopensHonest, ServedHonest, SavedHonest, FailedHonest,
   DefaultHonest, DefaultedHonest
   DEF ProfileNext

(* The pages of an account.                                                *)
AccountSpec == (FormsInit \/ ProfileInit) /\ [][FormsNext \/ ProfileNext]_webVars
AccountInv == FormsInv \/ ProfileInv

LEMMA AccountSteps == AccountInv /\ [FormsNext \/ ProfileNext]_webVars => AccountInv'
<1> SUFFICES ASSUME AccountInv, [FormsNext \/ ProfileNext]_webVars PROVE AccountInv'
  OBVIOUS
<1>1. CASE FormsNext
  <2>1. page = "Account"
    BY <1>1 DEF FormsNext, OpensForm, Types, TogglesReverify, sign_up, confirm_email,
         resend_email, forgot_password, reset_password, Submits, FormServed, FormAnswered, OnForm
  <2> QED BY <1>1, <2>1, FormsSteps DEF AccountInv, ProfileInv
<1>2. CASE ProfileNext
  <2>1. page = "Profile"
    BY <1>2 DEF ProfileNext, Edits, save, reset, Reopens, ProfileServed, Saved, failed_save,
         companies_listed, make_default, Defaulted, failed_default, OnProfile
  <2> QED BY <1>2, <2>1, ProfileSteps DEF AccountInv, FormsInv
<1>3. CASE UNCHANGED webVars
  <2>1. CASE FormsInv
    BY <1>3, <2>1 DEF webVars, AccountInv, FormsInv
  <2>2. CASE ProfileInv
    BY <1>3, <2>2 DEF webVars, AccountInv, ProfileInv, Honest, Carried, SavesSent, ShownIsKept,
         SavedIsKept
  <2> QED BY <2>1, <2>2 DEF AccountInv
<1> QED BY <1>1, <1>2, <1>3

LEMMA AccountInvAgrees == AccountInv => AccountAgrees
<1> SUFFICES ASSUME AccountInv PROVE AccountAgrees
  OBVIOUS
<1>1. CASE FormsInv
  BY <1>1 DEF FormsInv, SoundServer, SoundAddress, CameBack, AccountAgrees, VerifiedByMail,
       ProfileAgrees
<1>2. CASE ProfileInv
  <2>1. ui.honest /\ ~ui.undone /\ SavesSent = {} => SavedIsKept("user") /\ SavedIsKept("meta")
    BY <1>2, QuietlyKept DEF Parts
  <2> QED BY <1>2, <2>1 DEF ProfileInv, SavedIsKept, Main, AccountAgrees, VerifiedByMail,
         ProfileAgrees
<1> QED BY <1>1, <1>2 DEF AccountInv

(* The pages of an account and the server agree on it: an address that has *)
(* to be verified is verified only by a code that was mailed to it         *)
(* (ConfirmEmail.jsx, PasswordReset.jsx, auth/controllers.py), and what    *)
(* the profile takes for saved is what the server keeps, as long as it was *)
(* used honestly and the switcher undid no address (UserProfile.jsx: save, *)
(* failed_save, reset; SwitchCompany.jsx: make_default).                   *)
THEOREM AccountAgreesHolds == AccountSpec => []AccountAgrees
<1>1. FormsInit \/ ProfileInit => AccountInv
  BY FormsStart, ProfileStarts DEF AccountInv
<1> QED BY <1>1, AccountSteps, AccountInvAgrees, PTL DEF AccountSpec

----------------------------------------------------------------------------
(* A dashboard.  What a filter keeps is counted, and the least of a set of *)
(* naturals found: the order of the naturals is well founded.              *)
LEMMA LeastOf ==
  ASSUME NEW R, IsWellFoundedOn(R, Nat), \A x, y \in Nat : y < x => <<y, x>> \in R,
         NEW T, \A t \in T : t \in Nat, T # {}
  PROVE  \E m \in T : \A n \in T : m <= n
<1>1. T \subseteq Nat
  BY Zenon
<1>2. PICK m \in T : \A y \in T : ~(<<y, m>> \in R)
  BY <1>1, WFMin, Zenon
<1>3. ASSUME NEW n \in T PROVE m <= n
  <2>1. m \in Nat /\ n \in Nat
    BY Zenon
  <2>2. ~(n < m)
    BY <1>2, <2>1, Zenon
  <2> QED BY <2>1, <2>2
<1> QED BY <1>3, Zenon

LEMMA LeastNat ==
  ASSUME NEW T, \A t \in T : t \in Nat, T # {}
  PROVE  \E m \in T : \A n \in T : m <= n
<1>1. \A x, y \in Nat : y < x => <<y, x>> \in OpToRel(<, Nat)
  BY DEF OpToRel
<1> QED BY <1>1, LeastOf, NatLessThanWellFounded, Zenon

(* How many members of K are at most n.                                    *)
Rank(K, n) == Cardinality({k \in K : k <= n})

LEMMA Counted ==
  ASSUME NEW N \in Nat, NEW K, \A k \in K : k \in 1..N, NEW n \in Nat
  PROVE  /\ IsFiniteSet(K) /\ Cardinality(K) \in Nat
         /\ IsFiniteSet({k \in K : k <= n}) /\ Rank(K, n) \in Nat
<1>1. K \subseteq 1..N
  BY Zenon
<1>2. IsFiniteSet(1..N)
  BY FS_Interval
<1>3. IsFiniteSet(K)
  BY <1>1, <1>2, FS_Subset, Zenon
<1>4. {k \in K : k <= n} \subseteq K
  BY Zenon
<1>5. IsFiniteSet({k \in K : k <= n})
  BY <1>3, <1>4, FS_Subset, Zenon
<1> QED BY <1>3, <1>5, FS_CardinalityType, Zenon DEF Rank

LEMMA RankStep ==
  ASSUME NEW N \in Nat, NEW K, \A k \in K : k \in 1..N, NEW n \in Nat
  PROVE  /\ Rank(K, 0) = 0
         /\ n + 1 \in K => Rank(K, n + 1) = Rank(K, n) + 1
         /\ n + 1 \notin K => Rank(K, n + 1) = Rank(K, n)
<1>1. {k \in K : k <= 0} = {}
  OBVIOUS
<1>2. n + 1 \notin K => {k \in K : k <= n + 1} = {k \in K : k <= n}
  OBVIOUS
<1>3. n + 1 \in K => {k \in K : k <= n + 1} = {k \in K : k <= n} \cup {n + 1}
  OBVIOUS
<1>4. n + 1 \notin {k \in K : k <= n}
  OBVIOUS
<1>5. Cardinality({k \in K : k <= n} \cup {n + 1}) = Cardinality({k \in K : k <= n}) + 1
  BY <1>4, Counted, FS_AddElement, Zenon
<1> QED BY <1>1, <1>2, <1>3, <1>5, FS_EmptySet DEF Rank

LEMMA RankAt ==
  ASSUME NEW N \in Nat, NEW K, \A k \in K : k \in 1..N, NEW j \in 1..Cardinality(K)
  PROVE  \E k \in K : Rank(K, k) = j
<1> DEFINE T == {n \in Nat : Rank(K, n) >= j}
<1>1. Cardinality(K) \in Nat /\ \A n \in Nat : Rank(K, n) \in Nat
  BY Counted
<1>2. {k \in K : k <= N} = K
  OBVIOUS
<1>3. N \in T
  BY <1>1, <1>2 DEF Rank
<1>4. \E m \in T : \A n \in T : m <= n
  BY <1>3, LeastNat
<1>5. PICK m \in Nat : Rank(K, m) >= j /\ \A n \in Nat : Rank(K, n) >= j => m <= n
  BY <1>4
<1>6. m # 0
  BY <1>5, RankStep
<1>7. m - 1 \in Nat /\ (m - 1) + 1 = m
  BY <1>6
<1>8. Rank(K, m - 1) \in Nat /\ Rank(K, m - 1) < j
  BY <1>1, <1>5, <1>7
<1>9. m \in K /\ Rank(K, m) = Rank(K, m - 1) + 1
  BY <1>5, <1>7, <1>8, RankStep
<1> QED BY <1>1, <1>5, <1>8, <1>9

(* Sequences of widgets.                                                   *)
PlacedShape == {"id", "type", "sensor", "filled"}
AreWidgets(ws) ==
  /\ ws \in Seq(ToSet(ws))
  /\ \A k \in DOMAIN ws : DOMAIN ws[k] = PlacedShape

(* Members of a sequence.                                                  *)
LEMMA SeqFacts ==
  ASSUME NEW S, NEW s \in Seq(S)
  PROVE  /\ Len(s) \in Nat /\ DOMAIN s = 1..Len(s) /\ \A k \in DOMAIN s : s[k] \in S
         /\ s \in Seq(ToSet(s))
BY DEF ToSet

LEMMA MadeSeq ==
  ASSUME NEW n \in Nat, NEW s, DOMAIN s = 1..n, s = [k \in DOMAIN s |-> s[k]]
  PROVE  s \in Seq(ToSet(s)) /\ Len(s) = n
<1>1. s \in [1..n -> ToSet(s)]
  BY DEF ToSet
<1> QED BY <1>1, SeqDef

LEMMA AppendFacts ==
  ASSUME NEW s, s \in Seq(ToSet(s)), NEW e
  PROVE  /\ Append(s, e) \in Seq(ToSet(Append(s, e)))
         /\ DOMAIN s = 1..Len(s) /\ Len(s) \in Nat
         /\ DOMAIN Append(s, e) = 1..(Len(s) + 1)
         /\ \A k \in DOMAIN s : Append(s, e)[k] = s[k]
         /\ Append(s, e)[Len(s) + 1] = e
<1> DEFINE S == ToSet(s) \cup {e}
<1>1. s \in Seq(S) /\ e \in S
  BY SeqMonotonic DEF ToSet
<1> HIDE DEF S
<1>2. Append(s, e) \in Seq(S) /\ Len(s) \in Nat /\ DOMAIN s = 1..Len(s)
  BY <1>1
<1>3. /\ DOMAIN Append(s, e) = 1..(Len(s) + 1)
      /\ \A k \in DOMAIN s : Append(s, e)[k] = s[k]
      /\ Append(s, e)[Len(s) + 1] = e
  BY <1>1
<1> QED BY <1>2, <1>3, SeqFacts

LEMMA AppendWidget ==
  ASSUME NEW ws, AreWidgets(ws), NEW w, DOMAIN w = PlacedShape
  PROVE  /\ AreWidgets(Append(ws, w))
         /\ \A k \in DOMAIN Append(ws, w) : Append(ws, w)[k] = w \/ k \in DOMAIN ws
BY AppendFacts DEF AreWidgets

LEMMA ReplaceWidget ==
  ASSUME NEW ws, AreWidgets(ws), NEW id, NEW w, DOMAIN w = PlacedShape
  PROVE  /\ AreWidgets(Replace(ws, id, w))
         /\ DOMAIN Replace(ws, id, w) = DOMAIN ws
         /\ \A k \in DOMAIN ws : Replace(ws, id, w)[k] = IF ws[k].id = id THEN w ELSE ws[k]
<1> DEFINE s == Replace(ws, id, w)
<1>1. Len(ws) \in Nat /\ DOMAIN ws = 1..Len(ws)
  BY SeqFacts DEF AreWidgets
<1>2. /\ DOMAIN s = DOMAIN ws /\ s = [k \in DOMAIN s |-> s[k]]
      /\ \A k \in DOMAIN ws : s[k] = IF ws[k].id = id THEN w ELSE ws[k]
  BY DEF Replace
<1> HIDE DEF s
<1>3. s \in Seq(ToSet(s))
  BY <1>1, <1>2, MadeSeq
<1> QED BY <1>2, <1>3 DEF AreWidgets, s

(* What filter keeps, place by place: the members of ws at the places of   *)
(* the others, which are as many as those it keeps.                        *)
Others(ws, id) == DOMAIN ws \ Indices(ws, id)
Place(ws, id, j) == CHOOSE k \in Others(ws, id) : Rank(Others(ws, id), k) = j

LEMMA WithoutWidget ==
  ASSUME NEW ws, AreWidgets(ws), NEW id
  PROVE  /\ AreWidgets(Without(ws, id))
         /\ DOMAIN Without(ws, id) = 1..Cardinality(Others(ws, id))
         /\ \A j \in DOMAIN Without(ws, id) :
              /\ Place(ws, id, j) \in DOMAIN ws
              /\ Without(ws, id)[j] = ws[Place(ws, id, j)]
<1> DEFINE s == Without(ws, id)
           K == Others(ws, id)
           n == Cardinality(K)
<1>1. Len(ws) \in Nat /\ DOMAIN ws = 1..Len(ws)
  BY SeqFacts DEF AreWidgets
<1>2. \A k \in K : k \in 1..Len(ws)
  BY <1>1 DEF Others
<1>3. /\ DOMAIN s = 1..n /\ s = [k \in DOMAIN s |-> s[k]]
      /\ \A j \in 1..n : s[j] = ws[Place(ws, id, j)]
  BY DEF Without, Others, Place, Rank
<1> HIDE DEF s
<1>4. \A j \in 1..n : Place(ws, id, j) \in K
  <2> TAKE j \in 1..n
  <2>1. \E k \in K : Rank(K, k) = j
    BY <1>1, <1>2, RankAt
  <2> QED BY <2>1 DEF Place
<1>5. n \in Nat
  BY <1>1, <1>2, Counted
<1>6. \A j \in 1..n : Place(ws, id, j) \in DOMAIN ws
  BY <1>4 DEF Others
<1> HIDE DEF n
<1>7. s \in Seq(ToSet(s))
  BY <1>3, <1>5, MadeSeq
<1> QED BY <1>3, <1>6, <1>7 DEF AreWidgets, s, n

(* Two sequences of widgets with the same ids at the same places.          *)
Aligned(ws, vs) == DOMAIN ws = DOMAIN vs /\ \A k \in DOMAIN ws : ws[k].id = vs[k].id

LEMMA AlignedAppend ==
  ASSUME NEW ws, AreWidgets(ws), NEW vs, AreWidgets(vs), Aligned(ws, vs), NEW w
  PROVE  Aligned(Append(ws, w), Append(vs, w))
<1>1. Len(ws) = Len(vs)
  BY AppendFacts DEF AreWidgets, Aligned
<1> QED BY <1>1, AppendFacts DEF AreWidgets, Aligned

LEMMA AlignedReplace ==
  ASSUME NEW ws, AreWidgets(ws), NEW vs, AreWidgets(vs), Aligned(ws, vs),
         NEW id, NEW w, DOMAIN w = PlacedShape, w.id = id
  PROVE  Aligned(Replace(ws, id, w), vs) /\ Aligned(ws, Replace(vs, id, w))
BY ReplaceWidget DEF Aligned

LEMMA AlignedWithout ==
  ASSUME NEW ws, AreWidgets(ws), NEW vs, AreWidgets(vs), Aligned(ws, vs), NEW id
  PROVE  Aligned(Without(ws, id), Without(vs, id))
<1>1. Others(ws, id) = Others(vs, id)
  BY DEF Aligned, Others, Indices
<1>2. \A j : Place(ws, id, j) = Place(vs, id, j)
  BY <1>1 DEF Place
<1> QED BY <1>1, <1>2, WithoutWidget DEF Aligned

(* The first widget with an id that some widget has.                       *)
LEMMA FirstWidget ==
  ASSUME NEW ws, AreWidgets(ws), NEW id, NEW k \in DOMAIN ws, ws[k].id = id
  PROVE  \E j \in DOMAIN ws : FirstOf(ws, id) = ws[j] /\ ws[j].id = id
<1> DEFINE I == Indices(ws, id)
<1>1. \A j \in I : j \in Nat
  BY SeqFacts DEF AreWidgets, Indices
<1>2. \E m \in I : \A n \in I : m <= n
  BY <1>1, LeastNat DEF Indices
<1>3. Min(I) \in I
  BY <1>2 DEF Min
<1> QED BY <1>3 DEF FirstOf, Indices

(* SetToSeq of what some members of a sequence hold: each once.            *)
Held(ws) == {w.sensor : w \in {v \in ToSet(ws) : v.sensor # NoSensor}}
Once(reg) == reg \in Seq(ToSet(reg)) /\ \A i, j \in DOMAIN reg : reg[i] = reg[j] => i = j

LEMMA HeldFinite ==
  ASSUME NEW ws, AreWidgets(ws)
  PROVE  IsFiniteSet(Held(ws))
<1> DEFINE K == {k \in DOMAIN ws : ws[k].sensor # NoSensor}
           f == [k \in K |-> ws[k].sensor]
<1>1. Len(ws) \in Nat /\ DOMAIN ws = 1..Len(ws)
  BY SeqFacts DEF AreWidgets
<1>2. IsFiniteSet(DOMAIN ws) /\ K \subseteq DOMAIN ws
  BY <1>1, FS_Interval
<1>3. IsFiniteSet(K)
  BY <1>2, FS_Subset, Zenon
<1>4. \A s \in Held(ws) : \E k \in K : f[k] = s
  BY DEF Held, ToSet
<1>5. \A k \in K : f[k] \in Held(ws)
  BY DEF Held, ToSet
<1>6. f \in [K -> Held(ws)]
  BY <1>5
<1>7. f \in Surjection(K, Held(ws))
  BY <1>4, <1>6 DEF Surjection
<1> QED BY <1>3, <1>7, FS_Surjection, Zenon

LEMMA SetToSeqOnce ==
  ASSUME NEW S, IsFiniteSet(S)
  PROVE  Once(SetToSeq(S)) /\ ToSet(SetToSeq(S)) = S
<1> DEFINE n == Cardinality(S)
           s == SetToSeq(S)
<1>1. n \in Nat /\ ExistsBijection(1..n, S)
  BY FS_CardinalityType
<1>2. PICK f \in Bijection(1..n, S) : TRUE
  BY <1>1 DEF ExistsBijection
<1>3. f \in [1..n -> S] /\ IsInjective(f)
  BY <1>2 DEF Bijection, Injection, IsInjective
<1>4. s \in [1..n -> S] /\ IsInjective(s)
  BY <1>3 DEF SetToSeq
<1> HIDE DEF s
<1>5. s \in Injection(1..n, S)
  BY <1>4 DEF Injection, IsInjective
<1>6. IsFiniteSet(1..n) /\ Cardinality(1..n) = n
  BY <1>1, FS_Interval
<1>7. s \in Surjection(1..n, S)
  BY <1>5, <1>6, FS_Injection
<1>8. ToSet(s) = S
  BY <1>4, <1>7 DEF Surjection, ToSet
<1>9. s \in Seq(S)
  BY <1>1, <1>4, SeqDef
<1> HIDE DEF n
<1> QED BY <1>4, <1>8, <1>9 DEF Once, IsInjective, s

(* What a registry without repetition holds is found once.                 *)
Knows(reg, s) == \E k \in DOMAIN reg : reg[k] = s

LEMMA FoundOnce ==
  ASSUME NEW reg, Once(reg), NEW s, Knows(reg, s)
  PROVE  Cardinality(Registered(reg, s)) = 1
<1>1. PICK k \in DOMAIN reg : reg[k] = s
  BY DEF Knows
<1>2. Registered(reg, s) = {k}
  BY <1>1 DEF Registered, Once
<1> QED BY <1>2, FS_Singleton

LEMMA AppendOnce ==
  ASSUME NEW reg, Once(reg), NEW s, Registered(reg, s) = {}
  PROVE  /\ Once(Append(reg, s)) /\ Knows(Append(reg, s), s)
         /\ \A x : Knows(reg, x) => Knows(Append(reg, s), x)
<1> DEFINE new == Append(reg, s)
<1>1. /\ new \in Seq(ToSet(new)) /\ Len(reg) \in Nat /\ DOMAIN reg = 1..Len(reg)
      /\ DOMAIN new = 1..(Len(reg) + 1)
      /\ \A k \in DOMAIN reg : new[k] = reg[k]
      /\ new[Len(reg) + 1] = s
  BY AppendFacts DEF Once
<1>2. \A k \in DOMAIN reg : reg[k] # s
  BY DEF Registered
<1> HIDE DEF new
<1>3. \A i, j \in DOMAIN new : new[i] = new[j] => i = j
  BY <1>1, <1>2 DEF Once
<1> QED BY <1>1, <1>3 DEF Once, Knows, new

(* The invariant of the dashboard.                                         *)
DashSpec == DashInit /\ [][DashNext]_webVars

DashShape ==
  {"mounted", "stage", "fetched", "error", "loading", "edit", "widgets", "backup",
   "configuring", "step", "found", "sensors", "layouts", "live", "putBack", "timers",
   "edits"}

SrvShape ==
  {"widgets", "given", "layouts", "sensorPage", "pageSensor", "rightType", "readOnly"}

DashCall(r) ==
  /\ DOMAIN r = RequestShape
  /\ DOMAIN r.call = {"what", "id", "widget", "layouts", "widgets", "backup"}
  /\ AreWidgets(r.call.widgets) /\ AreWidgets(r.call.backup)
  /\ Aligned(r.call.widgets, r.call.backup)
  /\ r.call.what = "saveWidget" =>
       DOMAIN r.call.widget = PlacedShape /\ r.call.widget.id = r.call.id

WellShaped ==
  /\ page = "CustomDashboard" /\ DOMAIN ui = DashShape /\ DOMAIN srv = SrvShape
  /\ DOMAIN ui.fetched = {"widgets", "layouts"} /\ ui.stage \in Nat
  /\ AreWidgets(ui.widgets) /\ AreWidgets(ui.backup)
  /\ AreWidgets(ui.fetched.widgets) /\ AreWidgets(srv.widgets)
  /\ \A r \in net : DashCall(r)

(* Until the load ends there is no widget to configure or to remove.       *)
NothingPlaced ==
  On /\ ~Loaded =>
    /\ ui.widgets = << >> /\ ui.backup = << >> /\ ui.layouts = Unmade
    /\ \A r \in net :
         /\ r.call.what \notin {"saveWidget", "removeWidget"}
         /\ r.call.widgets = << >> /\ r.call.backup = << >>

Covers(reg, w) == w.sensor # NoSensor => Knows(reg, w.sensor)
CoversAll(reg, ws) == \A k \in DOMAIN ws : Covers(reg, ws[k])

(* The registry knows the sensors of what a step may show again: the       *)
(* widgets as they were saved, as they are being saved, and the copies an  *)
(* add holds.                                                              *)
RegistryComplete ==
  ~srv.sensorPage =>
    /\ Once(ui.sensors)
    /\ CoversAll(ui.sensors, ui.widgets) /\ CoversAll(ui.sensors, ui.backup)
    /\ On => \A r \in InFlight("saveWidget") : Covers(ui.sensors, r.call.widget)
    /\ On => \A r \in net :
         CoversAll(ui.sensors, r.call.widgets) /\ CoversAll(ui.sensors, r.call.backup)

DashInv ==
  /\ WellShaped /\ NothingPlaced /\ Aligned(ui.widgets, ui.backup)
  /\ RegistryComplete /\ LiveInViewMode

LEMMA NoWidgets == AreWidgets(<< >>) /\ DOMAIN << >> = {} /\ ToSet(<< >>) = {}
BY DEF AreWidgets, ToSet

LEMMA SensorsNone == Once(<< >>)
BY DEF Once, ToSet

LEMMA Steps ==
  /\ Len(LoadSteps) = IF srv.sensorPage THEN 6 ELSE 4
  /\ DOMAIN LoadSteps = 1..Len(LoadSteps)
<1>1. CASE srv.sensorPage
  BY <1>1 DEF LoadSteps
<1>2. CASE ~srv.sensorPage
  BY <1>2 DEF LoadSteps
<1> QED BY <1>1, <1>2

LEMMA OneWidget ==
  ASSUME NEW w, DOMAIN w = PlacedShape PROVE AreWidgets(<<w>>)
BY DEF AreWidgets, ToSet

LEMMA NewPage ==
  /\ DOMAIN DashUi = DashShape /\ DOMAIN DashUi.fetched = {"widgets", "layouts"}
  /\ DashUi.fetched.widgets = << >> /\ DashUi.widgets = << >> /\ DashUi.backup = << >>
  /\ DashUi.sensors = << >> /\ DashUi.stage = 1 /\ DashUi.layouts = Unmade
  /\ DashUi.mounted = TRUE /\ DashUi.error = FALSE
BY DEF DashUi, DashShape

LEMMA DashStarts == DashInit => DashInv
<1> SUFFICES ASSUME DashInit PROVE DashInv
  OBVIOUS
<1>1. page = "CustomDashboard" /\ ui = DashUi /\ net = {} /\ srv \in DashServers
  BY DEF DashInit
<1>2. DOMAIN srv = SrvShape /\ srv.widgets \in WidgetsKept
  BY <1>1 DEF DashServers, SrvShape
<1>3. AreWidgets(srv.widgets)
  <2>1. CASE srv.widgets = << >>
    BY <2>1, NoWidgets
  <2>2. ASSUME NEW t \in Kinds, NEW s \in {PageSensor, NoSensor},
               srv.widgets = <<Configured(t, s)>>
        PROVE AreWidgets(srv.widgets)
    <3>1. DOMAIN Configured(t, s) = PlacedShape
      BY DEF Configured, Widget, PlacedShape
    <3> QED BY <2>2, <3>1, OneWidget
  <2> QED BY <1>2, <2>1, <2>2 DEF WidgetsKept
<1>4. WellShaped
  <2>1. DashUi.stage \in Nat
    BY NewPage
  <2> QED BY <1>1, <1>2, <1>3, <2>1, NewPage, NoWidgets, Zenon DEF WellShaped
<1>5. NothingPlaced /\ Aligned(ui.widgets, ui.backup) /\ RegistryComplete
  BY <1>1, NewPage, NoWidgets, SensorsNone
     DEF NothingPlaced, Aligned, RegistryComplete, CoversAll, InFlight
<1>6. LiveInViewMode
  BY <1>1, NewPage, NoWidgets DEF LiveInViewMode
<1> QED BY <1>4, <1>5, <1>6 DEF DashInv

(* The page is replaced, or left.                                          *)
Gone ==
  /\ DOMAIN ui = DashShape /\ DOMAIN ui.fetched = {"widgets", "layouts"}
  /\ ui.fetched.widgets = << >> /\ ui.widgets = << >> /\ ui.backup = << >>
  /\ ui.sensors = << >> /\ ui.stage \in Nat /\ (ui.error \/ ~ui.mounted)

LEMMA GoneIs ==
  ASSUME ui' = ErrorPage \/ ui' = [DashUi EXCEPT !.mounted = FALSE] PROVE Gone'
<1>1. CASE ui' = ErrorPage
  BY <1>1, NewPage DEF ErrorPage, Gone, DashShape
<1>2. CASE ui' = [DashUi EXCEPT !.mounted = FALSE]
  BY <1>2, NewPage DEF Gone, DashShape
<1> QED BY <1>1, <1>2

LEMMA GoneKeeps ==
  ASSUME DashInv, page' = page, srv' = srv, net' \subseteq net, Gone' PROVE DashInv'
<1>1. ~On'
  BY DEF Gone, On
<1>2. WellShaped'
  BY NoWidgets DEF DashInv, WellShaped, Gone
<1>3. NothingPlaced' /\ Aligned(ui.widgets, ui.backup)' /\ RegistryComplete' /\ LiveInViewMode'
  BY <1>1, NoWidgets, SensorsNone
     DEF NothingPlaced, Aligned, RegistryComplete, CoversAll, Gone, LiveInViewMode, On
<1> QED BY <1>2, <1>3 DEF DashInv

(* Steps that keep the widgets, the registry and the clients.              *)
SamePage ==
  /\ page' = page /\ DOMAIN ui' = DashShape
  /\ ui'.mounted = ui.mounted /\ ui'.error = ui.error /\ ui'.stage = ui.stage
  /\ ui'.fetched = ui.fetched /\ (ui'.layouts = ui.layouts \/ ui.layouts # Unmade)
  /\ ui'.widgets = ui.widgets /\ ui'.backup = ui.backup
  /\ ui'.sensors = ui.sensors /\ ui'.live = ui.live /\ ui'.edit = ui.edit
  /\ ui'.putBack = ui.putBack

LEMMA SameKeeps ==
  ASSUME DashInv, SamePage, srv' = srv, net' = net PROVE DashInv'
BY DEF DashInv, SamePage, WellShaped, NothingPlaced, Aligned, RegistryComplete,
       LiveInViewMode, InFlight, On, Loaded, LoadSteps

LEMMA LocalKeeps ==
  ASSUME DashInv,
         \/ DialogNext \/ DialogBack \/ loadDataSources \/ onLayoutChange \/ re_render
         \/ TimerEnds \/ \E id \in WidgetIds : setToConfigure(id)
  PROVE  DashInv'
<1>1. page' = page /\ srv' = srv /\ net' = net
  BY DEF DialogNext, DialogBack, loadDataSources, onLayoutChange, re_render, TimerEnds,
         setToConfigure
<1>2. DOMAIN ui = DashShape
  BY DEF DashInv, WellShaped
<1>3. SamePage
  <2> USE <1>2 DEF SamePage, DashShape
  <2>1. CASE DialogNext
    BY <2>1 DEF DialogNext
  <2>2. CASE DialogBack
    BY <2>2 DEF DialogBack
  <2>3. CASE loadDataSources
    BY <2>3 DEF loadDataSources
  <2>4. CASE onLayoutChange
    <3>1. PICK lg : ui' = [ui EXCEPT !.layouts.lg = lg]
      BY <2>4, Zenon DEF onLayoutChange
    <3>2. ui' = [ui EXCEPT !.layouts = [ui.layouts EXCEPT !.lg = lg]]
      BY <3>1
    <3> QED BY <2>4, <3>2 DEF onLayoutChange
  <2>5. CASE re_render
    BY <2>5 DEF re_render
  <2>6. CASE TimerEnds
    BY <2>6 DEF TimerEnds
  <2>7. CASE \E id \in WidgetIds : setToConfigure(id)
    BY <2>7 DEF setToConfigure
  <2> QED BY <2>1, <2>2, <2>3, <2>4, <2>5, <2>6, <2>7
<1> QED BY <1>1, <1>3, SameKeeps

LEMMA LeavingKeeps ==
  ASSUME DashInv, LoadFails \/ componentWillUnmount PROVE DashInv'
<1>1. /\ page' = page /\ srv' = srv /\ net' \subseteq net
      /\ ui' = ErrorPage \/ ui' = [DashUi EXCEPT !.mounted = FALSE]
  BY DEF LoadFails, componentWillUnmount
<1> QED BY <1>1, GoneIs, GoneKeeps

(* The load.                                                               *)
LEMMA LoadStepKeeps ==
  ASSUME DashInv, LoadStep PROVE DashInv'
<1> DEFINE asked == LoadSteps[ui.stage]
           widgets == IF asked = "widgets" THEN srv.widgets ELSE ui.fetched.widgets
           layouts == IF asked = "dashboard" THEN srv.layouts ELSE ui.fetched.layouts
           fetched == [ui.fetched EXCEPT !.widgets = widgets, !.layouts = layouts]
<1>1. /\ page' = page /\ srv' = srv /\ net' = net /\ On
      /\ ui.stage \in 1..(Len(LoadSteps) - 1)
      /\ DOMAIN ui = DashShape /\ DOMAIN ui.fetched = {"widgets", "layouts"}
      /\ AreWidgets(ui.fetched.widgets) /\ AreWidgets(srv.widgets) /\ ui.stage \in Nat
  BY DEF LoadStep, DashInv, WellShaped
<1>2. \/ ui' = [ui EXCEPT !.stage = 0]
      \/ ui' = [ui EXCEPT !.stage = @ + 1, !.fetched.widgets = IF asked = "widgets" THEN srv.widgets ELSE @,
                   !.fetched.layouts = IF asked = "dashboard" THEN srv.layouts ELSE @]
  BY Zenon DEF LoadStep
<1>3. \/ ui' = [ui EXCEPT !.stage = 0]
      \/ ui' = [ui EXCEPT !.stage = ui.stage + 1, !.fetched = fetched]
  BY <1>1, <1>2
<1>4. DOMAIN fetched = {"widgets", "layouts"} /\ AreWidgets(fetched.widgets)
  BY <1>1
<1> HIDE DEF fetched
<1>5. /\ DOMAIN ui' = DashShape /\ ui'.stage \in Nat /\ ui'.stage <= Len(LoadSteps)
      /\ DOMAIN ui'.fetched = {"widgets", "layouts"} /\ AreWidgets(ui'.fetched.widgets)
      /\ ui'.mounted = ui.mounted /\ ui'.error = ui.error /\ ui'.layouts = ui.layouts
      /\ ui'.widgets = ui.widgets /\ ui'.backup = ui.backup /\ ui'.sensors = ui.sensors
  <2>1. Len(LoadSteps) \in Nat
    BY Steps
  <2>2. CASE ui' = [ui EXCEPT !.stage = 0]
    BY <1>1, <2>1, <2>2 DEF DashShape
  <2>3. CASE ui' = [ui EXCEPT !.stage = ui.stage + 1, !.fetched = fetched]
    BY <1>1, <1>4, <2>1, <2>3 DEF DashShape
  <2> QED BY <1>3, <2>2, <2>3
<1>6. ~Loaded /\ ~Loaded' /\ On' = On /\ Len(LoadSteps)' = Len(LoadSteps)
  BY <1>1, <1>5, Steps DEF Loaded, LoadSteps, On
<1> QED BY <1>1, <1>5, <1>6 DEF DashInv, WellShaped, NothingPlaced, Aligned, RegistryComplete,
       LiveInViewMode, InFlight

LEMMA LoadEndsKeeps ==
  ASSUME DashInv, LoadEndsOfSensor \/ LoadEndsGeneral PROVE DashInv'
<1> DEFINE widgets == ui.fetched.widgets
<1>1. PICK registry, layouts :
        /\ LoadEnds(registry, layouts)
        /\ srv.sensorPage \/ registry = SetToSeq(Held(widgets))
  BY Zenon DEF LoadEndsOfSensor, LoadEndsGeneral, Held
<1>2. PICK places :
        ui' = [ui EXCEPT !.stage = @ + 1, !.loading = FALSE, !.fetched = DashUi.fetched,
                 !.widgets = widgets, !.backup = widgets, !.sensors = registry,
                 !.layouts = places, !.live = ui.live \cup Wanted(widgets), !.putBack = {}]
  BY <1>1, Zenon DEF LoadEnds, startLiveUpdates
<1>3. /\ page' = page /\ srv' = srv /\ net' = net /\ On /\ ui.stage = Len(LoadSteps)
      /\ DOMAIN ui = DashShape /\ AreWidgets(widgets) /\ ui.stage \in Nat
  BY <1>1 DEF LoadEnds, DashInv, WellShaped
<1> HIDE DEF widgets
<1>4. /\ DOMAIN ui' = DashShape /\ ui'.stage = ui.stage + 1 /\ ui'.fetched = DashUi.fetched
      /\ ui'.widgets = widgets /\ ui'.backup = widgets /\ ui'.sensors = registry
      /\ ui'.live = ui.live \cup Wanted(widgets)
      /\ ui'.mounted = ui.mounted /\ ui'.error = ui.error
  BY <1>2, <1>3 DEF DashShape
<1>5. WellShaped'
  BY <1>3, <1>4, NewPage, NoWidgets DEF DashInv, WellShaped
<1>6. ~Loaded /\ Loaded'
  BY <1>3, <1>4, Steps DEF Loaded, LoadSteps
<1>7. /\ InFlight("saveWidget") = {}
      /\ \A r \in net : r.call.widgets = << >> /\ r.call.backup = << >>
  BY <1>3, <1>6 DEF DashInv, NothingPlaced, InFlight
<1>8. ~srv.sensorPage => Once(registry) /\ CoversAll(registry, widgets)
  <2> SUFFICES ASSUME ~srv.sensorPage PROVE Once(registry) /\ CoversAll(registry, widgets)
    OBVIOUS
  <2>1. registry = SetToSeq(Held(widgets))
    BY <1>1 DEF widgets
  <2>2. Once(registry) /\ ToSet(registry) = Held(widgets)
    BY <1>3, <2>1, HeldFinite, SetToSeqOnce
  <2> QED BY <2>2 DEF CoversAll, Covers, Knows, Held, ToSet
<1>9. RegistryComplete'
  BY <1>3, <1>4, <1>7, <1>8, NoWidgets DEF RegistryComplete, InFlight, CoversAll
<1>10. LiveInViewMode'
  BY <1>3, <1>4 DEF LiveInViewMode, Wanted
<1> QED BY <1>4, <1>5, <1>6, <1>9, <1>10 DEF DashInv, NothingPlaced, Aligned

(* Calls that are sent.                                                    *)
Sent(c) == net' = net \cup {Requested(c)}

LEMMA CallSent ==
  ASSUME NEW what, NEW id, NEW w, NEW layouts,
         what = "saveWidget" => DOMAIN w = PlacedShape /\ w.id = id
  PROVE  /\ DashCall(Requested(Calls(what, id, w, layouts)))
         /\ Requested(Calls(what, id, w, layouts)).call = Calls(what, id, w, layouts)
         /\ Calls(what, id, w, layouts).what = what
         /\ Calls(what, id, w, layouts).widget = w
         /\ Calls(what, id, w, layouts).widgets = << >>
         /\ Calls(what, id, w, layouts).backup = << >>
BY NoWidgets DEF DashCall, Requested, RequestShape, Calls, Aligned

LEMMA AddSent ==
  ASSUME DashInv
  PROVE  /\ DashCall(Requested(AddCall)) /\ Requested(AddCall).call = AddCall
         /\ AddCall.what = "addWidget"
         /\ AddCall.widgets = ui.widgets /\ AddCall.backup = ui.backup
BY DEF DashInv, WellShaped, DashCall, Requested, RequestShape, AddCall, Calls

LEMMA SentKeeps ==
  ASSUME DashInv, SamePage, srv' = srv, NEW c, Sent(c),
         DashCall(Requested(c)), Requested(c).call = c,
         c.what \in {"saveWidget", "removeWidget"} => Loaded,
         c.what = "saveWidget" /\ ~srv.sensorPage => Covers(ui.sensors, c.widget),
         \/ c.widgets = << >> /\ c.backup = << >>
         \/ c.widgets = ui.widgets /\ c.backup = ui.backup
  PROVE  DashInv'
<1> DEFINE q == Requested(c)
<1>1. net' = net \cup {q} /\ DashCall(q) /\ q.call = c
  BY DEF Sent
<1> HIDE DEF q
<1>2. On' = On /\ Loaded' = Loaded
  BY DEF SamePage, On, Loaded, LoadSteps
<1>3. WellShaped'
  BY <1>1 DEF DashInv, WellShaped, SamePage
<1>4. NothingPlaced' /\ Aligned(ui.widgets, ui.backup)'
  BY <1>1, <1>2 DEF DashInv, NothingPlaced, SamePage, Aligned
<1>5. RegistryComplete'
  BY <1>1, <1>2, NoWidgets DEF DashInv, RegistryComplete, SamePage, InFlight, CoversAll
<1>6. LiveInViewMode'
  BY <1>1, <1>2 DEF DashInv, LiveInViewMode, SamePage, InFlight
<1> QED BY <1>3, <1>4, <1>5, <1>6 DEF DashInv

LEMMA ToggleKeeps ==
  ASSUME DashInv, ToggleEdit PROVE DashInv'
<1>1. page' = page /\ srv' = srv /\ On /\ DOMAIN ui = DashShape
  BY DEF ToggleEdit, HeaderShown, DashInv, WellShaped
<1>2. CASE net' = net /\ ui' = [ui EXCEPT !.live = {}, !.edit = TRUE]
  <2>1. /\ DOMAIN ui' = DashShape /\ ui'.edit
        /\ ui'.mounted = ui.mounted /\ ui'.error = ui.error /\ ui'.stage = ui.stage
        /\ ui'.fetched = ui.fetched /\ ui'.layouts = ui.layouts
        /\ ui'.widgets = ui.widgets /\ ui'.backup = ui.backup /\ ui'.sensors = ui.sensors
    BY <1>1, <1>2 DEF DashShape
  <2> QED BY <1>1, <1>2, <2>1 DEF DashInv, WellShaped, NothingPlaced, Aligned,
             RegistryComplete, LiveInViewMode, InFlight, On, Loaded, LoadSteps
<1>3. CASE /\ ui' = [ui EXCEPT !.edit = FALSE, !.loading = TRUE]
           /\ Send(Calls("updateDashboard", 0, << >>, ui.layouts))
  <2> DEFINE c == Calls("updateDashboard", 0, << >>, ui.layouts)
             q == Requested(c)
  <2>1. net' = net \cup {q}
    BY <1>3 DEF Send, Requested
  <2>2. /\ DashCall(q) /\ q.call = c /\ c.what = "updateDashboard"
        /\ c.widgets = << >> /\ c.backup = << >>
    BY CallSent
  <2> HIDE DEF q, c
  <2>3. /\ DOMAIN ui' = DashShape
        /\ ui'.mounted = ui.mounted /\ ui'.error = ui.error /\ ui'.stage = ui.stage
        /\ ui'.fetched = ui.fetched /\ ui'.layouts = ui.layouts
        /\ ui'.widgets = ui.widgets /\ ui'.backup = ui.backup /\ ui'.sensors = ui.sensors
    BY <1>1, <1>3 DEF DashShape
  <2>4. q \in InFlight("updateDashboard")'
    BY <2>1, <2>2 DEF InFlight
  <2>5. On' = On /\ Loaded' = Loaded
    BY <1>1, <2>3 DEF On, Loaded, LoadSteps
  <2>6. WellShaped' /\ NothingPlaced' /\ Aligned(ui.widgets, ui.backup)' /\ LiveInViewMode'
    BY <1>1, <2>1, <2>2, <2>3, <2>4, <2>5
       DEF DashInv, WellShaped, NothingPlaced, Aligned, LiveInViewMode
  <2>7. RegistryComplete'
    BY <1>1, <2>1, <2>2, <2>3, <2>5, NoWidgets DEF DashInv, RegistryComplete, InFlight, CoversAll
  <2> QED BY <2>6, <2>7 DEF DashInv
<1> QED BY <1>2, <1>3 DEF ToggleEdit

LEMMA PlacedLoaded ==
  ASSUME DashInv, On, NEW id \in Shown
  PROVE  Loaded /\ \E k \in DOMAIN ui.widgets : ui.widgets[k].id = id
<1>1. \E k \in DOMAIN ui.widgets : ui.widgets[k].id = id
  BY DEF Shown, ToSet
<1>2. ui.widgets # << >>
  BY <1>1, NoWidgets
<1> QED BY <1>1, <1>2 DEF DashInv, NothingPlaced

LEMMA SendsKeep ==
  ASSUME DashInv, addWidget \/ \E id \in WidgetIds : saveWidget(id) \/ removeWidget(id)
  PROVE  DashInv'
<1>1. DOMAIN ui = DashShape /\ AreWidgets(ui.widgets)
  BY DEF DashInv, WellShaped
<1>2. SamePage /\ srv' = srv
  <2> USE <1>1 DEF SamePage, DashShape
  <2>1. CASE addWidget
    BY <2>1 DEF addWidget
  <2>2. CASE \E id \in WidgetIds : saveWidget(id)
    BY <2>2 DEF saveWidget
  <2>3. CASE \E id \in WidgetIds : removeWidget(id)
    BY <2>3 DEF removeWidget
  <2> QED BY <2>1, <2>2, <2>3
<1>3. CASE addWidget
  <2> DEFINE c == AddCall
  <2>1. Sent(c)
    BY <1>3 DEF addWidget, Send, Sent, Requested
  <2>2. /\ DashCall(Requested(c)) /\ Requested(c).call = c /\ c.what = "addWidget"
        /\ c.widgets = ui.widgets /\ c.backup = ui.backup
    BY AddSent
  <2> HIDE DEF c
  <2> QED BY <1>2, <2>1, <2>2, SentKeeps
<1>4. ASSUME NEW id \in WidgetIds, removeWidget(id) PROVE DashInv'
  <2> DEFINE c == Calls("removeWidget", id, << >>, Unmade)
  <2>1. Sent(c) /\ On /\ id \in Shown
    BY <1>4 DEF removeWidget, Send, Sent, Requested, WidgetMenu
  <2>2. /\ DashCall(Requested(c)) /\ Requested(c).call = c /\ c.what = "removeWidget"
        /\ c.widgets = << >> /\ c.backup = << >>
    BY CallSent
  <2>3. Loaded
    BY <2>1, PlacedLoaded
  <2> HIDE DEF c
  <2> QED BY <1>2, <2>1, <2>2, <2>3, SentKeeps
<1>5. ASSUME NEW id \in WidgetIds, saveWidget(id) PROVE DashInv'
  <2> DEFINE w == FirstOf(ui.widgets, id)
             c == Calls("saveWidget", id, w, Unmade)
  <2>1. Sent(c) /\ On /\ id \in Shown
    BY <1>5 DEF saveWidget, Send, Sent, Requested, InDialog, GridShown, HeaderShown
  <2>2. Loaded /\ \E k \in DOMAIN ui.widgets : ui.widgets[k].id = id
    BY <2>1, PlacedLoaded
  <2>3. PICK j \in DOMAIN ui.widgets : w = ui.widgets[j] /\ ui.widgets[j].id = id
    BY <1>1, <2>2, FirstWidget
  <2>4. DOMAIN w = PlacedShape /\ w.id = id
    BY <1>1, <2>3 DEF AreWidgets
  <2>5. ~srv.sensorPage => Covers(ui.sensors, w)
    BY <2>3 DEF DashInv, RegistryComplete, CoversAll
  <2> HIDE DEF w
  <2>6. /\ DashCall(Requested(c)) /\ Requested(c).call = c /\ c.what = "saveWidget" /\ c.widget = w
        /\ c.widgets = << >> /\ c.backup = << >>
    BY <2>4, CallSent
  <2> HIDE DEF c
  <2> QED BY <1>2, <2>1, <2>2, <2>5, <2>6, SentKeeps
<1> QED BY <1>3, <1>4, <1>5

(* Steps that change the widgets of a loaded page.                         *)
Frame ==
  /\ page' = page /\ srv' = srv /\ DOMAIN ui' = DashShape
  /\ ui'.mounted = ui.mounted /\ ui'.error = ui.error /\ ui'.stage = ui.stage
  /\ ui'.fetched = ui.fetched /\ ui'.live = ui.live /\ ui'.edit = ui.edit
  /\ net' \subseteq net
  /\ \A r \in net \ net' : r.call.what # "updateDashboard"

\* None that the page shows in view mode is new, except without a sensor, or
\* put back.
FewNew ==
  /\ ui.putBack \subseteq ui'.putBack
  /\ \A k \in DOMAIN ui'.widgets :
       \/ ui'.widgets[k].sensor = NoSensor
       \/ ui'.widgets[k] \in ui'.putBack
       \/ \E j \in DOMAIN ui.widgets : ui'.widgets[k] = ui.widgets[j]

RegistryGrows ==
  ~srv.sensorPage =>
    /\ Once(ui.sensors) => Once(ui'.sensors)
    /\ \A s : Knows(ui.sensors, s) => Knows(ui'.sensors, s)

LEMMA ChangedKeeps ==
  ASSUME DashInv, On, Loaded, Frame, RegistryGrows,
         AreWidgets(ui'.widgets), AreWidgets(ui'.backup), Aligned(ui'.widgets, ui'.backup),
         ~srv.sensorPage => CoversAll(ui'.sensors, ui'.widgets) /\ CoversAll(ui'.sensors, ui'.backup),
         ui.edit \/ FewNew
  PROVE  DashInv'
<1>1. On' /\ Loaded'
  BY DEF On, Loaded, LoadSteps, Frame
<1>2. WellShaped'
  BY DEF DashInv, WellShaped, Frame
<1>3. RegistryComplete'
  <2>1. InFlight("saveWidget")' \subseteq InFlight("saveWidget")
    BY DEF InFlight, Frame
  <2> QED BY <2>1 DEF DashInv, RegistryComplete, RegistryGrows, Covers, CoversAll, Frame
<1>4. LiveInViewMode'
  <2> SUFFICES ASSUME ~ui'.edit, InFlight("updateDashboard")' = {},
                      NEW v \in ToSet(ui'.widgets) \ ui'.putBack,
                      v.sensor # NoSensor, ~srv.sensorPage
               PROVE  [sensor |-> v.sensor, filter |-> Filter(v.type)] \in ui.live
    BY DEF LiveInViewMode, Frame
  <2>1. InFlight("updateDashboard") = {}
    BY DEF Frame, InFlight
  <2>2. ~ui.edit /\ FewNew
    BY DEF Frame
  <2>3. v \in ToSet(ui.widgets) \ ui.putBack
    BY <2>2 DEF FewNew, ToSet
  <2> QED BY <2>1, <2>2, <2>3 DEF DashInv, WellShaped, LiveInViewMode, On
<1> QED BY <1>1, <1>2, <1>3, <1>4 DEF DashInv, NothingPlaced

LEMMA SavedKeeps ==
  ASSUME DashInv, NEW r \in net, NEW ok \in BOOLEAN, DashboardSaved(r, ok) PROVE DashInv'
<1>1. /\ page' = page /\ srv' = srv /\ net' = net \ {r} /\ DOMAIN ui = DashShape
      /\ ui' = [ui EXCEPT !.loading = FALSE, !.live = ui.live \cup Wanted(ui.widgets),
                          !.putBack = {}]
  BY DEF DashboardSaved, Settle, startLiveUpdates, DashInv, WellShaped
<1>2. /\ DOMAIN ui' = DashShape /\ ui'.live = ui.live \cup Wanted(ui.widgets)
      /\ ui'.mounted = ui.mounted /\ ui'.error = ui.error /\ ui'.stage = ui.stage
      /\ ui'.fetched = ui.fetched /\ ui'.layouts = ui.layouts
      /\ ui'.widgets = ui.widgets /\ ui'.backup = ui.backup /\ ui'.sensors = ui.sensors
  BY <1>1 DEF DashShape
<1>3. On' = On /\ Loaded' = Loaded
  BY <1>1, <1>2 DEF On, Loaded, LoadSteps
<1>4. WellShaped' /\ NothingPlaced' /\ Aligned(ui.widgets, ui.backup)' /\ RegistryComplete'
  BY <1>1, <1>2, <1>3
     DEF DashInv, WellShaped, NothingPlaced, Aligned, RegistryComplete, InFlight
<1>5. LiveInViewMode'
  BY <1>1, <1>2 DEF LiveInViewMode, Wanted
<1> QED BY <1>4, <1>5 DEF DashInv

LEMMA AddedKeeps ==
  ASSUME DashInv, NEW r \in net, NEW ok \in BOOLEAN, WidgetAdded(r, ok),
         r.call.what = "addWidget"
  PROVE  DashInv'
<1> DEFINE w == Widget(r.call.id)
           ws == r.call.widgets
           vs == r.call.backup
           back == ui.putBack \cup (ToSet(ws) \ ToSet(ui.widgets))
<1>1. /\ page' = page /\ srv' = srv /\ net' = net \ {r} /\ On /\ DOMAIN ui = DashShape
      /\ AreWidgets(ws) /\ AreWidgets(vs) /\ Aligned(ws, vs)
  BY DEF WidgetAdded, Settle, DashInv, WellShaped, DashCall
<1>2. CASE ui' = ErrorPage
  BY <1>1, <1>2, GoneIs, GoneKeeps
<1>3. CASE ~(ui' = ErrorPage)
  <2>1. ui.layouts # Unmade /\ \E places :
          ui' = [ui EXCEPT !.widgets = Append(ws, w), !.backup = Append(vs, w),
                           !.putBack = back, !.layouts = places, !.loading = FALSE]
    BY <1>3, Zenon DEF WidgetAdded
  <2>2. Loaded
    BY <1>1, <2>1 DEF DashInv, NothingPlaced
  <2>3. DOMAIN w = PlacedShape /\ w.sensor = NoSensor
    BY DEF Widget, PlacedShape
  <2>4. ~srv.sensorPage => CoversAll(ui.sensors, ws) /\ CoversAll(ui.sensors, vs)
    BY <1>1 DEF DashInv, RegistryComplete
  <2>5. \A k \in DOMAIN ws : ws[k] \in back \/ \E j \in DOMAIN ui.widgets : ws[k] = ui.widgets[j]
    BY DEF ToSet
  <2>6. ui.putBack \subseteq back
    OBVIOUS
  <2> HIDE DEF w, ws, vs, back
  <2>7. /\ Frame /\ ui'.sensors = ui.sensors /\ ui'.putBack = back
        /\ ui'.widgets = Append(ws, w) /\ ui'.backup = Append(vs, w)
    BY <1>1, <2>1 DEF Frame, DashShape
  <2>8. Aligned(ui'.widgets, ui'.backup)
    BY <1>1, <2>7, AlignedAppend
  <2>9. /\ AreWidgets(ui'.widgets) /\ AreWidgets(ui'.backup)
        /\ \A k \in DOMAIN ui'.widgets : ui'.widgets[k] = w \/ (k \in DOMAIN ws /\ ui'.widgets[k] = ws[k])
        /\ \A k \in DOMAIN ui'.backup : ui'.backup[k] = w \/ (k \in DOMAIN vs /\ ui'.backup[k] = vs[k])
    BY <1>1, <2>3, <2>7, AppendWidget, AppendFacts DEF AreWidgets
  <2>10. ~srv.sensorPage => CoversAll(ui'.sensors, ui'.widgets) /\ CoversAll(ui'.sensors, ui'.backup)
    BY <2>3, <2>4, <2>7, <2>9 DEF CoversAll, Covers
  <2>11. FewNew /\ RegistryGrows
    BY <2>3, <2>5, <2>6, <2>7, <2>9 DEF FewNew, RegistryGrows
  <2> QED BY <1>1, <2>2, <2>7, <2>8, <2>9, <2>10, <2>11, ChangedKeeps
<1> QED BY <1>2, <1>3

LEMMA WidgetSavedKeeps ==
  ASSUME DashInv, NEW r \in net, NEW ok \in BOOLEAN, WidgetSaved(r, ok),
         r.call.what = "saveWidget"
  PROVE  DashInv'
<1> DEFINE id == r.call.id
           w == r.call.widget
<1>1. /\ page' = page /\ srv' = srv /\ net' = net \ {r} /\ On /\ DOMAIN ui = DashShape
      /\ AreWidgets(ui.widgets) /\ AreWidgets(ui.backup) /\ Aligned(ui.widgets, ui.backup)
      /\ DOMAIN w = PlacedShape /\ w.id = id
  BY DEF WidgetSaved, Settle, DashInv, WellShaped, DashCall
<1>2. CASE ui' = ErrorPage
  BY <1>1, <1>2, GoneIs, GoneKeeps
<1>3. CASE ~(ui' = ErrorPage)
  <2>1. \E open : ui' = [ui EXCEPT !.backup = Replace(ui.backup, id, w),
                                   !.configuring = open, !.loading = FALSE]
    BY <1>3, Zenon DEF WidgetSaved
  <2>2. Loaded
    BY <1>1 DEF DashInv, NothingPlaced
  <2>3. ~srv.sensorPage => Covers(ui.sensors, w)
    BY <1>1 DEF DashInv, RegistryComplete, InFlight
  <2> HIDE DEF w, id
  <2>4. /\ Frame /\ ui'.sensors = ui.sensors /\ ui'.putBack = ui.putBack
        /\ ui'.widgets = ui.widgets /\ ui'.backup = Replace(ui.backup, id, w)
    BY <1>1, <2>1 DEF Frame, DashShape
  <2>5. Aligned(ui'.widgets, ui'.backup)
    BY <1>1, <2>4, AlignedReplace
  <2>6. /\ AreWidgets(ui'.widgets) /\ AreWidgets(ui'.backup) /\ DOMAIN ui'.backup = DOMAIN ui.backup
        /\ \A k \in DOMAIN ui.backup : ui'.backup[k] = w \/ ui'.backup[k] = ui.backup[k]
    BY <1>1, <2>4, ReplaceWidget
  <2>7. ~srv.sensorPage => CoversAll(ui'.sensors, ui'.widgets) /\ CoversAll(ui'.sensors, ui'.backup)
    BY <2>3, <2>4, <2>6 DEF DashInv, RegistryComplete, CoversAll
  <2>8. FewNew /\ RegistryGrows
    BY <2>4 DEF FewNew, RegistryGrows
  <2> QED BY <1>1, <2>2, <2>4, <2>5, <2>6, <2>7, <2>8, ChangedKeeps
<1> QED BY <1>2, <1>3

LEMMA RemovedKeeps ==
  ASSUME DashInv, NEW r \in net, NEW ok \in BOOLEAN, WidgetRemoved(r, ok),
         r.call.what = "removeWidget"
  PROVE  DashInv'
<1> DEFINE id == r.call.id
<1>1. /\ page' = page /\ srv' = srv /\ net' = net \ {r} /\ On /\ DOMAIN ui = DashShape
      /\ AreWidgets(ui.widgets) /\ AreWidgets(ui.backup) /\ Aligned(ui.widgets, ui.backup)
  BY DEF WidgetRemoved, Settle, DashInv, WellShaped
<1>2. CASE ui' = ErrorPage
  BY <1>1, <1>2, GoneIs, GoneKeeps
<1>3. CASE ~(ui' = ErrorPage)
  <2>1. ui' = [ui EXCEPT !.widgets = Without(ui.widgets, id),
                         !.backup = Without(ui.backup, id), !.loading = FALSE]
    BY <1>3, Zenon DEF WidgetRemoved
  <2>2. Loaded
    BY <1>1 DEF DashInv, NothingPlaced
  <2> HIDE DEF id
  <2>4. /\ Frame /\ ui'.sensors = ui.sensors /\ ui'.putBack = ui.putBack
        /\ ui'.widgets = Without(ui.widgets, id) /\ ui'.backup = Without(ui.backup, id)
    BY <1>1, <2>1 DEF Frame, DashShape
  <2>5. Aligned(ui'.widgets, ui'.backup)
    BY <1>1, <2>4, AlignedWithout
  <2>6. /\ AreWidgets(ui'.widgets) /\ AreWidgets(ui'.backup)
        /\ \A k \in DOMAIN ui'.widgets : \E j \in DOMAIN ui.widgets : ui'.widgets[k] = ui.widgets[j]
        /\ \A k \in DOMAIN ui'.backup : \E j \in DOMAIN ui.backup : ui'.backup[k] = ui.backup[j]
    BY <1>1, <2>4, WithoutWidget
  <2>7. ~srv.sensorPage => CoversAll(ui'.sensors, ui'.widgets) /\ CoversAll(ui'.sensors, ui'.backup)
    BY <2>4, <2>6 DEF DashInv, RegistryComplete, CoversAll
  <2>8. FewNew /\ RegistryGrows
    BY <2>4, <2>6 DEF FewNew, RegistryGrows
  <2> QED BY <1>1, <2>2, <2>4, <2>5, <2>6, <2>7, <2>8, ChangedKeeps
<1> QED BY <1>2, <1>3

(* What the fields of the dialog turn a widget into.                       *)
LEMMA FieldsKeepShape ==
  ASSUME NEW w, DOMAIN w = PlacedShape, NEW new \in FieldsOf(w)
  PROVE  DOMAIN new = PlacedShape /\ new.id = w.id
<1>1. \/ new \in TypesOffered(w) \/ new \in SensorsOffered(w)
      \/ new \in ParametersOffered(w) \/ new \in OptionsOffered(w)
  BY DEF FieldsOf
<1>2. \/ \E t : new = [w EXCEPT !.type = t]
      \/ \E s : new = [w EXCEPT !.sensor = s]
      \/ new = [w EXCEPT !.filled = TRUE]
  BY <1>1, Zenon DEF TypesOffered, SensorsOffered, ParametersOffered, OptionsOffered
<1> QED BY <1>2 DEF PlacedShape

LEMMA RegistryCoversNew ==
  ASSUME NEW new, NEW old, Once(ui.sensors), Covers(ui.sensors, old)
  PROVE  /\ Once(Registry(new, old)) /\ Covers(Registry(new, old), new)
         /\ \A s : Knows(ui.sensors, s) => Knows(Registry(new, old), s)
<1>1. CASE isSensorChanged(new, old) /\ Registered(ui.sensors, new.sensor) = {}
  BY <1>1, AppendOnce DEF Registry, Covers
<1>2. CASE ~(isSensorChanged(new, old) /\ Registered(ui.sensors, new.sensor) = {})
  <2>1. Registry(new, old) = ui.sensors
    BY <1>2 DEF Registry
  <2>2. Covers(ui.sensors, new)
    BY <1>2 DEF Covers, Knows, Registered, isSensorChanged
  <2> QED BY <2>1, <2>2
<1> QED BY <1>1, <1>2

LEMMA ChangeKeeps ==
  ASSUME DashInv, NEW id \in WidgetIds, changeWidget(id) PROVE DashInv'
<1>1. /\ page' = page /\ srv' = srv /\ net' = net /\ On /\ ui.edit /\ id \in Shown
      /\ DOMAIN ui = DashShape
      /\ AreWidgets(ui.widgets) /\ AreWidgets(ui.backup) /\ Aligned(ui.widgets, ui.backup)
  BY DEF changeWidget, InDialog, GridShown, HeaderShown, DashInv, WellShaped
<1>2. PICK k \in Indices(ui.widgets, id) : \E new \in FieldsOf(ui.widgets[k]) :
        ui' = [ui EXCEPT !.widgets = Replace(ui.widgets, id, new),
                         !.sensors = Registry(new, ui.widgets[k]), !.edits = @ + 1]
  BY Zenon DEF changeWidget
<1> DEFINE old == ui.widgets[k]
<1>3. k \in DOMAIN ui.widgets /\ DOMAIN old = PlacedShape /\ old.id = id
  BY <1>1, <1>2 DEF Indices, AreWidgets
<1>4. PICK new \in FieldsOf(old) :
        ui' = [ui EXCEPT !.widgets = Replace(ui.widgets, id, new),
                         !.sensors = Registry(new, old), !.edits = @ + 1]
  BY <1>2
<1>5. DOMAIN new = PlacedShape /\ new.id = id
  BY <1>3, <1>4, FieldsKeepShape
<1>6. Loaded
  BY <1>1, PlacedLoaded
<1> HIDE DEF old
<1>7. /\ Frame /\ ui'.widgets = Replace(ui.widgets, id, new) /\ ui'.backup = ui.backup
      /\ ui'.sensors = Registry(new, old)
  BY <1>1, <1>4 DEF Frame, DashShape
<1>8. ~srv.sensorPage =>
        /\ Once(ui'.sensors) /\ Covers(ui'.sensors, new)
        /\ \A s : Knows(ui.sensors, s) => Knows(ui'.sensors, s)
  <2>1. ~srv.sensorPage => Once(ui.sensors) /\ Covers(ui.sensors, old)
    BY <1>3 DEF DashInv, RegistryComplete, CoversAll, old
  <2> QED BY <1>7, <2>1, RegistryCoversNew
<1>9. /\ AreWidgets(ui'.widgets) /\ AreWidgets(ui'.backup) /\ DOMAIN ui'.widgets = DOMAIN ui.widgets
      /\ \A j \in DOMAIN ui.widgets : ui'.widgets[j] = new \/ ui'.widgets[j] = ui.widgets[j]
  BY <1>1, <1>5, <1>7, ReplaceWidget
<1>10. Aligned(ui'.widgets, ui'.backup)
  BY <1>1, <1>5, <1>7, AlignedReplace
<1>11. ~srv.sensorPage => CoversAll(ui'.sensors, ui'.widgets) /\ CoversAll(ui'.sensors, ui'.backup)
  BY <1>7, <1>8, <1>9 DEF DashInv, RegistryComplete, CoversAll, Covers
<1>12. RegistryGrows
  BY <1>8 DEF RegistryGrows
<1> QED BY <1>1, <1>6, <1>7, <1>9, <1>10, <1>11, <1>12, ChangedKeeps

LEMMA CancelKeeps ==
  ASSUME DashInv, NEW id \in WidgetIds, cancelSaveWidget(id) PROVE DashInv'
<1> DEFINE w == FirstOf(ui.backup, id)
<1>1. /\ page' = page /\ srv' = srv /\ net' = net /\ On /\ ui.edit /\ id \in Shown
      /\ DOMAIN ui = DashShape
      /\ AreWidgets(ui.widgets) /\ AreWidgets(ui.backup) /\ Aligned(ui.widgets, ui.backup)
  BY DEF cancelSaveWidget, InDialog, GridShown, HeaderShown, DashInv, WellShaped
<1>2. \E open : ui' = [ui EXCEPT !.widgets = Replace(ui.widgets, id, w),
                          !.configuring = open, !.step = 0, !.found = FALSE]
  BY Zenon DEF cancelSaveWidget
<1>3. Loaded /\ \E k \in DOMAIN ui.widgets : ui.widgets[k].id = id
  BY <1>1, PlacedLoaded
<1>4. \E k \in DOMAIN ui.backup : ui.backup[k].id = id
  BY <1>1, <1>3 DEF Aligned
<1>5. PICK j \in DOMAIN ui.backup : w = ui.backup[j] /\ ui.backup[j].id = id
  BY <1>1, <1>4, FirstWidget
<1>6. DOMAIN w = PlacedShape /\ w.id = id
  BY <1>1, <1>5 DEF AreWidgets
<1> HIDE DEF w
<1>7. /\ Frame /\ ui'.widgets = Replace(ui.widgets, id, w) /\ ui'.backup = ui.backup
      /\ ui'.sensors = ui.sensors
  BY <1>1, <1>2 DEF Frame, DashShape
<1>8. /\ AreWidgets(ui'.widgets) /\ AreWidgets(ui'.backup) /\ DOMAIN ui'.widgets = DOMAIN ui.widgets
      /\ \A i \in DOMAIN ui.widgets : ui'.widgets[i] = w \/ ui'.widgets[i] = ui.widgets[i]
  BY <1>1, <1>6, <1>7, ReplaceWidget
<1>9. Aligned(ui'.widgets, ui'.backup)
  BY <1>1, <1>6, <1>7, AlignedReplace
<1>10. ~srv.sensorPage => CoversAll(ui'.sensors, ui'.widgets) /\ CoversAll(ui'.sensors, ui'.backup)
  BY <1>5, <1>7, <1>8 DEF DashInv, RegistryComplete, CoversAll, Covers
<1>11. RegistryGrows
  BY <1>7 DEF RegistryGrows
<1> QED BY <1>1, <1>3, <1>7, <1>8, <1>9, <1>10, <1>11, ChangedKeeps

(* The server carries a call out.                                          *)
LEMMA ServedKeeps ==
  ASSUME DashInv, NEW r \in net, NEW q, DashCall(q), page' = page, ui' = ui,
         net' = (net \ {r}) \cup {q}, q.call.what = r.call.what, q.call.widget = r.call.widget,
         q.call.widgets = r.call.widgets, q.call.backup = r.call.backup,
         DOMAIN srv' = SrvShape, srv'.sensorPage = srv.sensorPage, AreWidgets(srv'.widgets)
  PROVE  DashInv'
<1>1. On' = On /\ Loaded' = Loaded
  BY DEF On, Loaded, LoadSteps
<1>2. WellShaped'
  BY DEF DashInv, WellShaped
<1>3. NothingPlaced' /\ Aligned(ui.widgets, ui.backup)'
  BY <1>1 DEF DashInv, NothingPlaced
<1>4. RegistryComplete'
  BY <1>1 DEF DashInv, RegistryComplete, InFlight
<1>5. InFlight("updateDashboard")' = {} => InFlight("updateDashboard") = {}
  BY DEF InFlight
<1>6. LiveInViewMode'
  BY <1>1, <1>5 DEF DashInv, LiveInViewMode
<1> QED BY <1>2, <1>3, <1>4, <1>6 DEF DashInv

LEMMA DashServesKeeps ==
  ASSUME DashInv, NEW r \in net, DashServes(r) PROVE DashInv'
<1> DEFINE c == r.call
<1>1. /\ page' = page /\ ui' = ui /\ DashCall(r) /\ DOMAIN srv = SrvShape
      /\ AreWidgets(srv.widgets)
  BY DEF DashServes, Serve, DashInv, WellShaped
<1>2. CASE c.what # "addWidget"
  <2> DEFINE q == [r EXCEPT !.served = TRUE]
             saved == Replace(srv.widgets, c.id, c.widget)
             left == Without(srv.widgets, c.id)
             placed == <<c.layouts>>
  <2>1. /\ net' = (net \ {r}) \cup {q}
        /\ \/ c.what = "saveWidget" /\ srv' = [srv EXCEPT !.widgets = saved]
           \/ srv' = [srv EXCEPT !.widgets = left]
           \/ srv' = [srv EXCEPT !.layouts = placed]
    BY <1>2, Zenon DEF DashServes, Serve
  <2>2. DashCall(q) /\ q.call = c
    BY <1>1 DEF DashCall, RequestShape
  <2>3. AreWidgets(left)
    BY <1>1, WithoutWidget
  <2>4. c.what = "saveWidget" => AreWidgets(saved)
    BY <1>1, ReplaceWidget DEF DashCall
  <2> HIDE DEF q, saved, left, placed
  <2>5. DOMAIN srv' = SrvShape /\ srv'.sensorPage = srv.sensorPage /\ AreWidgets(srv'.widgets)
    BY <1>1, <2>1, <2>3, <2>4 DEF SrvShape
  <2> QED BY <1>1, <2>1, <2>2, <2>5, ServedKeeps
<1>3. CASE c.what = "addWidget"
  <2>1. PICK id \in WidgetIds :
          /\ srv' = [srv EXCEPT !.widgets = Append(@, Widget(id)), !.given = @ \cup {id}]
          /\ net' = (net \ {r}) \cup {[r EXCEPT !.served = TRUE, !.call.id = id]}
    BY <1>3, Zenon DEF DashServes
  <2> DEFINE q == [r EXCEPT !.served = TRUE, !.call.id = id]
             call == [c EXCEPT !.id = id]
             w == Widget(id)
             more == Append(srv.widgets, w)
  <2>2. q = [r EXCEPT !.served = TRUE, !.call = call]
    BY <1>1 DEF DashCall, RequestShape
  <2>3. /\ call.what = c.what /\ call.widget = c.widget /\ DOMAIN call = DOMAIN c
        /\ call.widgets = c.widgets /\ call.backup = c.backup
    BY <1>1 DEF DashCall
  <2> HIDE DEF call
  <2>4. q.call = call /\ DOMAIN q = RequestShape
    BY <1>1, <2>2 DEF DashCall, RequestShape
  <2>5. DashCall(q)
    BY <1>1, <1>3, <2>3, <2>4 DEF DashCall
  <2>6. AreWidgets(more)
    <3>1. DOMAIN w = PlacedShape
      BY DEF Widget, PlacedShape
    <3> HIDE DEF w
    <3> QED BY <1>1, <3>1, AppendWidget
  <2>7. net' = (net \ {r}) \cup {q} /\ srv' = [srv EXCEPT !.widgets = more, !.given = @ \cup {id}]
    BY <2>1, Zenon
  <2> HIDE DEF q, more
  <2>8. DOMAIN srv' = SrvShape /\ srv'.sensorPage = srv.sensorPage /\ AreWidgets(srv'.widgets)
    BY <1>1, <2>6, <2>7 DEF SrvShape
  <2> QED BY <1>1, <2>3, <2>4, <2>5, <2>7, <2>8, ServedKeeps
<1> QED BY <1>2, <1>3

LEMMA DashSteps == DashInv /\ [DashNext]_webVars => DashInv'
<1> SUFFICES ASSUME DashInv, [DashNext]_webVars PROVE DashInv'
  OBVIOUS
<1>1. CASE DashNext
  <2>1. ASSUME NEW r \in net, NEW ok \in BOOLEAN, DashAnswers(r, ok) PROVE DashInv'
    BY <2>1, AddedKeeps, WidgetSavedKeeps, RemovedKeeps, SavedKeeps DEF DashAnswers
  <2> QED BY <1>1, <2>1, LeavingKeeps, LoadStepKeeps, LoadEndsKeeps, ToggleKeeps, SendsKeep,
             LocalKeeps, ChangeKeeps, CancelKeeps, DashServesKeeps DEF DashNext
<1>2. CASE UNCHANGED webVars
  BY <1>2 DEF webVars, DashInv, WellShaped, NothingPlaced, Aligned, RegistryComplete,
              LiveInViewMode, InFlight, On, Loaded, LoadSteps
<1> QED BY <1>1, <1>2

(* With the load over and no save of the dashboard unanswered, every       *)
(* widget with a sensor has a client in view mode, for any number of       *)
(* widgets and calls, except those the copies of an add put back since the *)
(* updates last started (CustomDashboard.jsx: the load, the toggle of the  *)
(* edit mode and its finally, startLiveUpdates, addWidget).                *)
THEOREM LiveInViewModeHolds == DashSpec => []LiveInViewMode
<1>1. DashInv => LiveInViewMode
  BY DEF DashInv
<1> QED BY <1>1, DashStarts, DashSteps, PTL DEF DashSpec

(* Every widget of a general dashboard finds its sensor once in the        *)
(* registry: those shown, saved, being saved and copied by an add are all  *)
(* known to it (CustomDashboard.jsx: the load, changeWidget,               *)
(* cancelSaveWidget, saveWidget, addWidget).                               *)
THEOREM RegistryCoversHolds == DashSpec => []RegistryCovers
<1>1. DashInv => RegistryCovers
  <2> SUFFICES ASSUME DashInv, ~srv.sensorPage,
                      NEW v \in ToSet(ui.widgets), v.sensor # NoSensor
               PROVE  Cardinality(Registered(ui.sensors, v.sensor)) = 1
    BY DEF RegistryCovers
  <2>1. Once(ui.sensors) /\ Knows(ui.sensors, v.sensor)
    BY DEF DashInv, RegistryComplete, CoversAll, Covers, ToSet
  <2> QED BY <2>1, FoundOnce
<1> QED BY <1>1, DashStarts, DashSteps, PTL DEF DashSpec

----------------------------------------------------------------------------
(* Going from page to page.                                                *)
NavigationSpec == NavigationInit /\ [][NavigationNext]_webVars

(* Every parameter is what some list may have left: an object without id,  *)
(* one without name, a whole one; the flag and the sensors of a comparison.*)
Named == Records \cup {NoRecord}
ObjectKeys == param_keys \ {"sensors", "params", "multiple"}

ParamsOK(p) ==
  /\ DOMAIN p = param_keys
  /\ \A k \in ObjectKeys : p[k] \in [id : Named, name : Named]
  /\ p.multiple \in BOOLEAN

(* What was asked of the chart is still in the parameters.                 *)
StillAsked(p, shows) ==
  \/ shows = {}
  \/ \E r \in Records : shows = {r} /\ p.sensor = Whole(r) /\ p.multiple = FALSE
  \/ Cardinality(shows) >= 2 /\ p.sensors = shows /\ p.multiple = TRUE

NavInv ==
  /\ DOMAIN ui = {"url", "params", "shows", "moves"}
  /\ ParamsOK(ui.params)
  /\ StillAsked(ui.params, ui.shows)

----------------------------------------------------------------------------
(* The parameters a link sets.                                             *)
SetsOK(set) ==
  /\ \A k \in ObjectKeys \cap DOMAIN set : set[k] \in [id : Named, name : Named]
  /\ "multiple" \in DOMAIN set => set.multiple \in BOOLEAN

LEMMA SetParams ==
  ASSUME NEW p, ParamsOK(p), NEW set, SetsOK(set)
  PROVE  /\ ParamsOK(set_params(p, set))
         /\ \A k \in param_keys \cap DOMAIN set : set_params(p, set)[k] = set[k]
<1> DEFINE q == set_params(p, set)
<1>1. /\ DOMAIN q = param_keys
      /\ \A k \in param_keys : q[k] = IF k \in DOMAIN set THEN set[k] ELSE p[k]
  BY DEF set_params
<1>2. "multiple" \in param_keys /\ ObjectKeys \subseteq param_keys
  BY DEF param_keys, ObjectKeys
<1> HIDE DEF q
<1>3. q.multiple \in BOOLEAN
  BY <1>1, <1>2 DEF ParamsOK, SetsOK
<1>4. \A k \in ObjectKeys : q[k] \in [id : Named, name : Named]
  BY <1>1, <1>2 DEF ParamsOK, SetsOK
<1> QED BY <1>1, <1>3, <1>4 DEF q, ParamsOK

LEMMA WholeIsObject == \A r \in Records : Whole(r) \in [id : Named, name : Named]
BY DEF Whole, Object, Named

LEMMA EmptyIsObject == Empty \in [id : Named, name : Named]
BY DEF Empty, Object, Named

(* A link is sound: what it sets are parameters, what it asks it sets.     *)
LinkOK(link) ==
  /\ SetsOK(link.set)
  /\ \A p : (\A k \in param_keys \cap DOMAIN link.set : p[k] = link.set[k])
              => StillAsked(p, link.shows)

LEMMA HistoryLinkOK == ASSUME NEW r \in Records PROVE LinkOK(HistoryOf(r))
<1> DEFINE l == HistoryOf(r)
<1>1. l.set = [sensors |-> {}, multiple |-> FALSE, sensor |-> Whole(r)] /\ l.shows = {r}
  BY DEF HistoryOf, Link
<1> HIDE DEF l
<1>2. DOMAIN l.set = {"sensors", "multiple", "sensor"} /\ l.set.multiple = FALSE
      /\ l.set.sensor = Whole(r)
  BY <1>1
<1>3. SetsOK(l.set)
  BY <1>2, WholeIsObject DEF SetsOK, ObjectKeys
<1>4. ASSUME NEW p, \A k \in param_keys \cap DOMAIN l.set : p[k] = l.set[k]
      PROVE  StillAsked(p, l.shows)
  <2>1. "sensor" \in param_keys /\ "multiple" \in param_keys
    BY DEF param_keys
  <2>2. p.sensor = Whole(r) /\ p.multiple = FALSE
    BY <1>2, <1>4, <2>1
  <2> QED BY <1>1, <2>2 DEF StillAsked
<1> QED BY <1>3, <1>4 DEF LinkOK, l

LEMMA CompareLinkOK == ASSUME NEW l \in CompareLinks PROVE LinkOK(l)
<1>1. PICK s \in SUBSET Records :
        /\ Cardinality(s) >= 2
        /\ l = [Link([sensors |-> s, params |-> s, multiple |-> TRUE], Chart) EXCEPT !.shows = s]
  BY DEF CompareLinks
<1>2. l.set = [sensors |-> s, params |-> s, multiple |-> TRUE] /\ l.shows = s
  BY <1>1 DEF Link
<1>3. DOMAIN l.set = {"sensors", "params", "multiple"} /\ l.set.multiple = TRUE
      /\ l.set.sensors = s
  BY <1>2
<1>4. SetsOK(l.set)
  BY <1>3 DEF SetsOK, ObjectKeys
<1>5. ASSUME NEW p, \A k \in param_keys \cap DOMAIN l.set : p[k] = l.set[k]
      PROVE  StillAsked(p, l.shows)
  <2>1. "sensors" \in param_keys /\ "multiple" \in param_keys
    BY DEF param_keys
  <2>2. p.sensors = s /\ p.multiple = TRUE
    BY <1>3, <1>5, <2>1
  <2> QED BY <1>1, <1>2, <2>2 DEF StillAsked
<1> QED BY <1>4, <1>5 DEF LinkOK

(* A link that asks nothing of the chart.                                  *)
LEMMA PlainLinkOK ==
  ASSUME NEW set, NEW to, SetsOK(set) PROVE LinkOK(Link(set, to))
BY DEF LinkOK, Link, StillAsked

(* ... and sets one object.                                                *)
LEMMA OneObject ==
  ASSUME NEW set, NEW key, DOMAIN set = {key}, set[key] \in [id : Named, name : Named],
         key # "multiple"
  PROVE  SetsOK(set)
BY DEF SetsOK, ObjectKeys

LEMMA NothingSet == ASSUME NEW to PROVE LinkOK(Link(<< >>, to))
<1>1. SetsOK(<< >>)
  <2>1. DOMAIN << >> = {}
    OBVIOUS
  <2> QED BY <2>1 DEF SetsOK
<1> QED BY <1>1, PlainLinkOK

LEMMA SensorLinkOK ==
  ASSUME NEW r \in Records, NEW to PROVE LinkOK(Link([sensor |-> Whole(r)], to))
<1> DEFINE set == [sensor |-> Whole(r)]
<1>1. DOMAIN set = {"sensor"} /\ set["sensor"] \in [id : Named, name : Named]
  BY WholeIsObject
<1> HIDE DEF set
<1>2. SetsOK(set)
  BY <1>1, OneObject
<1>3. LinkOK(Link(set, to))
  BY <1>2, PlainLinkOK
<1> QED BY <1>3 DEF set

LEMMA SensorLinksOK == ASSUME NEW of, NEW l \in SensorLinks(of) PROVE LinkOK(l)
<1>1. CASE l \in CompareLinks
  BY <1>1, CompareLinkOK
<1>2. CASE \E r \in Records : l = HistoryOf(r)
  BY <1>2, HistoryLinkOK
<1>3. ASSUME NEW r \in Records, NEW to PROVE LinkOK(Link([sensor_type |-> Object(r, NoRecord)], to))
  <2> DEFINE set == [sensor_type |-> Object(r, NoRecord)]
  <2>1. DOMAIN set = {"sensor_type"} /\ set["sensor_type"] \in [id : Named, name : Named]
    BY DEF Object, Named
  <2> HIDE DEF set
  <2>2. SetsOK(set)
    BY <2>1, OneObject
  <2>3. LinkOK(Link(set, to))
    BY <2>2, PlainLinkOK
  <2> QED BY <2>3 DEF set
<1>4. ASSUME NEW r \in Records, NEW to PROVE LinkOK(Link([sensor |-> Whole(r)], to))
  BY SensorLinkOK
<1>5. \/ l \in CompareLinks
      \/ \E r \in Records : l = HistoryOf(r)
      \/ \E r \in Records :
           l = Link([sensor_type |-> Object(r, NoRecord)], <<"company_sensors_by_type">>)
      \/ \E r \in Records : l = Link([sensor |-> Whole(r)], <<of, r>>)
  BY DEF SensorLinks
<1> QED BY <1>1, <1>2, <1>3, <1>4, <1>5

LEMMA MapLinksOK == ASSUME NEW l \in MapLinks PROVE LinkOK(l)
BY SensorLinkOK DEF MapLinks

LEMMA ByTypeLinksOK == ASSUME NEW l \in ByTypeLinks PROVE LinkOK(l)
BY SensorLinkOK, NothingSet DEF ByTypeLinks

LEMMA NetworkLinksOK == ASSUME NEW l \in NetworkLinks PROVE LinkOK(l)
<1>1. ASSUME NEW r \in Records, NEW to PROVE LinkOK(Link([network |-> Whole(r)], to))
  <2> DEFINE set == [network |-> Whole(r)]
  <2>1. DOMAIN set = {"network"} /\ set["network"] \in [id : Named, name : Named]
    BY WholeIsObject
  <2> HIDE DEF set
  <2>2. SetsOK(set)
    BY <2>1, OneObject
  <2>3. LinkOK(Link(set, to))
    BY <2>2, PlainLinkOK
  <2> QED BY <2>3 DEF set
<1>2. ASSUME NEW r \in Records, NEW to PROVE LinkOK(Link([none |-> r], to))
  <2> DEFINE set == [none |-> r]
  <2>1. DOMAIN set = {"none"}
    OBVIOUS
  <2> HIDE DEF set
  <2>2. SetsOK(set)
    BY <2>1 DEF SetsOK, ObjectKeys, param_keys
  <2>3. LinkOK(Link(set, to))
    BY <2>2, PlainLinkOK
  <2> QED BY <2>3 DEF set
<1>3. \/ \E r \in Records : l = Link([network |-> Whole(r)], <<"company_network_sensors">>)
      \/ \E r \in Records : l = Link([none |-> r], <<"floormap", r>>)
      \/ \E r \in Records : l = Link([network |-> Whole(r)], <<"company_networks", r>>)
  BY DEF NetworkLinks
<1> QED BY <1>1, <1>2, <1>3

LEMMA AlertLinkOK ==
  ASSUME NEW o \in [id : Named, name : Named], NEW to PROVE LinkOK(Link([alert |-> o], to))
<1> DEFINE set == [alert |-> o]
<1>1. DOMAIN set = {"alert"} /\ set["alert"] \in [id : Named, name : Named]
  OBVIOUS
<1> HIDE DEF set
<1>2. SetsOK(set)
  BY <1>1, OneObject
<1>3. LinkOK(Link(set, to))
  BY <1>2, PlainLinkOK
<1> QED BY <1>3 DEF set

LEMMA AlertLinksOK == ASSUME NEW of, NEW l \in AlertLinks(of) PROVE LinkOK(l)
<1>1. \A r \in Records : Object(NoRecord, r) \in [id : Named, name : Named]
  BY DEF Object, Named
<1>2. \/ \E o \in {Empty} \cup {Object(NoRecord, r) : r \in Records} \cup {Whole(r) : r \in Records} :
           l = Link([alert |-> o], <<"alert_history">>)
      \/ \E r \in Records : l = Link([alert |-> Whole(r)], <<of, r>>)
  BY DEF AlertLinks
<1> QED BY <1>1, <1>2, WholeIsObject, EmptyIsObject, AlertLinkOK

LEMMA HomeLinksOK == ASSUME NEW l \in HomeLinks PROVE LinkOK(l)
<1>1. LinkOK(Link([alert |-> Empty, sensor |-> Empty], <<"alert_history">>))
  <2> DEFINE set == [alert |-> Empty, sensor |-> Empty]
  <2>1. DOMAIN set = {"alert", "sensor"} /\ set["alert"] = Empty /\ set["sensor"] = Empty
    OBVIOUS
  <2> HIDE DEF set
  <2>2. SetsOK(set)
    BY <2>1, EmptyIsObject DEF SetsOK
  <2>3. LinkOK(Link(set, <<"alert_history">>))
    BY <2>2, PlainLinkOK
  <2> QED BY <2>3 DEF set
<1>2. LinkOK(Link([events_log |-> Empty], <<"events_log">>))
  <2> DEFINE set == [events_log |-> Empty]
  <2>1. DOMAIN set = {"events_log"} /\ set["events_log"] = Empty
    OBVIOUS
  <2> HIDE DEF set
  <2>2. SetsOK(set)
    BY <2>1, EmptyIsObject DEF SetsOK
  <2>3. LinkOK(Link(set, <<"events_log">>))
    BY <2>2, PlainLinkOK
  <2> QED BY <2>3 DEF set
<1> QED BY <1>1, <1>2 DEF HomeLinks

LEMMA EditLinksOK ==
  ASSUME NEW of \in DOMAIN Edited, NEW l \in EditLinks(of) PROVE LinkOK(l)
<1>1. PICK r \in Records : l = Link([k \in {Edited[of]} |-> Whole(r)], <<of, r>>)
  BY DEF EditLinks
<1> DEFINE set == [k \in {Edited[of]} |-> Whole(r)]
<1>2. DOMAIN set = {Edited[of]} /\ set[Edited[of]] = Whole(r)
  OBVIOUS
<1>3. Edited[of] # "multiple"
  BY DEF Edited
<1> HIDE DEF set
<1>4. SetsOK(set)
  BY <1>2, <1>3, WholeIsObject, OneObject
<1>5. LinkOK(Link(set, <<of, r>>))
  BY <1>4, PlainLinkOK
<1> QED BY <1>1, <1>5 DEF set

LEMMA EventLinksOK == ASSUME NEW l \in EventLinks PROVE LinkOK(l)
<1>1. "events" \in DOMAIN Edited
  BY DEF Edited
<1>2. l \in EditLinks("events") \/ \E r \in Records : l = Link(<< >>, <<"events", r>>)
  BY DEF EventLinks
<1> QED BY <1>1, <1>2, EditLinksOK, NothingSet

LEMMA CompanyLinksOK == ASSUME NEW l \in CompanyLinks PROVE LinkOK(l)
<1>1. PICK r \in Records : l = Link([global_company |-> Whole(r)], Home)
  BY DEF CompanyLinks
<1> DEFINE set == [global_company |-> Whole(r)]
<1>2. DOMAIN set = {"global_company"} /\ set["global_company"] \in [id : Named, name : Named]
  BY WholeIsObject
<1> HIDE DEF set
<1>3. SetsOK(set)
  BY <1>2, OneObject
<1>4. LinkOK(Link(set, Home))
  BY <1>3, PlainLinkOK
<1> QED BY <1>1, <1>4 DEF set

(* Every link of every list.                                               *)
LEMMA LinksOK == ASSUME NEW url, NEW l \in Links(url) PROVE LinkOK(l)
<1>1. \/ l \in HomeLinks
      \/ l \in MapLinks
      \/ l \in CompanyLinks
      \/ l \in SensorLinks(url[1])
      \/ l \in ByTypeLinks
      \/ l \in EventLinks
      \/ l \in NetworkLinks
      \/ l \in AlertLinks(url[1])
      \/ url[1] \in DOMAIN Edited /\ l \in EditLinks(url[1])
  BY Zenon DEF Links
<1> QED
  BY <1>1, HomeLinksOK, MapLinksOK, CompanyLinksOK, SensorLinksOK, ByTypeLinksOK,
     EventLinksOK, NetworkLinksOK, AlertLinksOK, EditLinksOK

----------------------------------------------------------------------------
LEMMA MovesKeep ==
  ASSUME NavInv, NEW set, NEW to, NEW shows, SetsOK(set), Moves(set, to, shows),
         \A p : (\A k \in param_keys \cap DOMAIN set : p[k] = set[k]) => StillAsked(p, shows)
  PROVE  NavInv'
<1> DEFINE p == set_params(ui.params, set)
<1>1. ui' = [url |-> Lands(to, p), params |-> p, shows |-> shows, moves |-> ui.moves + 1]
  BY DEF Moves
<1>2. ParamsOK(p) /\ StillAsked(p, shows)
  BY SetParams DEF NavInv
<1> HIDE DEF p
<1>3. ui'.params = p /\ ui'.shows = shows /\ DOMAIN ui' = {"url", "params", "shows", "moves"}
  BY <1>1
<1> QED BY <1>2, <1>3 DEF NavInv

LEMMA NavigationStarts == NavigationInit => NavInv
<1> SUFFICES ASSUME NavigationInit PROVE NavInv
  OBVIOUS
<1>1. PICK company \in {Empty} \cup {Whole(r) : r \in Records} :
        ui = [url |-> Home, params |-> [NoParams EXCEPT !.global_company = company],
              shows |-> {}, moves |-> 0]
  BY DEF NavigationInit
<1> DEFINE p == [NoParams EXCEPT !.global_company = company]
<1>2. DOMAIN p = param_keys /\ \A k \in param_keys : p[k] = IF k = "global_company" THEN company ELSE NoParams[k]
  BY DEF NoParams
<1>3. company \in [id : Named, name : Named]
  BY WholeIsObject, EmptyIsObject
<1>4. \A k \in ObjectKeys : NoParams[k] = Empty
  BY DEF NoParams, ObjectKeys
<1>5. NoParams.multiple = FALSE /\ "multiple" \in param_keys /\ ObjectKeys \subseteq param_keys
  BY DEF NoParams, param_keys, ObjectKeys
<1>6. ui.params = p /\ ui.shows = {} /\ DOMAIN ui = {"url", "params", "shows", "moves"}
  BY <1>1
<1> HIDE DEF p
<1>7. ParamsOK(p)
  BY <1>2, <1>3, <1>4, <1>5, EmptyIsObject DEF ParamsOK
<1> QED BY <1>6, <1>7 DEF NavInv, StillAsked

LEMMA NavigationKeeps == NavInv /\ [NavigationNext]_webVars => NavInv'
<1> SUFFICES ASSUME NavInv, [NavigationNext]_webVars PROVE NavInv'
  OBVIOUS
<1>1. CASE Follows
  <2>1. PICK link \in Links(ui.url) : Moves(link.set, link.to, link.shows)
    BY <1>1 DEF Follows
  <2>2. LinkOK(link)
    BY LinksOK
  <2> QED BY <2>1, <2>2, MovesKeep DEF LinkOK
<1>2. ASSUME NEW url \in Places, Visits(url) PROVE NavInv'
  <2>1. SetsOK(<< >>)
    <3>1. DOMAIN << >> = {}
      OBVIOUS
    <3> QED BY <3>1 DEF SetsOK
  <2>2. \A p : StillAsked(p, {})
    BY DEF StillAsked
  <2> QED BY <1>2, <2>1, <2>2, MovesKeep DEF Visits
<1>3. CASE UNCHANGED webVars
  BY <1>3 DEF webVars, NavInv
<1> QED BY <1>1, <1>2, <1>3 DEF NavigationNext

----------------------------------------------------------------------------
(* The pages the trails lead to.                                           *)
LEMMA ListShown ==
  ASSUME NEW p, NEW of \in Listed,
         of \in OfCompany => resolveIfCompany(p),
         of \in OfNetwork => resolveIfNetwork(p),
         of \in OfASensor => resolveIfSensor(p),
         of \in OfType => resolveIfSensorType(p)
  PROVE  PageShown(<<of>>, p) /\ <<of>> \in Routes
<1>1. <<of>> \in Routes
  BY DEF Routes
<1>2. of \notin {"cdash", "floormap", "sensor_chart"}
  BY DEF Listed, Editable
<1>3. Len(<<of>>) = 1 /\ <<of>>[1] = of
  OBVIOUS
<1>4. PageView(<<of>>) = "list"
  BY <1>3 DEF PageView
<1>5. Resolves(<<of>>, p)
  BY <1>2, <1>3, <1>4 DEF Resolves
<1> QED BY <1>1, <1>5 DEF PageShown

LEMMA FormShown ==
  ASSUME NEW p, NEW of \in Editable, NEW v \in Records \cup {"create"},
         of \in {"company_sensors", "sensor_alerts", "sensor_events"} => resolveIfSensor(p),
         of \in NetworkForms => resolveIfNetwork(p),
         of = "company_users" => resolveIfCompany(p)
  PROVE  PageShown(<<of, v>>, p) /\ <<of, v>> \in Routes
<1>1. <<of, v>> \in Routes
  BY DEF Routes
<1>2. Len(<<of, v>>) = 2 /\ <<of, v>>[1] = of
  OBVIOUS
<1>3. PageView(<<of, v>>) # "list"
  BY <1>2 DEF PageView
<1>4. /\ of \notin {"cdash", "floormap", "sensor_chart"} \cup OfType
      /\ of \in OfASensor => of \in {"sensor_alerts", "sensor_events"}
  BY DEF Editable, OfType, OfASensor
<1>5. Resolves(<<of, v>>, p)
  BY <1>2, <1>3, <1>4 DEF Resolves
<1> QED BY <1>1, <1>5 DEF PageShown

(* The addresses that are routed, one by one.                              *)
LEMMA RoutedUrl ==
  ASSUME NEW url \in Routes, url # Home
  PROVE  \/ \E of \in Listed : url = <<of>>
         \/ \E of \in {"sensor_chart", "profile", "sign-up", "recover-password",
                        "reset-password", "verify-email"} : url = <<of>>
         \/ \E of \in {"cdash", "floormap"}, r \in Records : url = <<of, r>>
         \/ \E of \in Editable, v \in Records \cup {"create"} : url = <<of, v>>
BY DEF Routes, customRoutes, Chart

(* What is read in the trails, names aside.                                *)
Texts ==
  {"Home", "Devices", "Networks", "Account", "Create", "create", "Edit", "By-type", "Map",
   "History", "Configure", "Alerts", "Compare", "Graphs", "Export", "Events-log",
   "Users(company)", "Companies", "User-settings", "Users(all)", "Sensor-types",
   "Web-settings"}

(* What a crumb may be above a page that is shown.                         *)
Leads(p) ==
  [label : Texts \cup Named,
   to : {Nowhere} \cup {url \in Routes : PageShown(url, p)}]

LEMMA Leading ==
  ASSUME NEW p, NEW label \in Texts \cup Named, NEW to,
         to = Nowhere \/ (PageShown(to, p) /\ to \in Routes)
  PROVE  Crumb(label, to) \in Leads(p)
BY DEF Leads, Crumb

(* A fixed name that leads nowhere, or to a page that is shown.            *)
LEMMA TextLeads ==
  ASSUME NEW p, NEW label \in Texts, NEW to,
         to = Nowhere \/ (PageShown(to, p) /\ to \in Routes)
  PROVE  Crumb(label, to) \in Leads(p)
<1>1. label \in Texts \cup Named
  OBVIOUS
<1> QED BY <1>1, Leading

LEMMA NamesLead ==
  ASSUME NEW p, ParamsOK(p), NEW key \in ObjectKeys PROVE NameCrumb(p, key) \in Leads(p)
<1>1. p[key].name \in Named
  BY DEF ParamsOK
<1> QED BY <1>1, Leading DEF NameCrumb

LEMMA Fixed ==
  ASSUME NEW p
  PROVE  /\ HomeCrumb \in Leads(p)
         /\ AccountCrumb \in Leads(p)
         /\ resolveIfCompany(p) => DevicesCrumb \in Leads(p) /\ Networks \in Leads(p)
<1>1. Home \in Routes /\ PageShown(Home, p)
  BY DEF Routes, PageShown, Resolves
<1>2. /\ "me" \in Listed /\ "company_sensors" \in Listed /\ "company_networks" \in Listed
      /\ {"me", "company_sensors", "company_networks"} \cap (OfNetwork \cup OfASensor \cup OfType) = {}
      /\ "me" \notin OfCompany
  BY DEF Listed, Editable, OfNetwork, OfASensor, OfType, OfCompany
<1>3. PageShown(<<"me">>, p) /\ <<"me">> \in Routes
  BY <1>2, ListShown
<1>4. resolveIfCompany(p) => /\ PageShown(<<"company_sensors">>, p) /\ <<"company_sensors">> \in Routes
                             /\ PageShown(<<"company_networks">>, p) /\ <<"company_networks">> \in Routes
  BY <1>2, ListShown
<1>5. HomeCrumb \in Leads(p)
  BY <1>1, TextLeads DEF Texts, HomeCrumb
<1>6. AccountCrumb \in Leads(p)
  BY <1>3, TextLeads DEF Texts, AccountCrumb
<1>7. resolveIfCompany(p) => DevicesCrumb \in Leads(p)
  BY <1>4, TextLeads DEF Texts, DevicesCrumb
<1>8. resolveIfCompany(p) => Networks \in Leads(p)
  BY <1>4, TextLeads DEF Texts, Networks
<1> QED BY <1>5, <1>6, <1>7, <1>8

LEMMA SensorLeads ==
  ASSUME NEW p, ParamsOK(p), resolveIfSensor(p) PROVE TheSensor(p) \in Leads(p)
<1>1. "sensor" \in ObjectKeys
  BY DEF ObjectKeys, param_keys
<1>2. p.sensor.id \in Records /\ p.sensor.name \in Named
  BY <1>1 DEF ParamsOK, resolveIfSensor, Named
<1>3. "company_sensors" \in Editable /\ "company_sensors" \notin NetworkForms
  BY DEF Editable, NetworkForms
<1>4. PageShown(<<"company_sensors", p.sensor.id>>, p) /\ <<"company_sensors", p.sensor.id>> \in Routes
  BY <1>2, <1>3, FormShown
<1> QED BY <1>2, <1>4, Leading DEF TheSensor

LEMMA EndLeads ==
  ASSUME NEW url \in Routes, url # Home, NEW p, ParamsOK(p) PROVE url_end(url, p) \in Seq(Leads(p))
<1> DEFINE L == Leads(p)
<1>1. << >> \in Seq(L)
  OBVIOUS
<1>2. /\ <<Crumb("Create", Nowhere)>> \in Seq(L)
      /\ <<Crumb("Edit", Nowhere)>> \in Seq(L)
  <2>1. Crumb("Create", Nowhere) \in L
    BY TextLeads DEF Texts
  <2>2. Crumb("Edit", Nowhere) \in L
    BY TextLeads DEF Texts
  <2> HIDE DEF L
  <2> QED BY <2>1, <2>2
<1>3. \A key \in ObjectKeys : <<NameCrumb(p, key)>> \in Seq(L)
  BY NamesLead
<1>4. {"sensor", "network", "alert", "global_company", "user", "sensor_type", "setting"} \subseteq ObjectKeys
  BY DEF ObjectKeys, param_keys
<1>5. Len(url) # 1 => <<Crumb(url[2], Nowhere)>> \in Seq(L)
  <2> SUFFICES ASSUME Len(url) # 1 PROVE Crumb(url[2], Nowhere) \in L
    OBVIOUS
  <2> SUFFICES url[2] \in Texts \cup Named
    BY Leading
  <2>1. \/ \E of \in {"cdash", "floormap"}, r \in Records : url = <<of, r>>
        \/ \E of \in Editable, v \in Records \cup {"create"} : url = <<of, v>>
    BY RoutedUrl
  <2> QED BY <2>1 DEF Named, Texts
<1> HIDE DEF L
<1>6. url_end(url, p) \in Seq(L)
  BY <1>1, <1>2, <1>3, <1>4, <1>5 DEF url_end
<1> QED BY <1>6 DEF L

(* What a page that is shown has found.                                    *)
LEMMA Found ==
  ASSUME NEW url \in Routes, url # Home, NEW p, ParamsOK(p), Resolves(url, p), ~Unchecked(url, p)
  PROVE  /\ url[1] \in OfASensor \cup {"sensor_chart"} => resolveIfSensor(p)
         /\ url[1] = "sensor_chart" => p.multiple = FALSE
         /\ url[1] \in OfNetwork => resolveIfNetwork(p)
         /\ url[1] \in OfType => resolveIfSensorType(p)
<1>1. url[1] \in OfASensor => resolveIfSensor(p)
  BY DEF Resolves
<1>2. url[1] \in OfType => resolveIfSensorType(p)
  BY DEF Resolves
<1>3. ASSUME url[1] = "sensor_chart" PROVE p.multiple = FALSE /\ resolveIfSensor(p)
  <2>1. url = Chart
    BY <1>3, RoutedUrl DEF Chart, Listed, Editable
  <2>2. p.multiple = FALSE
    BY <2>1 DEF Unchecked, ParamsOK
  <2>3. ChartResolves(p)
    BY <1>3 DEF Resolves
  <2> QED BY <2>2, <2>3 DEF ChartResolves
<1>4. ASSUME url[1] \in OfNetwork PROVE resolveIfNetwork(p)
  <2>1. PageView(url) \in {"list", "create", "edit"}
    BY DEF PageView
  <2>2. CASE PageView(url) = "list"
    BY <1>4, <2>2 DEF Resolves
  <2>3. CASE PageView(url) # "list"
    <3>1. Len(url) # 1
      BY <2>3 DEF PageView
    <3>2. url[1] \in NetworkForms
      <4>1. \/ \E of \in {"cdash", "floormap"}, r \in Records : url = <<of, r>>
            \/ \E of \in Editable, v \in Records \cup {"create"} : url = <<of, v>>
        BY <3>1, RoutedUrl
      <4>2. url[1] \in {"cdash", "floormap"} \cup Editable
        BY <4>1
      <4> QED BY <1>4, <4>2 DEF OfNetwork, NetworkForms, Editable
    <3>3. PageView(url) = "edit"
      BY <2>1, <2>3, <3>2 DEF Unchecked
    <3> QED BY <3>2, <3>3 DEF Resolves
  <2> QED BY <2>2, <2>3
<1> QED BY <1>1, <1>2, <1>3, <1>4

(* A crumb that leads to a list.                                           *)
LEMMA ListLeads ==
  ASSUME NEW p, NEW label \in Texts, NEW of \in Listed,
         of \in OfCompany => resolveIfCompany(p),
         of \in OfNetwork => resolveIfNetwork(p),
         of \in OfASensor => resolveIfSensor(p),
         of \in OfType => resolveIfSensorType(p)
  PROVE  Crumb(label, <<of>>) \in Leads(p)
BY ListShown, TextLeads

----------------------------------------------------------------------------
(* The trails, family by family, above a page that is shown.               *)
Above(url, p) ==
  /\ url \in Routes /\ url # Home /\ ParamsOK(p) /\ Resolves(url, p)
  /\ resolveIfCompany(p) /\ ~Unchecked(url, p)

LEMMA DevicesTrail ==
  ASSUME NEW url, NEW p, Above(url, p),
         url[1] \in {"company_sensors", "sensors_map", "company_sensors_by_type", "sensors_type_map"}
  PROVE  OfDevices(url, p) \in Seq(Leads(p))
<1> DEFINE L == Leads(p)
           ByType == Crumb("By-type", <<"company_sensors_by_type">>)
           Map == Crumb("Map", <<"sensors_map">>)
           MapByType == Crumb("Map", <<"company_sensors_by_type">>)
<1>1. DevicesCrumb \in L
  BY Fixed DEF Above
<1>2. Map \in L
  BY ListLeads DEF Above, Listed, OfNetwork, OfASensor, OfType, Texts
<1>3. url[1] \in OfType => ByType \in L /\ MapByType \in L
  <2> SUFFICES ASSUME url[1] \in OfType PROVE ByType \in L /\ MapByType \in L
    OBVIOUS
  <2>1. resolveIfSensorType(p)
    BY Found DEF Above
  <2> QED BY <2>1, ListLeads DEF Listed, OfNetwork, OfASensor, OfCompany, Texts
<1>4. url_end(url, p) \in Seq(L)
  BY EndLeads DEF Above
<1>5. /\ "company_sensors_by_type" \in OfType /\ "sensors_type_map" \in OfType
  BY DEF OfType
<1>6. OfDevices(url, p) =
        CASE url[1] = "company_sensors" -> <<DevicesCrumb>> \o url_end(url, p)
          [] url[1] = "sensors_map" -> <<DevicesCrumb, Map>>
          [] url[1] = "company_sensors_by_type" -> <<DevicesCrumb, ByType>>
          [] url[1] = "sensors_type_map" -> <<DevicesCrumb, ByType, MapByType>>
  BY Zenon DEF OfDevices
<1> HIDE DEF L, ByType, Map, MapByType
<1>7. OfDevices(url, p) \in Seq(L)
  BY <1>1, <1>2, <1>3, <1>4, <1>5, <1>6
<1> QED BY <1>7 DEF L

LEMMA DeviceTrail ==
  ASSUME NEW url, NEW p, Above(url, p),
         url[1] \in (OfASensor \ {"sensor_events"}) \cup {"sensor_chart"}
  PROVE  OfDevice(url, p) \in Seq(Leads(p))
<1> DEFINE L == Leads(p)
           History == Crumb("History", <<"sensor_history">>)
           Configure == Crumb("Configure", <<"sensor_configuration">>)
           Alerts == Crumb("Alerts", <<"sensor_alerts">>)
           Graphs == Crumb("Graphs", Chart)
           Export == Crumb("Export", <<"sensor_export">>)
<1>1. DevicesCrumb \in L
  BY Fixed DEF Above
<1>2. resolveIfSensor(p) /\ (url[1] = "sensor_chart" => p.multiple = FALSE)
  BY Found DEF Above
<1>3. TheSensor(p) \in L
  BY <1>2, SensorLeads DEF Above
<1>4. History \in L /\ Configure \in L /\ Alerts \in L /\ Export \in L
  <2>1. \A of \in OfASensor : of \in Listed /\ of \notin OfCompany \cup OfNetwork \cup OfType
    BY DEF OfASensor, Listed, Editable, OfCompany, OfNetwork, OfType
  <2>2. {"sensor_history", "sensor_configuration", "sensor_alerts", "sensor_export"} \subseteq OfASensor
    BY DEF OfASensor
  <2>3. {"History", "Configure", "Alerts", "Export"} \subseteq Texts
    BY DEF Texts
  <2> QED BY <1>2, <2>1, <2>2, <2>3, ListLeads
<1>5. url[1] = "sensor_chart" => Graphs \in L
  <2> SUFFICES ASSUME url[1] = "sensor_chart" PROVE Graphs \in L
    OBVIOUS
  <2>1. url = Chart
    BY RoutedUrl DEF Above, Chart, Listed, Editable
  <2>2. Chart \in Routes /\ PageShown(Chart, p)
    BY <2>1 DEF Above, PageShown
  <2> QED BY <2>2, TextLeads DEF Texts
<1>6. url_end(url, p) \in Seq(L)
  BY EndLeads DEF Above
<1>7. url[1] \in {"sensor_configuration", "sensor_alerts", "sensor_history", "sensor_chart", "sensor_export"}
  BY DEF OfASensor
<1>8. OfDevice(url, p) =
        CASE url[1] = "sensor_configuration" -> <<DevicesCrumb, TheSensor(p), Configure>>
          [] url[1] = "sensor_alerts" -> <<DevicesCrumb, TheSensor(p), Alerts>> \o url_end(url, p)
          [] url[1] = "sensor_history" -> <<DevicesCrumb, TheSensor(p), History>>
          [] url[1] = "sensor_chart" ->
               <<DevicesCrumb, IF p.multiple THEN Crumb("Compare", Nowhere) ELSE TheSensor(p),
                 History, Graphs>>
          [] url[1] = "sensor_export" -> <<DevicesCrumb, TheSensor(p), History, Export>>
  BY Zenon DEF OfDevice
<1> HIDE DEF L, History, Configure, Alerts, Graphs, Export
<1>9. OfDevice(url, p) \in Seq(L)
  BY <1>1, <1>2, <1>3, <1>4, <1>5, <1>6, <1>7, <1>8
<1> QED BY <1>9 DEF L

LEMMA NetworkTrail ==
  ASSUME NEW url, NEW p, Above(url, p), url[1] \in OfNetwork \cup {"company_networks"}
  PROVE  OfANetwork(url, p) \in Seq(Leads(p))
<1> DEFINE L == Leads(p)
           Members == Crumb("Devices", <<"company_network_sensors">>)
           Map == Crumb("Map", <<"network_sensors_map">>)
           TheNetwork == Crumb(p.network.name, <<"company_networks", p.network.id>>)
           Alerts == Crumb("Alerts", <<"company_network_alerts">>)
<1>1. Networks \in L
  BY Fixed DEF Above
<1>2. "network" \in ObjectKeys
  BY DEF ObjectKeys, param_keys
<1>3. NameCrumb(p, "network") \in L
  BY <1>2, NamesLead DEF Above
<1>4. url[1] \in OfNetwork => Members \in L /\ Map \in L /\ Alerts \in L /\ TheNetwork \in L
  <2> SUFFICES ASSUME url[1] \in OfNetwork
               PROVE  Members \in L /\ Map \in L /\ Alerts \in L /\ TheNetwork \in L
    OBVIOUS
  <2>1. resolveIfNetwork(p)
    BY Found DEF Above
  <2>2. \A of \in OfNetwork : of \in Listed /\ of \notin OfCompany \cup OfASensor \cup OfType
    BY DEF OfASensor, Listed, Editable, OfCompany, OfNetwork, OfType
  <2>3. /\ {"company_network_sensors", "network_sensors_map", "company_network_alerts"} \subseteq OfNetwork
        /\ {"Devices", "Map", "Alerts"} \subseteq Texts
    BY DEF OfNetwork, Texts
  <2>4. Members \in L /\ Map \in L /\ Alerts \in L
    BY <2>1, <2>2, <2>3, ListLeads
  <2>5. p.network.id \in Records /\ p.network.name \in Named
    BY <1>2, <2>1 DEF Above, ParamsOK, resolveIfNetwork, Named
  <2>6. /\ PageShown(<<"company_networks", p.network.id>>, p)
        /\ <<"company_networks", p.network.id>> \in Routes
    BY <2>5, FormShown DEF Editable, NetworkForms
  <2>7. TheNetwork \in L
    BY <2>5, <2>6, Leading
  <2> QED BY <2>4, <2>7
<1>5. url_end(url, p) \in Seq(L)
  BY EndLeads DEF Above
<1>6. /\ url[1] # "company_networks" => url[1] \in OfNetwork
      /\ url[1] \in {"company_networks", "company_network_sensors", "network_sensors_map",
                    "company_network_alerts"}
  BY DEF OfNetwork
<1>7. OfANetwork(url, p) =
        CASE url[1] = "company_networks" -> <<Networks>> \o url_end(url, p)
          [] url[1] = "company_network_sensors" ->
               <<Networks, NameCrumb(p, "network"), Members>> \o url_end(url, p)
          [] url[1] = "network_sensors_map" -> <<Networks, Members, Map>>
          [] url[1] = "company_network_alerts" -> <<Networks, TheNetwork, Alerts>> \o url_end(url, p)
  BY Zenon DEF OfANetwork
<1> HIDE DEF L, Members, Map, TheNetwork, Alerts
<1>8. OfANetwork(url, p) \in Seq(L)
  BY <1>1, <1>3, <1>4, <1>5, <1>6, <1>7
<1> QED BY <1>8 DEF L

LEMMA CompanyTrail ==
  ASSUME NEW url, NEW p, Above(url, p),
         url[1] \in {"events_log", "company_alerts", "alert_history", "company_users", "companies"}
  PROVE  OfTheCompany(url, p) \in Seq(Leads(p))
<1> DEFINE L == Leads(p)
           Alerts == Crumb("Alerts", <<"company_alerts">>)
           Log == Crumb("Events-log", <<"events_log">>)
           History == Crumb("History", <<"alert_history">>)
           Users == Crumb("Users(company)", <<"company_users">>)
           TheCompanies == Crumb("Companies", <<"companies">>)
<1>1. /\ {"company_alerts", "events_log", "alert_history", "company_users", "companies"} \subseteq Listed
      /\ {"company_alerts", "events_log", "alert_history", "company_users", "companies"}
           \cap (OfASensor \cup OfNetwork \cup OfType) = {}
  BY DEF Listed, Editable, OfASensor, OfNetwork, OfType
<1>2. {"Alerts", "Events-log", "History", "Users(company)", "Companies"} \subseteq Texts
  BY DEF Texts
<1>3. Alerts \in L /\ Log \in L /\ History \in L /\ Users \in L /\ TheCompanies \in L
  BY <1>1, <1>2, ListLeads DEF Above
<1>4. NameCrumb(p, "global_company") \in L
  BY NamesLead DEF Above, ObjectKeys, param_keys
<1>5. url_end(url, p) \in Seq(L)
  BY EndLeads DEF Above
<1>6. OfTheCompany(url, p) =
        CASE url[1] = "events_log" -> <<Log, NameCrumb(p, "global_company")>>
          [] url[1] = "company_alerts" -> <<Alerts>> \o url_end(url, p)
          [] url[1] = "alert_history" -> <<Alerts, History>>
          [] url[1] = "company_users" -> <<Users>> \o url_end(url, p)
          [] url[1] = "companies" -> <<TheCompanies>> \o url_end(url, p)
  BY Zenon DEF OfTheCompany
<1> HIDE DEF L, Alerts, Log, History, Users, TheCompanies
<1>7. OfTheCompany(url, p) \in Seq(L)
  BY <1>3, <1>4, <1>5, <1>6
<1> QED BY <1>7 DEF L

LEMMA AccountTrail ==
  ASSUME NEW url, NEW p, Above(url, p),
         url[1] \in {"me", "my_meta_data", "users", "sensor_types", "settings"}
  PROVE  OfAccount(url, p) \in Seq(Leads(p))
<1> DEFINE L == Leads(p)
           Edit == IF Len(url) = 1 THEN << >> ELSE <<Crumb("Edit", <<url[1], "create">>)>>
           Mine == Crumb("User-settings", <<"my_meta_data">>)
           All == Crumb("Users(all)", <<"users">>)
           SensorTypes == Crumb("Sensor-types", <<"sensor_types">>)
           Settings == Crumb("Web-settings", <<"settings">>)
<1>1. /\ {"me", "my_meta_data", "users", "sensor_types", "settings"} \subseteq Listed \cap Editable
      /\ {"me", "my_meta_data", "users", "sensor_types", "settings"}
           \cap (OfASensor \cup OfNetwork \cup OfType \cup OfCompany) = {}
  BY DEF Listed, Editable, OfASensor, OfNetwork, OfType, OfCompany
<1>2. {"User-settings", "Users(all)", "Sensor-types", "Web-settings", "Edit"} \subseteq Texts
  BY DEF Texts
<1>3. Mine \in L /\ All \in L /\ SensorTypes \in L /\ Settings \in L /\ AccountCrumb \in L
  BY <1>1, <1>2, ListLeads, Fixed
<1>4. Edit \in Seq(L)
  <2>1. PageShown(<<url[1], "create">>, p) /\ <<url[1], "create">> \in Routes
    BY <1>1, FormShown DEF NetworkForms
  <2>2. Crumb("Edit", <<url[1], "create">>) \in L
    BY <1>2, <2>1, TextLeads
  <2> HIDE DEF L
  <2> QED BY <2>2
<1>5. url_end(url, p) \in Seq(L)
  BY EndLeads DEF Above
<1>6. OfAccount(url, p) =
        CASE url[1] = "me" -> <<AccountCrumb>> \o Edit
          [] url[1] = "my_meta_data" -> <<AccountCrumb, Mine>> \o Edit
          [] url[1] = "users" -> <<All>> \o url_end(url, p)
          [] url[1] = "sensor_types" -> <<SensorTypes>> \o url_end(url, p)
          [] url[1] = "settings" -> <<Settings>> \o url_end(url, p)
  BY Zenon DEF OfAccount
<1> HIDE DEF L, Edit, Mine, All, SensorTypes, Settings
<1>7. OfAccount(url, p) \in Seq(L)
  BY <1>3, <1>4, <1>5, <1>6
<1> QED BY <1>7 DEF L

(* The whole trail.                                                        *)
LEMMA TrailsLead ==
  ASSUME NEW url, NEW p, Above(url, p) PROVE build_breadcrumbs(url, p) \in Seq(Leads(p))
<1> DEFINE L == Leads(p)
<1>1. HomeCrumb \in L
  BY Fixed
<1>2. \A t \in Seq(L) : <<HomeCrumb>> \o t \in Seq(L)
  <2> HIDE DEF L
  <2> QED BY <1>1
<1>3. << >> \in Seq(L)
  OBVIOUS
<1>4. \/ \E t \in Seq(L) : build_breadcrumbs(url, p) = <<HomeCrumb>> \o t
      \/ build_breadcrumbs(url, p) = << >>
  BY DevicesTrail, DeviceTrail, NetworkTrail, CompanyTrail, AccountTrail, Zenon
     DEF build_breadcrumbs
<1> HIDE DEF L
<1>5. build_breadcrumbs(url, p) \in Seq(L)
  BY <1>2, <1>3, <1>4
<1> QED BY <1>5 DEF L

LEMMA TrailHolds == NavInv => TrailLeads
<1> SUFFICES ASSUME NavInv, ui.url # Home, PageShown(ui.url, ui.params),
                    resolveIfCompany(ui.params), ~Unchecked(ui.url, ui.params)
             PROVE  \A crumb \in ToSet(build_breadcrumbs(ui.url, ui.params)) :
                      crumb.to = Nowhere \/ PageShown(crumb.to, ui.params)
  BY DEF TrailLeads
<1>1. Above(ui.url, ui.params)
  BY DEF Above, PageShown, NavInv
<1> DEFINE trail == build_breadcrumbs(ui.url, ui.params)
<1>2. trail \in Seq(Leads(ui.params))
  BY <1>1, TrailsLead
<1> HIDE DEF trail
<1>3. ToSet(trail) \subseteq Leads(ui.params)
  BY <1>2 DEF ToSet
<1>4. \A crumb \in ToSet(trail) : crumb.to = Nowhere \/ PageShown(crumb.to, ui.params)
  BY <1>3 DEF Leads
<1> QED BY <1>4 DEF trail

LEMMA ThirdIsThere ==
  ASSUME NEW a, NEW b, NEW c, NEW d, NEW e PROVE c \in ToSet(<<a>> \o <<b, c, d, e>>)
<1> DEFINE S == {a, b, c, d, e}
           s == <<a>>
           t == <<b, c, d, e>>
<1>1. s \in Seq(S) /\ t \in Seq(S) /\ Len(s) = 1 /\ Len(t) = 4 /\ t[2] = c
  OBVIOUS
<1> HIDE DEF S, s, t
<1>2. s \o t \in Seq(S) /\ Len(s \o t) = Len(s) + Len(t)
  BY <1>1, ConcatProperties
<1> DEFINE u == s \o t
<1>3. \A i \in 1..Len(s) + Len(t) : u[i] = IF i <= Len(s) THEN s[i] ELSE t[i - Len(s)]
  BY <1>1, ConcatProperties, Zenon
<1> HIDE DEF u
<1>4. u[3] = c
  BY <1>1, <1>3
<1>5. c \in ToSet(s \o t)
  BY <1>1, <1>2, <1>4 DEF ToSet, u
<1> QED BY <1>5 DEF s, t

(* The chart is of the sensors it was asked for, and the trail says so.    *)
LEMMA AskedHolds == NavInv => AskedIsShown
<1> SUFFICES ASSUME NavInv, ui.url = Chart, ui.shows # {}
             PROVE  /\ Charted(ui.params) = ui.shows
                    /\ (IF Cardinality(ui.shows) = 1 THEN ui.shows ELSE {"Compare"})
                         \subseteq Labels(build_breadcrumbs(ui.url, ui.params))
  BY DEF AskedIsShown
<1> DEFINE p == ui.params
           who == IF p.multiple THEN Crumb("Compare", Nowhere) ELSE TheSensor(p)
           trail == <<HomeCrumb>> \o <<DevicesCrumb, who, Crumb("History", <<"sensor_history">>),
                                       Crumb("Graphs", Chart)>>
<1>1. build_breadcrumbs(ui.url, p) = trail
  <2>1. Chart # Home /\ Chart[1] = "sensor_chart"
    BY DEF Chart, Home
  <2>2. /\ "sensor_chart" \notin {"company_sensors", "sensors_map", "company_sensors_by_type",
                                 "sensors_type_map"}
        /\ "sensor_chart" \in (OfASensor \ {"sensor_events"}) \cup {"sensor_chart"}
    OBVIOUS
  <2>3. build_breadcrumbs(Chart, p) = <<HomeCrumb>> \o OfDevice(Chart, p)
    BY <2>1, <2>2, Zenon DEF build_breadcrumbs
  <2>4. OfDevice(Chart, p) =
          <<DevicesCrumb, who, Crumb("History", <<"sensor_history">>), Crumb("Graphs", Chart)>>
    BY <2>1 DEF OfDevice
  <2> QED BY <2>3, <2>4
<1>2. who \in ToSet(trail)
  BY ThirdIsThere
<1>3. who.label \in Labels(build_breadcrumbs(ui.url, p))
  BY <1>1, <1>2 DEF Labels
<1>4. CASE \E r \in Records : ui.shows = {r} /\ p.sensor = Whole(r) /\ p.multiple = FALSE
  <2>1. PICK r \in Records : ui.shows = {r} /\ p.sensor = Whole(r) /\ p.multiple = FALSE
    BY <1>4
  <2>2. p.sensor.id = r /\ p.sensor.name = r
    BY <2>1 DEF Whole, Object
  <2>3. who.label = r
    BY <2>1, <2>2 DEF TheSensor, Crumb
  <2>4. Cardinality({r}) = 1
    BY FS_Singleton
  <2> QED BY <1>3, <2>1, <2>2, <2>3, <2>4 DEF Charted
<1>5. CASE Cardinality(ui.shows) >= 2 /\ p.sensors = ui.shows /\ p.multiple = TRUE
  <2>1. who.label = "Compare"
    BY <1>5 DEF Crumb
  <2>2. Cardinality(ui.shows) # 1
    BY <1>5
  <2> QED BY <1>3, <1>5, <2>1, <2>2 DEF Charted
<1> QED BY <1>4, <1>5 DEF NavInv, StillAsked

(* For any records, places to visit and number of moves: a link of a list  *)
(* shows what it names, and the trail above a page tells where it is and   *)
(* leads back, whatever was compared, chosen and switched before.          *)
THEOREM PlaceIsToldHolds == NavigationSpec => []PlaceIsTold
<1>1. NavInv => PlaceIsTold
  BY AskedHolds, TrailHolds DEF PlaceIsTold
<1> QED BY <1>1, NavigationStarts, NavigationKeeps, PTL DEF NavigationSpec
===============================================================================
