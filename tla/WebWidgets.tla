----------------------------- MODULE WebWidgets -----------------------------
(***************************************************************************)
(* One widget of a dashboard in view: which view its data and its sensor   *)
(* allow (WidgetCustomDashboard.jsx), and the local state of the views     *)
(* that have any: the graph with its periods, the toggle, the slider and   *)
(* the widget whose body the user wrote.                                   *)
(***************************************************************************)
EXTENDS WebCore

CONSTANTS
  Periods,   \* the days the buttons of a graph ask for
  Positions, \* values of a configuration field
  Bodies     \* bodies a user writes for a widget: "", "good", "bad"

ASSUME WidgetAssumption ==
  Periods \subseteq Nat /\ Positions \subseteq Nat /\ 0 \in Positions

(***************************************************************************)
(* Which view.                                                             *)
(***************************************************************************)
\* A widget: its type and which of its fields are given.  The map's two
\* coordinates are parameters of the sensor or constants.
RenderingPossible(w) ==
  CASE w.type \in {"slider", "toggle"} -> w.config
    [] w.type = "map" -> w.latlng
    [] OTHER -> w.param

\* A toggle needs a field with two options, one of which is 0.
Togglable(field) ==
  /\ field.type = "select"
  /\ Len(field.options) = 2
  /\ \E k \in 1..2 : field.options[k] = 0

Slidable(field) == field.type \in {"int(text)", "decimal(text)"}

View(w, registered, field, menu) ==
  IF ~RenderingPossible(w) THEN (IF menu THEN "Configure" ELSE "configure sensor, first")
  ELSE IF ~registered THEN "No sensor or live-updates found"
  ELSE IF w.type = "toggle" /\ ~Togglable(field) THEN "Toggling is not an option"
  ELSE IF w.type = "slider" /\ ~Slidable(field) THEN "Sliding is not an option"
  ELSE w.type

\* What the switch writes for "on" and "off": the first option that is not 0,
\* the first that is.
ToggleValue(options, to) ==
  options[CHOOSE k \in DOMAIN options :
            /\ (options[k] # 0) = to
            /\ \A j \in 1..(k - 1) : (options[j] # 0) # to]

\* The text of a value: rounded, or "n/v" for none, which counts as true when
\* a label is chosen for it.
TextShown(value, labelTrue, labelFalse) ==
  LET none == value = "none"
      truthy == none \/ value # 0
  IN IF truthy /\ labelTrue THEN "labelTrue"
     ELSE IF ~truthy /\ labelFalse THEN "labelFalse"
     ELSE IF none THEN "n/v" ELSE "value"

\* A file's name becomes the address of the sensor's file, once.
ImageSource(isAddress) == IF isAddress THEN "value" ELSE "sensor's file"

\* The gauge's point is drawn again only when it differs.
GaugeRedraws(new, old) == new # old

(***************************************************************************)
(* The mounted widget: the state of every kind of view in one record.      *)
(***************************************************************************)
Undefined == -1
OrUndefined(n) == IF n = 0 THEN Undefined ELSE n \* parseInt(n, 10) || undefined

WidgetData == [type : {"graph", "toggle", "slider", "custom", "text"},
               config : BOOLEAN, param : BOOLEAN, latlng : {FALSE}]

Fields == {[type |-> "select", options |-> <<0, 1>>],
           [type |-> "select", options |-> <<1, 2>>],
           [type |-> "int(text)", options |-> << >>]}

WidgetUi(w, field, now) ==
  [view |-> View(w, TRUE, field, FALSE), options |-> field.options, menu |-> FALSE,
   period |-> 0, chart |-> 0, crossed |-> FALSE, \* the graph; 0 is "live"
   loading |-> FALSE, currently |-> now,         \* toggle and slider
   at |-> IF w.type = "slider" THEN OrUndefined(now) ELSE now,
   body |-> "", maker |-> "", failed |-> FALSE]

WidgetInit ==
  /\ page = "Widget" /\ net = {} /\ sent = 0 /\ srv = [config |-> 0]
  /\ \E w \in WidgetData, f \in Fields : ui = WidgetUi(w, f, srv.config)

Is(view) == page = "Widget" /\ ui.view = view

Asks(what, value, before) == [what |-> what, value |-> value, before |-> before]

(***************************************************************************)
(* The graph.  The button of the period shown is disabled; nothing else is *)
(* while the history is on its way.                                        *)
(***************************************************************************)
clickHandler(days) ==
  /\ Is("graph") /\ ~ui.menu /\ days # ui.period
  /\ Send(Asks("history", days, ui.period))
  /\ ui' = [ui EXCEPT !.period = days, !.crossed = @ \/ net # {}]
  /\ UNCHANGED <<page, srv>>

MutantHistoryAnswered(r, ok) ==
  /\ Is("graph") /\ Settle(r, ok)
  /\ ui' = IF ok THEN [ui EXCEPT !.chart = r.call.value] ELSE ui
  /\ UNCHANGED <<page, srv>>

\* A failure presses the button again that was pressed before this click.
HistoryAnswered(r, ok) ==
  /\ Is("graph") /\ Settle(r, ok)
  /\ ui' = IF ok THEN [ui EXCEPT !.chart = r.call.value]
                 ELSE [ui EXCEPT !.period = r.call.before]
  /\ UNCHANGED <<page, srv>>

\* New props: live data is drawn while the view is live, and always, as a new
\* chart, in the dashboard's edit mode, which hides the buttons.
GraphReceivesProps ==
  /\ Is("graph")
  /\ LET drawn == ui.menu \/ ui.period = 0 IN
     ui' = [ui EXCEPT !.chart = IF drawn THEN 0 ELSE @,
                      !.crossed = @ \/ (drawn /\ net # {})]
  /\ UNCHANGED <<page, sent, net, srv>>

\* The dashboard enters its edit mode; leaving it mounts the widget anew.
EditModeStarts ==
  /\ page = "Widget" /\ ~ui.menu
  /\ ui' = [ui EXCEPT !.menu = TRUE, !.chart = 0]
  /\ UNCHANGED <<page, sent, net, srv>>

(***************************************************************************)
(* The toggle and the slider: both write a configuration and take the      *)
(* value their props bring at every render of the dashboard.               *)
(***************************************************************************)
onToggle ==
  /\ Is("toggle") /\ ~ui.loading /\ ~ui.menu
  /\ LET to == ui.at = 0 IN
     /\ Send(Asks("setConfig", ToggleValue(ui.options, to), IF to THEN 1 ELSE 0))
     /\ ui' = [ui EXCEPT !.loading = TRUE]
  /\ UNCHANGED <<page, srv>>

Drag(value) ==
  /\ Is("slider") /\ ~ui.loading /\ ~ui.menu /\ value # ui.at
  /\ ui' = [ui EXCEPT !.at = value]
  /\ UNCHANGED <<page, sent, net, srv>>

\* The end of the drag sends where the slider is now.
DragStop ==
  /\ Is("slider") /\ ~ui.loading /\ ~ui.menu
  /\ Send(Asks("setConfig", ui.at, 0))
  /\ ui' = [ui EXCEPT !.loading = TRUE]
  /\ UNCHANGED <<page, srv>>

ConfigAnswered(r, ok) ==
  /\ Is("toggle") \/ Is("slider")
  /\ Settle(r, ok)
  /\ ui' = [ui EXCEPT
              !.loading = FALSE,
              !.at = CASE Is("toggle") /\ ok -> r.call.before
                       [] Is("slider") /\ ~ok -> OrUndefined(ui.currently)
                       [] OTHER -> @]
  /\ UNCHANGED <<page, srv>>

\* The live configuration, or the old one with a render of the dashboard.
ConfigReceivesProps ==
  /\ Is("toggle") \/ Is("slider")
  /\ \E now \in {ui.currently, srv.config} :
       ui' = [ui EXCEPT
                !.currently = now,
                !.at = IF Is("slider") THEN now ELSE IF now = 0 THEN 0 ELSE 1]
  /\ UNCHANGED <<page, sent, net, srv>>

(***************************************************************************)
(* The widget whose body the user wrote.                                   *)
(***************************************************************************)
\* A body that cannot be compiled, or none, sets the error and leaves what was
\* compiled before.
make_custom_widget_maker(body) ==
  IF body \in {"", "bad"} THEN [ui EXCEPT !.body = body, !.failed = TRUE]
  ELSE [ui EXCEPT !.body = body, !.maker = body]

BodyChanges ==
  /\ Is("custom")
  /\ \E body \in Bodies \ {ui.body} : ui' = make_custom_widget_maker(body)
  /\ UNCHANGED <<page, sent, net, srv>>

\* What was compiled wins over the error.
CustomShown(s) == IF s.maker # "" THEN "result" ELSE IF s.failed THEN "error" ELSE "...Loading"

WidgetServes(r) ==
  page = "Widget" /\
  Serve(r, IF r.call.what = "setConfig" THEN [srv EXCEPT !.config = r.call.value] ELSE srv)

WidgetNext ==
  \/ \E days \in Periods \cup {0} : clickHandler(days)
  \/ GraphReceivesProps \/ EditModeStarts \/ onToggle
  \/ \E value \in Positions : Drag(value)
  \/ DragStop \/ ConfigReceivesProps \/ BodyChanges
  \/ \E r \in net :
       \/ WidgetServes(r)
       \/ \E ok \in BOOLEAN : HistoryAnswered(r, ok) \/ ConfigAnswered(r, ok)

(***************************************************************************)
(* Properties.                                                             *)
(***************************************************************************)
\* A graph in view draws the period of its disabled button, failed loads
\* included, as long as nothing crossed a load under way: two loads are taken
\* in the order of their answers, and a failed return to "live" leaves the
\* live values drawn meanwhile under the button of the old period.
DrawnIsPressed ==
  (Is("graph") /\ ~ui.menu /\ ~ui.crossed /\ net = {}) => ui.chart = ui.period
=============================================================================
