---------------------------- MODULE WebDashboard ----------------------------
(***************************************************************************)
(* A user's dashboard (custom_dashboard/CustomDashboard.jsx) with the      *)
(* dialog that configures a widget (EditWidgetCustomDashboard.jsx): the    *)
(* load when it is mounted, the edit mode, the widgets and their saved     *)
(* copies, the layouts, the registry of sensors and the MQTT clients that  *)
(* keep it up to date.                                                     *)
(***************************************************************************)
EXTENDS WebCore, SequencesExt

CONSTANTS
  Sensors,   \* the company's sensors
  PageSensor, \* the sensor of a sensor's dashboard
  NoSensor,  \* the sensor of a widget that has none yet
  Kinds,     \* the widget types offered
  WidgetIds, \* the ids the server can give to widgets
  MaxEdits,  \* changes of a widget's fields
  MaxTimers  \* resizes whose two seconds run at once

ASSUME DashAssumption ==
  /\ NoSensor \notin Sensors /\ PageSensor \in Sensors
  /\ {"text", "toggle"} \subseteq Kinds
  /\ {MaxEdits, MaxTimers} \subseteq Nat

(***************************************************************************)
(* Layouts: for each breakpoint the places of the widgets on a grid.       *)
(***************************************************************************)
Columns == [lg |-> 12, md |-> 10, sm |-> 6, xs |-> 4, xxs |-> 2]
Wide == [lg |-> 2, md |-> 2, sm |-> 3, xs |-> 2, xxs |-> 2]
High == 2

Unmade == [b \in {} |-> << >>] \* the {} a layout starts as

make_layouts(widgets) ==
  [b \in DOMAIN Columns |->
    [k \in DOMAIN widgets |->
      [i |-> widgets[k].id,
       x |-> ((k - 1) * Wide[b]) % Columns[b],
       y |-> (((k - 1) * Wide[b]) \div Columns[b]) * High]]]

Past(used, step) == IF used = {} THEN 0 ELSE Max(used) + step

\* The column after the last one used, or the first; below every row in use.
add_layout(layouts, id) ==
  [b \in DOMAIN Columns |->
    LET x == Past({p.x : p \in ToSet(layouts[b])}, Wide[b]) IN
    Append(layouts[b],
           [i |-> id,
            x |-> IF x >= Columns[b] THEN 0 ELSE x,
            y |-> Past({p.y : p \in ToSet(layouts[b])}, High)])]

(***************************************************************************)
(* Widgets, the registry of sensors and the live clients.                  *)
(***************************************************************************)
\* getWidgetTemplate(); filled: a parameter or one of the options is given.
Widget(id) == [id |-> id, type |-> "text", sensor |-> NoSensor, filled |-> FALSE]

Filter(type) == IF type \in {"slider", "toggle"} THEN "configuration" ELSE "values"

\* Where the sensor s is found in the registry.
Registered(registry, s) == {k \in DOMAIN registry : registry[k] = s}

\* The pairs startLiveUpdates is called for.
Wanted(widgets) ==
  {[sensor |-> IF srv.sensorPage THEN srv.pageSensor ELSE w.sensor,
    filter |-> Filter(w.type)] :
     w \in {v \in ToSet(widgets) : srv.sensorPage \/ v.sensor # NoSensor}}

\* this.mqtt_clients afterwards: a pair that has a client keeps it.
startLiveUpdates(widgets) == ui.live \cup Wanted(widgets)

isSensorChanged(new, old) == new.sensor # NoSensor /\ new.sensor # old.sensor

(***************************************************************************)
(* The mounted page.                                                       *)
(***************************************************************************)
LoadSteps ==
  IF srv.sensorPage
  THEN <<"dashboard", "type", "sensor", "history", "widgets", "sensor_types">>
  ELSE <<"widgets", "sensors", "sensor_types", "dashboard">>

Loading == ui.stage \in DOMAIN LoadSteps
Loaded == ui.stage > Len(LoadSteps)

\* putBack, a history variable: the widgets the answer of an add has put back,
\* none of them shown then, since the live updates were last started.
DashUi ==
  [mounted |-> TRUE, stage |-> 1,
   fetched |-> [widgets |-> << >>, layouts |-> << >>],
   error |-> FALSE, loading |-> TRUE, edit |-> FALSE,
   widgets |-> << >>, backup |-> << >>, configuring |-> {},
   step |-> 0, found |-> FALSE,
   sensors |-> << >>, layouts |-> Unmade, live |-> {}, putBack |-> {},
   timers |-> 0, edits |-> 0]

\* The error replaces the page for good: what else the state holds is not seen.
ErrorPage == [DashUi EXCEPT !.error = TRUE, !.loading = FALSE, !.stage = 0]

\* The dashboards the server may hold: one configured widget or none, with a
\* saved layout, without one, or with the {} an early Save has written.
\* given: the ids of widgets there ever were; none is given twice.
Configured(type, s) ==
  [Widget(Min(WidgetIds)) EXCEPT !.type = type, !.sensor = s, !.filled = TRUE]

WidgetsKept ==
  {<< >>} \cup {<<Configured(t, s)>> : t \in Kinds, s \in {PageSensor, NoSensor}}

DashServers ==
  [widgets : WidgetsKept,
   given : SUBSET WidgetIds, layouts : {<< >>, <<Unmade>>},
   sensorPage : BOOLEAN, pageSensor : {PageSensor},
   rightType : BOOLEAN, readOnly : BOOLEAN]

DashInit ==
  /\ page = "CustomDashboard"
  /\ ui = DashUi
  /\ net = {} /\ sent = 0
  /\ srv \in {d \in DashServers : IF d.sensorPage THEN d.readOnly ELSE d.rightType}
  /\ srv.given = {w.id : w \in ToSet(srv.widgets)}

On == page = "CustomDashboard" /\ ui.mounted /\ ~ui.error

\* A promise of the chain rejects: the error replaces the page.
LoadFails ==
  /\ On /\ Loading
  /\ ui' = ErrorPage
  /\ UNCHANGED <<page, sent, net, srv>>

\* One answer of the chain before the last.
LoadStep ==
  /\ On /\ ui.stage \in 1..(Len(LoadSteps) - 1)
  /\ LET asked == LoadSteps[ui.stage] IN
     ui' = IF asked = "sensor" /\ ~srv.rightType
           THEN [ui EXCEPT !.stage = 0] \* "Wrong type of sensor!", still loading
           ELSE [ui EXCEPT
                   !.stage = @ + 1,
                   !.fetched.widgets = IF asked = "widgets" THEN srv.widgets ELSE @,
                   !.fetched.layouts = IF asked = "dashboard" THEN srv.layouts ELSE @]
  /\ UNCHANGED <<page, sent, net, srv>>

\* The last answer: state from what was fetched, then a client per widget.
LoadEnds(registry, layouts) ==
  LET widgets == ui.fetched.widgets IN
  /\ On /\ ui.stage = Len(LoadSteps)
  /\ ui' = [ui EXCEPT
              !.stage = @ + 1, !.loading = FALSE,
              !.fetched = DashUi.fetched,
              !.widgets = widgets, !.backup = widgets, !.sensors = registry,
              !.layouts = IF layouts = << >> THEN make_layouts(widgets) ELSE layouts[1],
              !.live = startLiveUpdates(widgets), !.putBack = {}]
  /\ UNCHANGED <<page, sent, net, srv>>

LoadEndsOfSensor ==
  /\ On /\ srv.sensorPage
  /\ LoadEnds(<<srv.pageSensor>>, ui.fetched.layouts)

LoadEndsGeneral ==
  /\ On /\ ~srv.sensorPage
  /\ LoadEnds(SetToSeq({w.sensor : w \in
                {v \in ToSet(ui.fetched.widgets) : v.sensor # NoSensor}}),
              srv.layouts)

HeaderShown == On
GridShown == HeaderShown /\ ~ui.loading

Indices(ws, id) == {k \in DOMAIN ws : ws[k].id = id}
FirstOf(ws, id) == ws[Min(Indices(ws, id))]
Replace(ws, id, w) == [j \in DOMAIN ws |-> IF ws[j].id = id THEN w ELSE ws[j]]
Shown == {w.id : w \in ToSet(ui.widgets)}

\* The menu of a widget of the grid: shown while the dashboard is edited.
WidgetMenu(id) ==
  IF ~GridShown \/ ~ui.edit \/ id \notin Shown THEN {}
  ELSE {"Remove"} \cup (IF id \in ui.configuring THEN {} ELSE {"Configure"})

\* The widget whose dialog is open; it covers the header and the grid.
InDialog(id) == GridShown /\ ui.edit /\ id \in Shown \cap ui.configuring
DialogOpen == On /\ \E id \in Shown : InDialog(id)

\* Every call: what saveWidget saves, what updateDashboard saves, and the two
\* copies addWidget holds until its answer.
Calls(what, id, w, layouts) ==
  [what |-> what, id |-> id, widget |-> w, layouts |-> layouts,
   widgets |-> << >>, backup |-> << >>]

\* "Edit" stops the updates; "Save" sends the layouts, whatever they are.
ToggleEdit ==
  /\ HeaderShown /\ ~DialogOpen /\ ~srv.readOnly
  /\ \/ /\ ~ui.edit
        /\ ui' = [ui EXCEPT !.live = {}, !.edit = TRUE]
        /\ UNCHANGED <<net, sent>>
     \/ /\ ui.edit
        /\ ui' = [ui EXCEPT !.edit = FALSE, !.loading = TRUE]
        /\ Send(Calls("updateDashboard", 0, << >>, ui.layouts))
  /\ UNCHANGED <<page, srv>>

MutantDashboardSaved(r, ok) ==
  /\ On /\ Settle(r, ok)
  /\ ui' = [ui EXCEPT !.loading = FALSE,
                      !.live = IF ok THEN startLiveUpdates(ui.widgets) ELSE @,
                      !.putBack = {}]
  /\ UNCHANGED <<page, srv>>

\* finally: answered or not, the updates start again.
DashboardSaved(r, ok) ==
  /\ On /\ Settle(r, ok)
  /\ ui' = [ui EXCEPT !.loading = FALSE,
                      !.live = startLiveUpdates(ui.widgets), !.putBack = {}]
  /\ UNCHANGED <<page, srv>>

\* What is shown and what is saved are copied before the call leaves.
AddCall ==
  [Calls("addWidget", 0, << >>, Unmade) EXCEPT !.widgets = ui.widgets, !.backup = ui.backup]

addWidget ==
  /\ HeaderShown /\ ~DialogOpen /\ ~srv.readOnly
  /\ Send(AddCall)
  /\ ui' = [ui EXCEPT !.loading = TRUE]
  /\ UNCHANGED <<page, srv>>

\* The copies, with the new widget, replace what the page holds by now: what
\* was loaded, changed, saved, added or removed since the press is undone on
\* the page.  The layouts are those of now; add_layout throws while they are {}.
WidgetAdded(r, ok) ==
  LET w == Widget(r.call.id) IN
  /\ On /\ Settle(r, ok)
  /\ ui' = IF ok /\ ui.layouts # Unmade
           THEN [ui EXCEPT !.widgets = Append(r.call.widgets, w),
                           !.backup = Append(r.call.backup, w),
                           !.putBack = @ \cup (ToSet(r.call.widgets) \ ToSet(ui.widgets)),
                           !.layouts = add_layout(@, w.id), !.loading = FALSE]
           ELSE ErrorPage
  /\ UNCHANGED <<page, srv>>

setToConfigure(id) ==
  /\ On /\ ~DialogOpen /\ "Configure" \in WidgetMenu(id)
  /\ ui' = [ui EXCEPT !.configuring = @ \cup {id}, !.step = 0, !.found = FALSE]
  /\ UNCHANGED <<page, sent, net, srv>>

\* The stepper of the dialog; past its third step it offers Save and Cancel.
DialogNext ==
  /\ DialogOpen /\ ui.step < 3
  /\ ui' = [ui EXCEPT !.step = @ + 1]
  /\ UNCHANGED <<page, sent, net, srv>>

DialogBack ==
  /\ DialogOpen /\ ui.step \in 1..2
  /\ ui' = [ui EXCEPT !.step = @ - 1]
  /\ UNCHANGED <<page, sent, net, srv>>

\* The search of sensors by name, its answer included: only what the field
\* offers depends on it.
loadDataSources ==
  /\ DialogOpen /\ ui.step = 1 /\ ~srv.sensorPage
  /\ ui' = [ui EXCEPT !.found = TRUE]
  /\ UNCHANGED <<page, sent, net, srv>>

\* The fields of the three steps: the type; a sensor that was found, or a
\* parameter of the sensor the registry holds; the options of a widget that
\* has any.
TypesOffered(w) == {[w EXCEPT !.type = t] : t \in Kinds \ {w.type}}

SensorsOffered(w) ==
  IF ui.found THEN {[w EXCEPT !.sensor = s] : s \in Sensors} ELSE {}

ParametersOffered(w) ==
  IF Registered(ui.sensors, IF srv.sensorPage THEN srv.pageSensor ELSE w.sensor) = {}
  THEN {} ELSE {[w EXCEPT !.filled = TRUE]}

OptionsOffered(w) == IF w.type \in {"text", "custom"} THEN {[w EXCEPT !.filled = TRUE]} ELSE {}

\* What the fields of the step shown turn the widget w into.
FieldsOf(w) ==
  CASE ui.step = 0 -> TypesOffered(w)
    [] ui.step = 1 -> SensorsOffered(w) \cup ParametersOffered(w)
    [] OTHER -> OptionsOffered(w)

MutantRegistry(new, old) ==
  IF isSensorChanged(new, old) THEN Append(ui.sensors, new.sensor) ELSE ui.sensors

\* A sensor the registry does not hold comes with its current value.
Registry(new, old) ==
  IF isSensorChanged(new, old) /\ Registered(ui.sensors, new.sensor) = {}
  THEN Append(ui.sensors, new.sensor)
  ELSE ui.sensors

changeWidget(id) ==
  /\ InDialog(id) /\ ui.edits < MaxEdits /\ ui.step < 3
  /\ \E k \in Indices(ui.widgets, id) : \E new \in FieldsOf(ui.widgets[k]) :
       ui' = [ui EXCEPT
                !.widgets = Replace(@, id, new),
                !.sensors = Registry(new, ui.widgets[k]),
                !.edits = @ + 1]
  /\ UNCHANGED <<page, sent, net, srv>>

saveWidget(id) ==
  /\ InDialog(id) /\ ui.step = 3
  /\ Send(Calls("saveWidget", id, FirstOf(ui.widgets, id), Unmade))
  /\ ui' = [ui EXCEPT !.loading = TRUE, !.step = 0, !.found = FALSE]
  /\ UNCHANGED <<page, srv>>

WidgetSaved(r, ok) ==
  /\ On /\ Settle(r, ok)
  /\ ui' = IF ok
           THEN [ui EXCEPT !.backup = Replace(@, r.call.id, r.call.widget),
                           !.configuring = @ \ {r.call.id}, !.loading = FALSE]
           ELSE ErrorPage
  /\ UNCHANGED <<page, srv>>

\* Cancel, or a click beside the dialog.
cancelSaveWidget(id) ==
  /\ InDialog(id)
  /\ ui' = [ui EXCEPT !.widgets = Replace(@, id, FirstOf(ui.backup, id)),
                      !.configuring = @ \ {id}, !.step = 0, !.found = FALSE]
  /\ UNCHANGED <<page, sent, net, srv>>

removeWidget(id) ==
  /\ On /\ ~DialogOpen /\ "Remove" \in WidgetMenu(id)
  /\ Send(Calls("removeWidget", id, << >>, Unmade))
  /\ ui' = [ui EXCEPT !.loading = TRUE]
  /\ UNCHANGED <<page, srv>>

\* The widgets with another id, in their order.
Without(ws, id) ==
  LET kept == DOMAIN ws \ Indices(ws, id)
      Nth(j) == CHOOSE k \in kept : Cardinality({i \in kept : i <= k}) = j
  IN [j \in 1..Cardinality(kept) |-> ws[Nth(j)]]

\* The layouts keep the place of the removed widget.
WidgetRemoved(r, ok) ==
  /\ On /\ Settle(r, ok)
  /\ ui' = IF ok
           THEN [ui EXCEPT !.widgets = Without(@, r.call.id),
                           !.backup = Without(@, r.call.id), !.loading = FALSE]
           ELSE ErrorPage
  /\ UNCHANGED <<page, srv>>

\* The grid reports the places at the breakpoint shown, those of its widgets.
onLayoutChange ==
  /\ GridShown /\ ui.layouts # Unmade
  /\ ui' = [ui EXCEPT !.layouts.lg = SelectSeq(@, LAMBDA p : p.i \in Shown)]
  /\ UNCHANGED <<page, sent, net, srv>>

re_render ==
  /\ On /\ ~ui.loading /\ ui.timers < MaxTimers
  /\ ui' = [ui EXCEPT !.loading = TRUE, !.timers = @ + 1]
  /\ UNCHANGED <<page, sent, net, srv>>

TimerEnds ==
  /\ On /\ ui.timers > 0
  /\ ui' = [ui EXCEPT !.loading = FALSE, !.timers = @ - 1]
  /\ UNCHANGED <<page, sent, net, srv>>

\* What settles afterwards finds no page to change.
componentWillUnmount ==
  /\ On
  /\ ui' = [DashUi EXCEPT !.mounted = FALSE]
  /\ net' = {} /\ UNCHANGED sent
  /\ UNCHANGED <<page, srv>>

(***************************************************************************)
(* The server.                                                             *)
(***************************************************************************)
DashServes(r) ==
  LET c == r.call
      kept == CASE c.what = "saveWidget" -> [srv EXCEPT !.widgets = Replace(@, c.id, c.widget)]
                [] c.what = "removeWidget" -> [srv EXCEPT !.widgets = Without(@, c.id)]
                [] OTHER -> [srv EXCEPT !.layouts = <<c.layouts>>]
  IN /\ On
     /\ \/ /\ c.what # "addWidget"
           /\ c.what = "removeWidget" => Indices(srv.widgets, c.id) # {}
           /\ Serve(r, kept)
        \/ /\ c.what = "addWidget" /\ ~r.served
           /\ \E id \in WidgetIds :
                /\ \A x \in srv.given : id > x
                /\ srv' = [srv EXCEPT !.widgets = Append(@, Widget(id)),
                                      !.given = @ \cup {id}]
                /\ net' = (net \ {r}) \cup {[r EXCEPT !.served = TRUE, !.call.id = id]}
           /\ UNCHANGED <<page, sent, ui>>

DashAnswers(r, ok) ==
  \/ r.call.what = "addWidget" /\ WidgetAdded(r, ok)
  \/ r.call.what = "saveWidget" /\ WidgetSaved(r, ok)
  \/ r.call.what = "removeWidget" /\ WidgetRemoved(r, ok)
  \/ r.call.what = "updateDashboard" /\ DashboardSaved(r, ok)

DashNext ==
  \/ LoadFails \/ LoadStep \/ LoadEndsOfSensor \/ LoadEndsGeneral
  \/ ToggleEdit \/ addWidget \/ DialogNext \/ DialogBack \/ loadDataSources
  \/ onLayoutChange \/ re_render \/ TimerEnds \/ componentWillUnmount
  \/ \E id \in WidgetIds :
       \/ setToConfigure(id) \/ changeWidget(id) \/ saveWidget(id)
       \/ cancelSaveWidget(id) \/ removeWidget(id)
  \/ /\ On
     /\ \E r \in net : DashServes(r) \/ \E ok \in BOOLEAN : DashAnswers(r, ok)

(***************************************************************************)
(* Properties.                                                             *)
(***************************************************************************)
\* Every widget of a general dashboard that has a sensor finds it exactly once
\* in the registry, whatever was edited, cancelled, saved, or put back by the
\* copies of an add: the page shows nothing for a sensor found twice or never,
\* and startLiveUpdates dereferences what it finds without a check.
RegistryCovers ==
  (page = "CustomDashboard" /\ ~srv.sensorPage) =>
    \A w \in ToSet(ui.widgets) :
      w.sensor # NoSensor => Cardinality(Registered(ui.sensors, w.sensor)) = 1

\* In view mode, with the load over and no save of the dashboard unanswered,
\* every widget that has a sensor has a live client of its kind: however the
\* load, edits, toggles of the mode, failed saves and adds interleaved, the
\* page does not sit on old values.  The exception is what the answer of an
\* add put back since the updates last started, as it starts none.
LiveInViewMode ==
  (/\ page = "CustomDashboard" /\ ui.mounted /\ Loaded /\ ~ui.error
   /\ ~ui.edit /\ InFlight("updateDashboard") = {}) =>
    \A w \in {v \in ToSet(ui.widgets) \ ui.putBack : v.sensor # NoSensor /\ ~srv.sensorPage} :
      [sensor |-> w.sensor, filter |-> Filter(w.type)] \in ui.live
=============================================================================
