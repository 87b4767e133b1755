------------------------------ MODULE MCWebApp ------------------------------
(***************************************************************************)
(* The pages of the web interface, one mounted at a time.                  *)
(***************************************************************************)
EXTENDS WebDashboard, WebWidgets, WebSession, WebSensorPages, WebNavigation, WebAccount,
        CompanyUsers, EventCalendar

CONSTANTS adm, bob, e1, e2, r1, r2, m1, p1, p2, n1, n2,
          root, head, guest, f1, f2, f3

\* Calls of one behaviour, page by page: enough to cross two.
MCCalls ==
  [CustomDashboard |-> 2, Widget |-> 3, Session |-> 2, Requests |-> 0,
   SensorHistory |-> 2, SensorsList |-> 2, Navigation |-> 0,
   Account |-> 3, Profile |-> 2, CompanyUsers |-> 3, Event |-> 1]

MCRole ==
  (adm :> [c \in Companies |-> "admin"]) @@
  (bob :> [c \in Companies |-> IF c = First THEN "write" ELSE "read"])

MCType == (e1 :> "t1") @@ (e2 :> "t2")

\* Where the menu, a bookmark or Back leads: every page, also those no list
\* leads to, and two addresses without a page of their own.
MCPlaces == Routes \cup {<<"cdash">>, <<"floormap">>}

\* Two companies with their owners, and one yet to be made.
MCFounders == (f1 :> root) @@ (f2 :> head) @@ (f3 :> Unowned)
MCBatches == {{root}, {head, guest}}

\* In winter, before the end of March with a start long past, and in a leap
\* year: short months, the end of a year, 29 February.
MCTodays == {25, 50, 82, 390, 420, 780}

Init ==
  DashInit \/ WidgetInit \/ SessionInit \/ RequestsInit \/ GraphInit \/ ListInit
  \/ NavigationInit \/ FormsInit \/ ProfileInit \/ MembersInit \/ EventInit

Next ==
  DashNext \/ WidgetNext \/ SessionNext \/ RequestsNext \/ GraphNext \/ ListNext
  \/ NavigationNext \/ FormsNext \/ ProfileNext \/ MembersNext \/ EventNext

Spec == Init /\ [][Next]_webVars
=============================================================================
