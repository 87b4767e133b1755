--------------------------- MODULE EventCalendar ---------------------------
(***************************************************************************)
(* The form of a scheduled event (FormEvent.jsx) and the dates the server   *)
(* makes of it: get_next_runtime, asked when an event is saved and each    *)
(* time it has run (events/controllers.py, run_schedule_events).  What the *)
(* tasks of a minute and the users do to each other is in SensorConfig,    *)
(* with a constant period; here are the days, weeks, months and years.     *)
(*                                                                         *)
(* A date is a number of days.  A day begins at the event's time of day, so *)
(* that a moment is on or after a start date exactly if its day is.        *)
(***************************************************************************)
EXTENDS WebCore

CONSTANTS
  FirstYear,         \* the calendar begins in January of it
  StartDays, Todays, \* dates a user can choose, and days on which he can
  MaxDays            \* days that pass in one behaviour

ASSUME CalendarAssumption ==
  /\ FirstYear \in 1901..2099 /\ MaxDays \in Nat
  /\ StartDays \cup Todays \subseteq Nat

Units == {"day", "week", "month", "year"}

(***************************************************************************)
(* Dates, as dateutil's relativedelta counts them.                         *)
(***************************************************************************)
Lengths == <<31, 28, 31, 30, 31, 30, 31, 31, 30, 31, 30, 31>>
DaysBefore == <<0, 31, 59, 90, 120, 151, 181, 212, 243, 273, 304, 334>>

\* Month m is the m-th after January of FirstYear; between 1901 and 2099 every
\* fourth year is a leap year.
Length(m) ==
  IF m % 12 = 1 /\ (FirstYear + (m \div 12)) % 4 = 0 THEN 29 ELSE Lengths[(m % 12) + 1]

FirstDay(m) ==
  LET leaps(year) == year \div 4
      year == FirstYear + (m \div 12)
  IN 365 * (m \div 12) + DaysBefore[(m % 12) + 1]
       + leaps(IF m % 12 > 1 THEN year ELSE year - 1) - leaps(FirstYear - 1)

MonthOf(day) ==
  CHOOSE m \in (day \div 31)..(day \div 28) : day - FirstDay(m) \in 0..(Length(m) - 1)

\* The same day of another month, or its last.
AddMonths(day, n) ==
  LET m == MonthOf(day)
      nth == day - FirstDay(m)
  IN FirstDay(m + n) + (IF nth < Length(m + n) THEN nth ELSE Length(m + n) - 1)

\* relativedelta(now, start): whole months, and the days above them.
WholeMonths(now, start) ==
  LET n == MonthOf(now) - MonthOf(start) IN IF AddMonths(start, n) > now THEN n - 1 ELSE n

DaysAbove(now, start) == now - AddMonths(start, WholeMonths(now, start))

\* The first day from d on that has the weekday of start.
OnWeekday(d, start) == d + ((start - d) % 7)

\* Counted on from the last run, a month at a time.
MutantNextRuntime(start, unit, now) ==
  LET n == WholeMonths(now, start)
      last == AddMonths(start, n)
  IN CASE start > now -> start
       [] start <= now /\ unit = "day" -> now + 1
       [] start <= now /\ unit = "week" -> OnWeekday(now + 1, start)
       [] start <= now /\ unit = "month" -> AddMonths(last, 1)
       [] start <= now /\ unit = "year" -> AddMonths(start, 12 * (n \div 12 + 1))

\* get_next_runtime of an event that repeats, or has not started.
NextRuntime(start, unit, now) ==
  LET n == WholeMonths(now, start)
      last == AddMonths(start, n)
      above == DaysAbove(now, start)
  IN CASE start > now -> start
       [] start <= now /\ unit = "day" -> last + above + 1
       [] start <= now /\ unit = "week" -> OnWeekday(last + 7 * (above \div 7 + 1), start)
       [] start <= now /\ unit = "month" -> AddMonths(start, n + 1)
       [] start <= now /\ unit = "year" -> AddMonths(start, 12 * (n \div 12 + 1))

\* No date: an event that does not repeat and has started.
Never == -1
get_next_runtime(start, repeat, unit, now) ==
  IF start <= now /\ ~repeat THEN Never ELSE NextRuntime(start, unit, now)

(***************************************************************************)
(* The form, the event and the days.                                       *)
(***************************************************************************)
NoEvent == [start |-> Never, repeat |-> FALSE, unit |-> "day", next |-> Never]

\* saved: the day on which the event was saved; ran: the days it has run on
\* since, a history.
EventInit ==
  /\ page = "Event" /\ net = {} /\ sent = 0 /\ ui = << >>
  /\ \E today \in Todays :
       srv = [event |-> NoEvent, today |-> today, saved |-> today, ran |-> {}, days |-> 0]

OnEvent == page = "Event"

\* FormEvent: the unit is shown, and kept, whether or not the event repeats.
Saves ==
  /\ OnEvent
  /\ \E start \in StartDays, repeat \in BOOLEAN, unit \in Units :
       Send([what |-> "event", start |-> start, repeat |-> repeat, unit |-> unit])
  /\ UNCHANGED <<page, ui, srv>>

\* EventsCollectionResource.post, EventResource.put
EventServed(r) ==
  LET c == r.call
      event == [start |-> c.start, repeat |-> c.repeat, unit |-> c.unit,
                next |-> get_next_runtime(c.start, c.repeat, c.unit, srv.today)]
  IN /\ OnEvent
     /\ Serve(r, [srv EXCEPT !.event = event, !.saved = srv.today, !.ran = {}])

EventAnswered(r, ok) == OnEvent /\ Settle(r, ok) /\ UNCHANGED <<page, ui, srv>>

\* The next day begins; run_schedule_events runs the event if it is due.
DayPasses ==
  LET day == srv.today + 1
      e == srv.event
      passed == [srv EXCEPT !.today = day, !.days = @ + 1]
  IN /\ OnEvent /\ srv.days < MaxDays
     /\ srv' = IF e.next # day THEN passed
               ELSE [passed EXCEPT !.ran = @ \cup {day},
                       !.event.next = IF e.repeat THEN NextRuntime(e.start, e.unit, day) ELSE @]
     /\ UNCHANGED <<page, sent, ui, net>>

EventNext == Saves \/ DayPasses \/ \E r \in net : EventServed(r) \/ \E ok \in BOOLEAN : EventAnswered(r, ok)

(***************************************************************************)
(* Properties.                                                             *)
(***************************************************************************)
\* The days the form promises: the start, and if the event repeats every day,
\* week, month or year after it; a month that is too short has its last day.
Occurs(e, day) ==
  \/ day = e.start
  \/ /\ e.repeat /\ day > e.start
     /\ CASE e.unit = "day" -> TRUE
          [] e.unit = "week" -> (day - e.start) % 7 = 0
          [] e.unit = "month" -> day = AddMonths(e.start, MonthOf(day) - MonthOf(e.start))
          [] e.unit = "year" -> /\ (MonthOf(day) - MonthOf(e.start)) % 12 = 0
                                /\ day = AddMonths(e.start, MonthOf(day) - MonthOf(e.start))

\* While tasks are on time, an event runs on the days its form promises, on all
\* of them and on no other, however often get_next_runtime is asked on the way;
\* a weekly one may leave out the first day after it was saved, as its weeks are
\* counted from a day of the month, but runs a week later.
RunsAsPromised ==
  (page = "Event" /\ srv.event.start # Never) =>
    LET e == srv.event
        promised == {day \in (srv.saved + 1)..srv.today : Occurs(e, day)}
        missed == promised \ srv.ran
    IN /\ srv.ran \subseteq promised
       /\ missed # {} => e.repeat /\ e.unit = "week"
       /\ \A day \in missed : /\ \A other \in promised : day <= other
                            /\ day + 7 \in srv.ran \cup {e.next}
=============================================================================
