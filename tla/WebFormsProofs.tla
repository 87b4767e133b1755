--------------------------- MODULE WebFormsProofs ---------------------------
(***************************************************************************)
(* Theorems about the web interface's session, two of its forms, and the   *)
(* server's side of them.                                                  *)
(* WebSession, for any windows, users, companies and roles: what           *)
(* localStorage shares is of users who logged in by themselves, and a      *)
(* window that has loaded agrees with itself about its user, company and   *)
(* role.                                                                   *)
(* EventCalendar, for any dates, days of saving and number of days:        *)
(* months follow each other without a gap, get_next_runtime names the      *)
(* first date that is left, and an event runs as its form promises.        *)
(* CompanyUsers, for any people, companies, roles and bounds: the owner of *)
(* a company stays an administrator of it, and who was invited when he     *)
(* signed up belongs to the companies that invited him.                    *)
(***************************************************************************)
EXTENDS WebSession, EventCalendar, CompanyUsers, WellFoundedInduction, TLAPS

(* The windows and the session, alone.                                     *)
SessionSpec == SessionInit /\ [][SessionNext]_webVars

----------------------------------------------------------------------------
(* Types.                                                                  *)
Someone == Users \cup {Nobody}
Somewhere == Companies \cup {None}
Granted == UNION {{Role[u][c] : c \in Somewhere} : u \in Someone}
Roles == {"", "admin", "super_admin"} \cup Granted
InitialsType == [user: Someone, company: Somewhere, default: Somewhere]
SessionStorage ==
  [token: Someone, logged_in_as: {"", "0", "1"}, cached: InitialsType, role: Roles,
   company: Somewhere]
Window ==
  [phase: {"closed", "settings", "initials", "role", "app", "dead"}, config: Someone,
   boot: InitialsType, session: SessionStorage, redux: InitialsType, fine: BOOLEAN]
Local == [current_user: Someone, cached: InitialsType]
Request ==
  [id: Nat, served: BOOLEAN,
   call: [what: {"login", "initials", "meta_data", "token"}, win: Windows, user: Users,
          company: Somewhere]]

SessionType ==
  /\ page = "Session" /\ sent \in Nat
  /\ ui \in [win: [Windows -> Window], typed: SUBSET Users, boots: Nat, local: Local]
  /\ net \subseteq Request
  /\ srv \in [default: [Users -> Somewhere]]

(* What holds in a window v, typed being the users who logged in:          *)
(* nothing is in its store until it has loaded; the initials it loads are  *)
(* of the token's user; only a window opened to log in as someone has the  *)
(* token of one who did not log in, and only its own session gets his      *)
(* initials; once loaded, store and session agree.                         *)
SoundWindow(v, typed) ==
  /\ v.phase \in {"settings", "initials", "role"} => v.redux = NoInitials
  /\ v.phase \in {"initials", "role"} => ~v.fine
  /\ v.phase \in {"initials", "role"} => v.session.token # Nobody
  /\ v.phase = "role" => v.boot.user = v.session.token
  /\ v.session.logged_in_as # "1" => v.session.token \in typed \cup {Nobody}
  /\ v.session.logged_in_as = "0" => v.redux.user \in typed \cup {Nobody}
  /\ v.phase = "app" /\ v.fine /\ v.session.token # Nobody =>
       /\ v.redux.user = v.session.token
       /\ v.session.company = v.redux.company
       /\ v.session.role \in RolesShown(v.redux.user, v.redux.company)

(* What holds of a call of the window v: it has loaded; a login is under   *)
(* way in a window that is not fine, and its second call is of the user    *)
(* whose token the window got, unless he logged out since.                 *)
SoundCall(c, v, typed) ==
  /\ v.phase = "app"
  /\ c.what \in {"login", "initials"} => ~v.fine
  /\ c.what = "initials" => c.user \in typed /\ v.session.token \in {c.user, Nobody}

SoundLocal(local, typed) == {local.current_user, local.cached.user} \subseteq typed \cup {Nobody}

Sound ==
  /\ SessionType
  /\ \A w \in Windows : SoundWindow(ui.win[w], ui.typed)
  /\ \A r \in net : SoundCall(r.call, ui.win[r.call.win], ui.typed)
  /\ \A r, q \in net : r.call.win = q.call.win => r = q
  /\ SoundLocal(ui.local, ui.typed)

(* A step of the window w changes nothing but its own record, its call,    *)
(* the users who logged in, of whom it forgets none, and the shared        *)
(* storage: what has to be shown of it.                                    *)
StepOf(w) ==
  /\ page' = page /\ sent' \in Nat /\ srv' \in [default: [Users -> Somewhere]]
  /\ ui' \in [win: [Windows -> Window], typed: SUBSET Users, boots: Nat, local: Local]
  /\ \A x \in Windows : x # w => ui'.win[x] = ui.win[x]
  /\ ui.typed \subseteq ui'.typed
  /\ SoundWindow(ui'.win[w], ui'.typed) /\ SoundLocal(ui'.local, ui'.typed)

LEMMA Replaced ==
  ASSUME Sound, NEW w \in Windows, StepOf(w),
         net' \subseteq Request,
         \A r \in net' : r.call.win # w => r \in net,
         \A r \in net' : r.call.win = w => SoundCall(r.call, ui'.win[w], ui'.typed),
         \A r, q \in net' : r.call.win = w /\ q.call.win = w => r = q
  PROVE  Sound'
<1> USE DEF StepOf
<1>1. SessionType'
  BY DEF Sound, SessionType
<1>2. ASSUME NEW x \in Windows PROVE SoundWindow(ui'.win[x], ui'.typed)
  BY DEF Sound, SessionType, SoundWindow
<1>3. ASSUME NEW r \in net' PROVE SoundCall(r.call, ui'.win[r.call.win], ui'.typed)
  <2>1. r.call.win \in Windows
    BY DEF Request
  <2>2. CASE r.call.win = w
    BY <2>2
  <2>3. CASE r.call.win # w
    BY <2>1, <2>3 DEF Sound, SessionType, SoundCall
  <2> QED BY <2>2, <2>3
<1>4. ASSUME NEW r \in net', NEW q \in net', r.call.win = q.call.win PROVE r = q
  BY <1>4 DEF Sound
<1> QED BY <1>1, <1>2, <1>3, <1>4 DEF Sound, SoundWindow, SoundCall, SoundLocal

(* The calls of a window stay as they are, or are given up.                *)
LEMMA Moved ==
  ASSUME Sound, NEW w \in Windows, StepOf(w), net' \subseteq net,
         \A r \in net' : r.call.win = w => SoundCall(r.call, ui'.win[w], ui'.typed)
  PROVE  Sound'
<1>1. net' \subseteq Request /\ \A r, q \in net' : r.call.win = q.call.win => r = q
  BY DEF Sound, SessionType
<1> QED BY <1>1, Replaced

(* A window that waits for nothing sends a call.                           *)
LEMMA Sends ==
  ASSUME Sound, NEW w \in Windows, StepOf(w), ~Waiting(w), NEW c, Send(c),
         [id |-> sent, call |-> c, served |-> FALSE] \in Request, c.win = w,
         SoundCall(c, ui'.win[w], ui'.typed)
  PROVE  Sound'
<1> DEFINE q == [id |-> sent, call |-> c, served |-> FALSE]
<1>1. net' = net \cup {q} /\ q.call = c
  BY DEF Send
<1>2. \A r \in net : r.call.win # w
  BY DEF Waiting
<1>3. net' \subseteq Request
  BY <1>1 DEF Sound, SessionType
<1> HIDE DEF q
<1> QED BY <1>1, <1>2, <1>3, Replaced

(* What is known of one window.                                            *)
LEMMA WindowOf ==
  ASSUME Sound, NEW w \in Windows
  PROVE  /\ ui.win[w] \in Window /\ ui.win[w].session \in SessionStorage
         /\ ui.local \in Local /\ ui.typed \in SUBSET Users /\ ui.boots \in Nat
         /\ ui.win \in [Windows -> Window]
         /\ ui = [win |-> ui.win, typed |-> ui.typed, boots |-> ui.boots, local |-> ui.local]
         /\ SoundWindow(ui.win[w], ui.typed) /\ SoundLocal(ui.local, ui.typed)
         /\ ui.win[w].phase # "app" => \A r \in net : r.call.win # w
         /\ \A r \in net : r.call.win = w => SoundCall(r.call, ui.win[w], ui.typed)
<1>1. ui.win[w] \in Window /\ ui.win[w].session \in SessionStorage
  BY DEF Sound, SessionType, Window
<1> QED BY <1>1 DEF Sound, SessionType, SoundCall

(* Nothing is known in a closed window.                                    *)
LEMMA Closed ==
  /\ NoInitials \in InitialsType /\ ClosedWindow \in Window /\ Cleared \in SessionStorage
  /\ \A t \in SUBSET Users : SoundWindow(ClosedWindow, t)
<1>1. NoInitials \in InitialsType
  BY DEF NoInitials, Initials, InitialsType, Someone, Somewhere
<1>2. Cleared \in SessionStorage
  BY <1>1 DEF Cleared, ClosedWindow, SessionStorage, Someone, Somewhere, Roles
<1>3. ClosedWindow \in Window
  BY <1>1, <1>2 DEF ClosedWindow, Window, Someone, Cleared
<1>4. ClosedWindow.phase = "closed" /\ ClosedWindow.redux = NoInitials
      /\ ClosedWindow.session.token = Nobody /\ NoInitials.user = Nobody
  BY DEF ClosedWindow, NoInitials, Initials
<1> QED BY <1>1, <1>2, <1>3, <1>4 DEF SoundWindow

LEMMA InitSound == SessionInit => Sound
<1> SUFFICES ASSUME SessionInit PROVE Sound
  OBVIOUS
<1>1. SessionType
  BY Closed DEF SessionInit, SessionType, Local, Someone, Somewhere
<1>2. \A w \in Windows : ui.win[w] = ClosedWindow
  BY DEF SessionInit
<1>3. SoundLocal(ui.local, ui.typed)
  BY DEF SessionInit, SoundLocal, NoInitials, Initials
<1>4. net = {} /\ ui.typed \in SUBSET Users
  BY DEF SessionInit
<1> QED BY <1>1, <1>2, <1>3, <1>4, Closed DEF Sound

----------------------------------------------------------------------------
(* Loading a window.                                                       *)

(* A step that leaves the window w the record v, the shared storage l and  *)
(* the users t.                                                            *)
LEMMA Updated ==
  ASSUME Sound, NEW w \in Windows, NEW v \in Window,
         ui' = [win |-> ui'.win, typed |-> ui'.typed, boots |-> ui'.boots, local |-> ui'.local],
         ui'.win = [ui.win EXCEPT ![w] = v], ui'.typed \in SUBSET Users, ui'.boots \in Nat,
         ui'.local \in Local, UNCHANGED <<page, srv>>, sent' \in Nat, ui.typed \subseteq ui'.typed,
         SoundWindow(v, ui'.typed), SoundLocal(ui'.local, ui'.typed)
  PROVE  StepOf(w) /\ ui'.win[w] = v
<1>1. ui'.win \in [Windows -> Window] /\ ui'.win[w] = v
  BY WindowOf
<1> QED BY <1>1, WindowOf DEF StepOf, Sound, SessionType

(* In most steps only the record changes.                                  *)
LEMMA WinStep ==
  ASSUME Sound, NEW w \in Windows, NEW v \in Window, Win(w, v),
         UNCHANGED <<page, srv>>, sent' \in Nat, SoundWindow(v, ui.typed)
  PROVE  StepOf(w) /\ ui'.win[w] = v /\ ui'.typed = ui.typed /\ ui'.local = ui.local
<1>1. /\ ui'.win = [ui.win EXCEPT ![w] = v] /\ ui'.typed = ui.typed /\ ui'.boots = ui.boots
      /\ ui'.local = ui.local
      /\ ui' = [win |-> ui'.win, typed |-> ui'.typed, boots |-> ui'.boots, local |-> ui'.local]
  BY WindowOf DEF Win
<1> QED BY <1>1, WindowOf, Updated

(* A window that starts to load, with the session it has or was given.     *)
LEMMA BootingSound ==
  ASSUME Sound, NEW w \in Windows, NEW v \in Window, v.redux = NoInitials,
         v.session.logged_in_as # "1" => v.session.token \in ui.typed \cup {Nobody},
         Booting(w, v),
         net' \subseteq net, \A r \in net' : r.call.win # w, UNCHANGED <<page, srv>>, sent' \in Nat
  PROVE  Sound'
<1> DEFINE k == [v EXCEPT !.phase = "settings", !.fine = FALSE]
<1>1. k \in Window /\ k.phase = "settings" /\ k.redux = v.redux /\ k.session = v.session
      /\ k.boot = v.boot /\ k.fine = FALSE
  BY DEF Window
<1>2. SoundWindow(k, ui.typed)
  BY <1>1 DEF SoundWindow, Window, NoInitials, Initials
<1>3. ui' = [ui EXCEPT !.win[w] = k, !.boots = @ + 1]
  BY DEF Booting
<1> HIDE DEF k
<1>4. /\ ui'.win = [ui.win EXCEPT ![w] = k] /\ ui'.typed = ui.typed /\ ui'.local = ui.local
      /\ ui'.boots = ui.boots + 1
      /\ ui' = [win |-> ui'.win, typed |-> ui'.typed, boots |-> ui'.boots, local |-> ui'.local]
  BY <1>3, WindowOf
<1>5. StepOf(w)
  BY <1>1, <1>2, <1>4, WindowOf, Updated
<1> QED BY <1>5, Moved

LEMMA OpenSound ==
  ASSUME Sound, NEW w \in Windows, OpenWindow(w)
  PROVE  Sound'
<1>1. NoInitials = ClosedWindow.redux /\ ClosedWindow.session.token = Nobody
  BY DEF ClosedWindow
<1>2. net' = {r \in net : r.call.win # w} /\ UNCHANGED <<page, sent, srv>> /\ Booting(w, ClosedWindow)
  BY WindowOf DEF OpenWindow, Still, At
<1> QED BY <1>1, <1>2, WindowOf, Closed, BootingSound DEF Sound, SessionType

LEMMA ReloadSound ==
  ASSUME Sound, NEW w \in Windows, Reload(w)
  PROVE  Sound'
<1> DEFINE v == [ui.win[w] EXCEPT !.redux = NoInitials]
<1>1. v \in Window /\ v.redux = NoInitials /\ v.session = ui.win[w].session
  BY WindowOf, Closed DEF Window
<1>2. v.session.logged_in_as # "1" => v.session.token \in ui.typed \cup {Nobody}
  BY <1>1, WindowOf DEF SoundWindow
<1> HIDE DEF v
<1>3. Booting(w, v) /\ net' = {r \in net : r.call.win # w} /\ UNCHANGED <<page, sent, srv>>
  BY DEF Reload, v
<1> QED BY <1>1, <1>2, <1>3, BootingSound DEF Sound, SessionType

LEMMA CloseSound ==
  ASSUME Sound, NEW w \in Windows, CloseWindow(w)
  PROVE  Sound'
<1>1. Win(w, ClosedWindow) /\ net' = {r \in net : r.call.win # w} /\ UNCHANGED <<page, sent, srv>>
  BY DEF CloseWindow
<1>2. StepOf(w)
  BY <1>1, WindowOf, Closed, WinStep DEF Sound, SessionType
<1> QED BY <1>1, <1>2, Moved

(* The token that a load takes: from the session, or of one who logged in, *)
(* unless the window was opened to log in as someone.                      *)
LEMMA SearchSound ==
  ASSUME Sound, NEW w \in Windows
  PROVE  /\ SearchToken(w) \in SessionStorage
         /\ SearchToken(w).logged_in_as # "1" => SearchToken(w).token \in ui.typed \cup {Nobody}
<1> DEFINE s == Session(w)
           c == ui.win[w].config
<1>1. /\ s \in SessionStorage /\ c \in Someone /\ ui.local.current_user \in Someone
      /\ ui.local.current_user \in ui.typed \cup {Nobody}
      /\ s.logged_in_as # "1" => s.token \in ui.typed \cup {Nobody}
  BY WindowOf DEF Session, Window, Local, SoundWindow, SoundLocal
<1>2. CASE c # Nobody
  <2>1. SearchToken(w) = [s EXCEPT !.token = c, !.logged_in_as = "1"]
    BY <1>2 DEF SearchToken
  <2> QED BY <1>1, <2>1 DEF SessionStorage
<1>3. CASE c = Nobody
  <2> DEFINE k == [s EXCEPT !.logged_in_as = IF @ = "1" THEN @ ELSE "0",
                            !.token = IF @ # Nobody THEN @ ELSE ui.local.current_user]
  <2>1. SearchToken(w) = k
    BY <1>3 DEF SearchToken
  <2>2. /\ k \in SessionStorage
        /\ k.logged_in_as = IF s.logged_in_as = "1" THEN "1" ELSE "0"
        /\ k.token = IF s.token # Nobody THEN s.token ELSE ui.local.current_user
    BY <1>1 DEF SessionStorage
  <2> HIDE DEF k
  <2> QED BY <1>1, <2>1, <2>2
<1> QED BY <1>2, <1>3

LEMMA SettingsSound ==
  ASSUME Sound, NEW w \in Windows, NEW ok \in BOOLEAN, SettingsAnswered(w, ok)
  PROVE  Sound'
<1> DEFINE s == SearchToken(w)
           dead == [ui.win[w] EXCEPT !.phase = "dead"]
           up == [ui.win[w] EXCEPT !.phase = IF s.token = Nobody THEN "app" ELSE "initials",
                                   !.session = s, !.boot = NoInitials, !.fine = s.token = Nobody]
<1>1. /\ ui.win[w].phase = "settings" /\ ui.win[w].redux = NoInitials
      /\ UNCHANGED <<page, sent, net, srv>> /\ sent \in Nat
      /\ \A r \in net : r.call.win # w
  BY WindowOf DEF SettingsAnswered, At, Still, SoundWindow, Sound, SessionType
<1>2. CASE ~ok
  <2>1. dead \in Window /\ SoundWindow(dead, ui.typed)
    BY <1>1, WindowOf DEF Window, SoundWindow
  <2>2. Win(w, dead)
    BY <1>2 DEF SettingsAnswered
  <2> HIDE DEF dead
  <2> QED BY <1>1, <2>1, <2>2, WinStep, Moved
<1>3. CASE ok
  <2>1. /\ up \in Window /\ up.session = s /\ up.redux = NoInitials
        /\ up.phase = (IF s.token = Nobody THEN "app" ELSE "initials")
        /\ up.fine => s.token = Nobody
    BY <1>1, WindowOf, SearchSound, Closed DEF Window
  <2>2. Win(w, up)
    BY <1>3 DEF SettingsAnswered
  <2> HIDE DEF up
  <2>3. SoundWindow(up, ui.typed)
    <3> HIDE DEF s
    <3>1. (s.logged_in_as # "1" => s.token \in ui.typed \cup {Nobody}) /\ NoInitials.user = Nobody
      BY SearchSound DEF s, NoInitials, Initials
    <3> QED BY <2>1, <3>1 DEF SoundWindow
  <2> QED BY <1>1, <2>1, <2>2, <2>3, WinStep, Moved
<1> QED BY <1>2, <1>3

(* The role of somebody is one.                                            *)
LEMMA RoleType == \A u \in Someone, c \in Somewhere : Role[u][c] \in Roles
<1> SUFFICES ASSUME NEW u \in Someone, NEW c \in Somewhere PROVE Role[u][c] \in Granted
  BY DEF Roles
<1>1. Role[u][c] \in {Role[u][d] : d \in Somewhere}
  OBVIOUS
<1>2. {Role[u][d] : d \in Somewhere} \in {{Role[x][d] : d \in Somewhere} : x \in Someone}
  OBVIOUS
<1> QED BY <1>1, <1>2, Zenon DEF Granted

(* The company that is taken from the cache is one, and only the company.  *)
LEMMA InitialsOf ==
  ASSUME Sound, NEW u \in Users
  PROVE  PostLoginInitials(u) \in InitialsType /\ PostLoginInitials(u).user = u
<1>1. srv.default[u] \in Somewhere
  BY DEF Sound, SessionType
<1> QED BY <1>1, SessionAssumption DEF PostLoginInitials, Initials, InitialsType, Someone, Somewhere

LEMMA InitialsSound ==
  ASSUME Sound, NEW w \in Windows, NEW ok \in BOOLEAN, InitialsAnswered(w, ok)
  PROVE  Sound'
<1> DEFINE i == WithCached(w, PostLoginInitials(Token(w)))
           here == Session(w).logged_in_as = "1"
           token == Token(w)
           back == [ui.win[w] EXCEPT !.phase = "app", !.config = Nobody]
<1>0. Nobody \in Someone
  BY DEF Someone
<1>1. /\ ui.win[w].phase = "initials" /\ ui.win[w].redux = NoInitials /\ ~ui.win[w].fine
      /\ UNCHANGED <<page, sent, net, srv>> /\ sent \in Nat
      /\ \A r \in net : r.call.win # w
  BY WindowOf DEF InitialsAnswered, At, Still, SoundWindow, Sound, SessionType
<1>2. CASE ~ok
  <2>1. /\ back \in Window /\ back.phase = "app" /\ back.session = ui.win[w].session
        /\ back.redux = ui.win[w].redux /\ back.fine = ui.win[w].fine
    BY <1>0, WindowOf DEF Window
  <2> HIDE DEF back
  <2>2. /\ ui'.win = [ui.win EXCEPT ![w] = back] /\ ui'.typed = ui.typed
        /\ ui'.boots = ui.boots /\ ui'.local = ui.local
        /\ ui' = [win |-> ui'.win, typed |-> ui'.typed, boots |-> ui'.boots, local |-> ui'.local]
    <3>1. ui' = [ui EXCEPT !.win[w].phase = "app", !.win[w].config = Nobody]
      BY <1>2 DEF InitialsAnswered
    <3> QED BY <3>1, WindowOf DEF back
  <2>3. SoundWindow(back, ui.typed)
    BY <1>1, <2>1, WindowOf DEF SoundWindow
  <2>4. StepOf(w)
    BY <1>1, <2>1, <2>2, <2>3, WindowOf, Updated
  <2> QED BY <1>1, <2>4, Moved
<1>3. CASE ok
  <2>1. token \in Users /\ i \in InitialsType /\ i.user = token
    <3>1. token \in Users
      BY <1>1, WindowOf DEF Token, Session, SoundWindow, SessionStorage, Someone
    <3>2. /\ ui.local.cached \in InitialsType /\ Session(w).cached \in InitialsType
          /\ Cached(w) \in InitialsType
      BY WindowOf DEF Cached, Session, Local, SessionStorage
    <3>3. PostLoginInitials(token) \in InitialsType /\ PostLoginInitials(token).user = token
      BY <3>1, InitialsOf
    <3> HIDE DEF token
    <3>4. i \in InitialsType /\ i.user = token
      BY <3>2, <3>3 DEF WithCached, InitialsType, token
    <3> QED BY <3>1, <3>4
  <2> DEFINE k == [ui.win[w] EXCEPT !.phase = "role", !.config = Nobody, !.boot = i,
                                    !.session.cached = IF here THEN i ELSE @]
  <2>2. ui' = [ui EXCEPT !.win[w] = k, !.local.cached = IF here THEN @ ELSE i]
    BY <1>3, Zenon DEF InitialsAnswered
  <2> HIDE DEF i
  <2>3. /\ k \in Window /\ k.phase = "role" /\ k.boot = i
        /\ k.session.token = token /\ k.session.logged_in_as = ui.win[w].session.logged_in_as
        /\ k.redux = ui.win[w].redux /\ k.fine = ui.win[w].fine
    <3> DEFINE m == [ui.win[w].session EXCEPT !.cached = IF here THEN i ELSE @]
               n == [ui.win[w] EXCEPT !.phase = "role", !.config = Nobody, !.boot = i,
                                      !.session = m]
    <3>1. /\ m \in SessionStorage /\ m.token = token
          /\ m.logged_in_as = ui.win[w].session.logged_in_as
      BY <2>1, WindowOf DEF SessionStorage, Token, Session
    <3>2. k = n
      BY WindowOf DEF Window
    <3> HIDE DEF m, k
    <3>3. /\ n \in Window /\ n.phase = "role" /\ n.boot = i /\ n.session = m
          /\ n.redux = ui.win[w].redux /\ n.fine = ui.win[w].fine
      BY <1>0, <2>1, <3>1, WindowOf DEF Window
    <3> QED BY <3>1, <3>2, <3>3
  <2> HIDE DEF k
  <2>4. /\ ui'.win = [ui.win EXCEPT ![w] = k] /\ ui'.typed = ui.typed /\ ui'.boots = ui.boots
        /\ ui' = [win |-> ui'.win, typed |-> ui'.typed, boots |-> ui'.boots, local |-> ui'.local]
        /\ ui'.local = IF here THEN ui.local ELSE [ui.local EXCEPT !.cached = i]
    BY <2>2, WindowOf DEF Local
  <2> HIDE DEF k
  <2>5. SoundWindow(k, ui.typed)
    BY <1>1, <2>1, <2>3, WindowOf DEF SoundWindow, Token, Session
  <2>6. ui'.local \in Local /\ SoundLocal(ui'.local, ui.typed)
    <3>1. CASE here
      BY <2>4, <3>1, WindowOf
    <3>2. CASE ~here
      <4>1. i.user \in ui.typed \cup {Nobody}
        BY <2>1, <3>2, WindowOf DEF SoundWindow, Token, Session
      <4> QED BY <2>1, <2>4, <3>2, <4>1, WindowOf DEF Local, SoundLocal
    <3> QED BY <3>1, <3>2
  <2>7. StepOf(w)
    BY <1>1, <2>3, <2>4, <2>5, <2>6, WindowOf, Updated
  <2> QED BY <1>1, <2>7, Moved
<1> QED BY <1>2, <1>3

LEMMA RoleSound ==
  ASSUME Sound, NEW w \in Windows, NEW ok \in BOOLEAN, RoleAnswered(w, ok)
  PROVE  Sound'
<1> DEFINE i == ui.win[w].boot
           s == ui.win[w].session
           known == ok \/ i.user = Admin
           role == IF ~known THEN s.role
                   ELSE IF i.user = Admin THEN "super_admin" ELSE Role[i.user][i.company]
           m == [s EXCEPT !.role = role, !.company = IF known THEN i.company ELSE @]
           k == [ui.win[w] EXCEPT !.phase = "app", !.redux = i, !.fine = known, !.session = m]
<1>1. /\ ui.win[w].phase = "role" /\ i.user = s.token /\ ui.win[w] \in Window
      /\ UNCHANGED <<page, sent, net, srv>> /\ sent \in Nat
      /\ \A r \in net : r.call.win # w
  BY WindowOf DEF RoleAnswered, At, Still, SoundWindow, Sound, SessionType
<1>2. i \in InitialsType /\ i.user \in Someone /\ i.company \in Somewhere /\ s \in SessionStorage
  BY <1>1 DEF Window, InitialsType
<1>3. role \in Roles /\ (known => role \in RolesShown(i.user, i.company))
  <2>1. Role[i.user][i.company] \in Roles /\ "super_admin" \in Roles /\ s.role \in Roles
    BY <1>2, RoleType DEF Roles, SessionStorage
  <2>2. role \in {s.role, "super_admin", Role[i.user][i.company]}
    OBVIOUS
  <2>3. known => role \in RolesShown(i.user, i.company)
    BY DEF RolesShown
  <2> QED BY <2>1, <2>2, <2>3, Zenon
<1>4. Win(w, k)
  <2>1. Win(w, [ui.win[w] EXCEPT
                  !.phase = "app", !.redux = i, !.fine = known,
                  !.session.role = IF ~known THEN @
                                   ELSE IF i.user = Admin THEN "super_admin"
                                   ELSE Role[i.user][i.company],
                  !.session.company = IF known THEN i.company ELSE @])
    BY Zenon DEF RoleAnswered
  <2>2. [ui.win[w] EXCEPT
                  !.phase = "app", !.redux = i, !.fine = known,
                  !.session.role = IF ~known THEN @
                                   ELSE IF i.user = Admin THEN "super_admin"
                                   ELSE Role[i.user][i.company],
                  !.session.company = IF known THEN i.company ELSE @] = k
    BY <1>1, <1>2 DEF Window, SessionStorage
  <2> QED BY <2>1, <2>2, Zenon
<1> HIDE DEF role
<1>5. /\ m \in SessionStorage /\ m.token = s.token /\ m.logged_in_as = s.logged_in_as
      /\ m.role = role /\ (known => m.company = i.company)
  BY <1>2, <1>3 DEF SessionStorage
<1> HIDE DEF m
<1>6. /\ k \in Window /\ k.phase = "app" /\ k.redux = i /\ k.session = m /\ (k.fine => known)
  BY <1>1, <1>2, <1>5 DEF Window
<1> HIDE DEF k, known
<1>7. SoundWindow(k, ui.typed)
  BY <1>1, <1>3, <1>5, <1>6, WindowOf DEF SoundWindow
<1> QED BY <1>1, <1>4, <1>6, <1>7, WinStep, Moved

----------------------------------------------------------------------------
(* Logging in and out.                                                     *)

(* A call that w may send.                                                 *)
LEMMA CallOf ==
  ASSUME Sound, NEW w \in Windows, NEW u \in Users, NEW c \in Somewhere,
         NEW what \in {"login", "initials", "meta_data", "token"}
  PROVE  /\ [id |-> sent, call |-> Call(what, w, u, c), served |-> FALSE] \in Request
         /\ Call(what, w, u, c).what = what /\ Call(what, w, u, c).win = w
BY DEF Call, Request, Sound, SessionType

(* What is known of a call.                                                *)
LEMMA RequestOf ==
  ASSUME Sound, NEW r \in net
  PROVE  /\ r \in Request /\ r.call.win \in Windows /\ r.call.user \in Users
         /\ r.call.company \in Somewhere
         /\ SoundCall(r.call, ui.win[r.call.win], ui.typed)
         /\ \A q \in net : q.call.win = r.call.win => q = r
BY DEF Sound, SessionType, Request

LEMMA LoginSound ==
  ASSUME Sound, NEW w \in Windows, NEW u \in Users, Login(w, u)
  PROVE  Sound'
<1> DEFINE k == [ui.win[w] EXCEPT !.fine = FALSE]
           c == Call("login", w, u, None)
<1>1. ui.win[w].phase = "app" /\ ~Waiting(w) /\ Send(c) /\ Win(w, k) /\ UNCHANGED <<page, srv>>
  BY DEF Login, At, Kept
<1>2. /\ k \in Window /\ k.fine = FALSE /\ k.phase = ui.win[w].phase
      /\ k.session = ui.win[w].session /\ k.redux = ui.win[w].redux
  BY WindowOf DEF Window
<1> HIDE DEF k
<1>3. SoundWindow(k, ui.typed)
  BY <1>1, <1>2, WindowOf DEF SoundWindow
<1>4. sent' \in Nat
  BY <1>1 DEF Send, Sound, SessionType
<1>5. StepOf(w) /\ ui'.win[w] = k
  BY <1>1, <1>2, <1>3, <1>4, WinStep
<1>6. /\ [id |-> sent, call |-> c, served |-> FALSE] \in Request /\ c.win = w /\ c.what = "login"
  <2>1. None \in Somewhere
    BY DEF Somewhere
  <2>2. sent \in Nat
    BY DEF Sound, SessionType
  <2> QED BY <2>1, <2>2 DEF Call, Request
<1> HIDE DEF c
<1>7. SoundCall(c, ui'.win[w], ui'.typed)
  BY <1>1, <1>2, <1>5, <1>6 DEF SoundCall
<1> QED BY <1>1, <1>5, <1>6, <1>7, Sends

(* A window whose session is cleared, as an answer is settled or not.      *)
LEMMA ClearedSound ==
  ASSUME Sound, NEW w \in Windows, NEW k \in Window, k.phase = "app", k.session = Cleared,
         k.redux = ui.win[w].redux
  PROVE  SoundWindow(k, ui.typed)
<1>1. Cleared.token = Nobody /\ Cleared.logged_in_as = ""
  BY DEF Cleared, ClosedWindow
<1> QED BY <1>1 DEF SoundWindow

(* The answer to a login: the token is kept, and the initials asked for.   *)
LEMMA LoginAnswerSound ==
  ASSUME Sound, NEW r \in net, NEW ok \in BOOLEAN, LoginAnswered(r, ok)
  PROVE  Sound'
<1> DEFINE w == r.call.win
           u == r.call.user
           v == ui.win[w]
<1>1. /\ w \in Windows /\ u \in Users /\ r \in Request /\ v \in Window
      /\ v.session \in SessionStorage /\ v.phase = "app" /\ ~v.fine
      /\ SoundWindow(v, ui.typed) /\ UNCHANGED <<page, sent, srv>> /\ sent \in Nat
  BY RequestOf, WindowOf DEF LoginAnswered, SoundCall, Sound, SessionType
<1>2. CASE ~ok
  <2> DEFINE k == [v EXCEPT !.session = Cleared]
  <2>1. Win(w, k) /\ net' = net \ {r}
    BY <1>2 DEF LoginAnswered
  <2>2. /\ k \in Window /\ k.phase = v.phase /\ k.session = Cleared /\ k.redux = v.redux
        /\ SoundWindow(k, ui.typed)
    <3>1. k \in Window /\ k.phase = v.phase /\ k.session = Cleared /\ k.redux = v.redux
      BY <1>1, Closed DEF Window
    <3> QED BY <1>1, <3>1, ClearedSound
  <2> HIDE DEF k
  <2>3. StepOf(w)
    BY <1>1, <2>1, <2>2, WinStep
  <2>4. \A q \in net' : q.call.win # w
    BY <2>1, RequestOf
  <2> HIDE DEF w
  <2> QED BY <1>1, <2>1, <2>3, <2>4, Moved
<1>3. CASE ok
  <2> DEFINE m == [v.session EXCEPT !.token = u]
             k == [v EXCEPT !.session.token = u]
             q == [r EXCEPT !.call.what = "initials", !.served = FALSE]
             t == ui.typed \cup {u}
  <2>1. /\ ui' = [ui EXCEPT !.win[w].session.token = u, !.local.current_user = u,
                            !.typed = @ \cup {u}]
        /\ net' = (net \ {r}) \cup {q}
    BY <1>3 DEF LoginAnswered
  <2>2. /\ ui'.win = [ui.win EXCEPT ![w] = k] /\ ui'.boots = ui.boots /\ ui'.typed = t
        /\ ui'.local = [ui.local EXCEPT !.current_user = u]
        /\ ui' = [win |-> ui'.win, typed |-> ui'.typed, boots |-> ui'.boots, local |-> ui'.local]
    BY <1>1, <2>1, WindowOf
  <2>3. /\ m \in SessionStorage /\ m.token = u /\ m.logged_in_as = v.session.logged_in_as
    BY <1>1 DEF SessionStorage, Someone
  <2>4. /\ k \in Window /\ k.session = m /\ k.phase = "app" /\ k.fine = FALSE /\ k.redux = v.redux
    <3>1. k = [v EXCEPT !.session = m]
      BY <1>1 DEF Window
    <3> HIDE DEF k, m, v
    <3> QED BY <1>1, <2>3, <3>1 DEF Window
  <2>5. /\ q \in Request /\ q.call.win = w /\ q.call.user = u /\ q.call.what = "initials"
    BY <1>1 DEF Request
  <2> HIDE DEF k, m, q
  <2>6. SoundWindow(k, t)
    BY <1>1, <2>3, <2>4 DEF SoundWindow
  <2>7. /\ ui'.local \in Local /\ SoundLocal(ui'.local, t) /\ t \in SUBSET Users
    BY <1>1, <2>2, WindowOf DEF Local, SoundLocal, Someone
  <2>8. StepOf(w) /\ ui'.win[w] = k
    <3>1. /\ ui'.typed \in SUBSET Users /\ ui'.boots \in Nat /\ ui.typed \subseteq ui'.typed
          /\ SoundWindow(k, ui'.typed) /\ SoundLocal(ui'.local, ui'.typed)
      BY <1>1, <2>2, <2>6, <2>7, WindowOf
    <3> HIDE DEF w, v, u, t
    <3> QED BY <1>1, <2>2, <2>4, <2>7, <3>1, Updated
  <2>9. /\ net' \subseteq Request
        /\ \A x \in net' : x.call.win # w => x \in net
        /\ \A x \in net' : x.call.win = w => x = q
    BY <2>1, <2>5, RequestOf
  <2>10. SoundCall(q.call, ui'.win[w], ui'.typed)
    BY <2>2, <2>3, <2>4, <2>5, <2>8 DEF SoundCall
  <2> HIDE DEF w
  <2> QED BY <1>1, <2>8, <2>9, <2>10, Replaced
<1> QED BY <1>2, <1>3

LEMMA LoginCompleteSound ==
  ASSUME Sound, NEW r \in net, NEW ok \in BOOLEAN, LoginCompleted(r, ok)
  PROVE  Sound'
<1> DEFINE w == r.call.win
           u == r.call.user
           v == ui.win[w]
           s == v.session
           i == PostLoginInitials(u)
<1>1. /\ w \in Windows /\ u \in Users /\ v \in Window /\ s \in SessionStorage
      /\ v.phase = "app" /\ u \in ui.typed /\ s.token \in {u, Nobody}
      /\ SoundWindow(v, ui.typed) /\ UNCHANGED <<page, sent, srv>> /\ sent \in Nat
  BY RequestOf, WindowOf DEF LoginCompleted, Settle, Kept, SoundCall, Sound, SessionType
<1>2. net' = net \ {r} /\ \A q \in net' : q.call.win # w
  BY RequestOf DEF LoginCompleted, Settle
<1>3. i \in InitialsType /\ i.user = u /\ i.company \in Somewhere
  BY <1>1, InitialsOf DEF InitialsType
<1>4. CASE ~ok
  <2> DEFINE k == [v EXCEPT !.session = Cleared]
  <2>1. Win(w, k)
    BY <1>4 DEF LoginCompleted
  <2>2. k \in Window /\ k.phase = v.phase /\ k.session = Cleared /\ k.redux = v.redux
    BY <1>1, Closed DEF Window
  <2> HIDE DEF k
  <2>3. StepOf(w)
    BY <1>1, <2>1, <2>2, ClearedSound, WinStep
  <2> HIDE DEF w
  <2> QED BY <1>1, <1>2, <2>3, Moved
<1>5. CASE ok
  <2> DEFINE role == IF i.user = Admin THEN "super_admin" ELSE Role[i.user][i.company]
             m == [s EXCEPT !.company = i.company, !.role = role]
             k == [v EXCEPT !.redux = i, !.fine = TRUE, !.session = m]
             n == [v EXCEPT !.redux = i, !.fine = TRUE, !.session.company = i.company,
                            !.session.role = role]
  <2>1. Win(w, n)
    BY <1>5, Zenon DEF LoginCompleted
  <2>2. role \in Roles /\ role \in RolesShown(u, i.company)
    <3>1. Role[u][i.company] \in Roles /\ "super_admin" \in Roles
      BY <1>1, <1>3, RoleType DEF Roles, Someone
    <3> QED BY <1>3, <3>1 DEF RolesShown
  <2> HIDE DEF role, i
  <2>3. n = k
    BY <1>1 DEF Window, SessionStorage
  <2>4. /\ m \in SessionStorage /\ m.token = s.token /\ m.role = role /\ m.company = i.company
        /\ m.logged_in_as = s.logged_in_as
    BY <1>1, <1>3, <2>2 DEF SessionStorage
  <2> HIDE DEF m, n
  <2>5. k \in Window /\ k.phase = "app" /\ k.redux = i /\ k.session = m
    BY <1>1, <1>3, <2>4 DEF Window
  <2> HIDE DEF k
  <2>6. SoundWindow(k, ui.typed)
    BY <1>1, <1>3, <2>2, <2>4, <2>5 DEF SoundWindow
  <2>7. StepOf(w)
    BY <1>1, <2>1, <2>3, <2>5, <2>6, WinStep
  <2> HIDE DEF w
  <2> QED BY <1>1, <1>2, <2>7, Moved
<1> QED BY <1>4, <1>5

LEMMA LogoutSound ==
  ASSUME Sound, NEW w \in Windows, Logout(w)
  PROVE  Sound'
<1> DEFINE v == ui.win[w]
           k == [v EXCEPT !.session = Cleared, !.fine = FALSE]
<1>1. v.phase = "app" /\ UNCHANGED <<page, sent, net, srv>> /\ sent \in Nat /\ v \in Window
  BY WindowOf DEF Logout, Admits, At, Still, Sound, SessionType
<1>2. /\ k \in Window /\ k.phase = "app" /\ k.session = Cleared /\ k.redux = v.redux
      /\ k.fine = FALSE
  BY <1>1, Closed DEF Window
<1>3. /\ ui'.win = [ui.win EXCEPT ![w] = k] /\ ui'.typed = ui.typed /\ ui'.boots = ui.boots
      /\ ui'.local = [current_user |-> Nobody, cached |-> NoInitials]
      /\ ui' = [win |-> ui'.win, typed |-> ui'.typed, boots |-> ui'.boots, local |-> ui'.local]
  <2>1. ui' = [ui EXCEPT !.win[w].session = Cleared, !.win[w].fine = FALSE,
                         !.local = [current_user |-> Nobody, cached |-> NoInitials]]
    BY DEF Logout
  <2> QED BY <2>1, WindowOf
<1> HIDE DEF k
<1>4. SoundWindow(k, ui.typed)
  BY <1>2, ClearedSound
<1>5. ui'.local \in Local /\ SoundLocal(ui'.local, ui.typed)
  BY <1>3, Closed DEF Local, SoundLocal, Someone, NoInitials, Initials
<1>6. StepOf(w) /\ ui'.win[w] = k
  BY <1>1, <1>2, <1>3, <1>4, <1>5, WindowOf, Updated
<1>7. ASSUME NEW r \in net, r.call.win = w PROVE SoundCall(r.call, k, ui.typed)
  <2>1. SoundCall(r.call, v, ui.typed) /\ Cleared.token = Nobody
    BY <1>7, WindowOf DEF Cleared, ClosedWindow
  <2> QED BY <1>2, <2>1 DEF SoundCall
<1> QED BY <1>1, <1>3, <1>6, <1>7, Moved

----------------------------------------------------------------------------
(* The company of the session.                                             *)

(* The initials that are changed: in a window that booted as itself they   *)
(* are of one who logged in.                                               *)
LEMMA BaseOf ==
  ASSUME Sound, NEW w \in Windows
  PROVE  /\ Base(w) \in InitialsType
         /\ ui.win[w].session.logged_in_as = "0" => Base(w).user \in ui.typed \cup {Nobody}
<1>1. /\ ui.local.cached \in InitialsType /\ Session(w).cached \in InitialsType
      /\ ui.win[w].redux \in InitialsType /\ ui.local.cached.user \in ui.typed \cup {Nobody}
  BY WindowOf DEF Session, Local, SessionStorage, Window, SoundLocal
<1> QED BY <1>1, WindowOf DEF Base, Session, SoundWindow

(* Where they are stored: s is the state of the windows then.              *)
LEMMA StoredOf ==
  ASSUME Sound, NEW w \in Windows, NEW b \in InitialsType, NEW s, s = Stored(w, b),
         ui.win[w].session.logged_in_as = "0" => b.user \in ui.typed \cup {Nobody}
  PROVE  /\ s \in [win: [Windows -> Window], typed: SUBSET Users, boots: Nat, local: Local]
         /\ s.typed = ui.typed /\ SoundLocal(s.local, ui.typed)
         /\ \A x \in Windows : x # w => s.win[x] = ui.win[x]
         /\ s.win[w].phase = ui.win[w].phase /\ s.win[w].redux = ui.win[w].redux
         /\ s.win[w].fine = ui.win[w].fine
         /\ s.win[w].session.token = ui.win[w].session.token
         /\ s.win[w].session.logged_in_as = ui.win[w].session.logged_in_as
         /\ s.win[w].session.role = ui.win[w].session.role
         /\ s.win[w].session.company = ui.win[w].session.company
<1> DEFINE v == ui.win[w]
           m == [v.session EXCEPT !.cached = b]
           k == [v EXCEPT !.session = m]
<1>1. CASE v.session.logged_in_as = "0"
  <2>1. s = [ui EXCEPT !.local.cached = b]
    BY <1>1 DEF Stored, Session
  <2>2. s.win = ui.win /\ s.typed = ui.typed /\ s.local = [ui.local EXCEPT !.cached = b]
        /\ s.boots = ui.boots
        /\ s = [win |-> s.win, typed |-> s.typed, boots |-> s.boots, local |-> s.local]
    BY <2>1, WindowOf
  <2>3. s.local \in Local /\ SoundLocal(s.local, ui.typed)
    BY <1>1, <2>2, WindowOf DEF Local, SoundLocal
  <2> QED BY <2>2, <2>3, WindowOf
<1>2. CASE v.session.logged_in_as # "0"
  <2>1. s = [ui EXCEPT !.win[w].session.cached = b]
    BY <1>2 DEF Stored, Session
  <2>2. /\ m \in SessionStorage /\ m.token = v.session.token /\ m.role = v.session.role
        /\ m.logged_in_as = v.session.logged_in_as /\ m.company = v.session.company
    BY WindowOf DEF SessionStorage
  <2>3. s.win = [ui.win EXCEPT ![w] = k] /\ s.typed = ui.typed /\ s.local = ui.local
        /\ s.boots = ui.boots
        /\ s = [win |-> s.win, typed |-> s.typed, boots |-> s.boots, local |-> s.local]
    BY <2>1, WindowOf
  <2> HIDE DEF m
  <2>4. /\ k \in Window /\ k.session = m /\ k.phase = v.phase /\ k.redux = v.redux
        /\ k.fine = v.fine
    BY <2>2, WindowOf DEF Window
  <2> HIDE DEF k
  <2> QED BY <2>2, <2>3, <2>4, WindowOf
<1> QED BY <1>1, <1>2

LEMMA SelectSound ==
  ASSUME Sound, NEW w \in Windows, NEW c \in Companies, SelectCompany(w, c)
  PROVE  Sound'
<1> DEFINE b == [Base(w) EXCEPT !.company = c]
           s == Stored(w, b)
           v == s.win[w]
           role == ListedRole(Token(w), c)
           m == [v.session EXCEPT !.role = role, !.company = c]
           k == [v EXCEPT !.session = m, !.redux = [v.redux EXCEPT !.company = c]]
           n == [v EXCEPT !.session.role = role, !.session.company = c, !.redux.company = c]
<1>1. ui.win[w].phase = "app" /\ UNCHANGED <<page, sent, net, srv>> /\ sent \in Nat /\ c \in Somewhere
  BY DEF SelectCompany, Admits, At, Still, Sound, SessionType, Somewhere
<1>2. ui' = [s EXCEPT !.win[w] = n]
  BY Zenon DEF SelectCompany
<1>3. b \in InitialsType /\ b.user = Base(w).user
  BY <1>1, BaseOf DEF InitialsType
<1>4. role \in Roles /\ role \in RolesShown(Token(w), c) /\ Token(w) = ui.win[w].session.token
  <2>1. Role[Token(w)][c] \in Roles /\ "admin" \in Roles
    BY <1>1, RoleType, WindowOf DEF Roles, Token, Session, SessionStorage
  <2> QED BY <2>1 DEF ListedRole, RolesShown, Token, Session
<1> HIDE DEF b, role
<1>5. /\ s \in [win: [Windows -> Window], typed: SUBSET Users, boots: Nat, local: Local]
      /\ s.typed = ui.typed /\ SoundLocal(s.local, ui.typed)
      /\ \A x \in Windows : x # w => s.win[x] = ui.win[x]
      /\ v.phase = ui.win[w].phase /\ v.redux = ui.win[w].redux /\ v.fine = ui.win[w].fine
      /\ v.session.token = ui.win[w].session.token
      /\ v.session.logged_in_as = ui.win[w].session.logged_in_as
  BY <1>3, BaseOf, StoredOf
<1> HIDE DEF s
<1>6. v \in Window /\ v.session \in SessionStorage /\ v.redux \in InitialsType
  BY <1>5 DEF Window
<1>7. /\ m \in SessionStorage /\ m.token = v.session.token /\ m.role = role /\ m.company = c
      /\ m.logged_in_as = v.session.logged_in_as
  BY <1>1, <1>4, <1>6 DEF SessionStorage
<1>8. /\ k \in Window /\ k.phase = v.phase /\ k.fine = v.fine /\ k.session = m
      /\ k.redux.user = v.redux.user /\ k.redux.company = c
  <2> HIDE DEF m, v
  <2> QED BY <1>1, <1>6, <1>7 DEF Window, InitialsType
<1>9. /\ ui'.win = [s.win EXCEPT ![w] = k] /\ ui'.typed = s.typed /\ ui'.local = s.local
      /\ ui'.boots = s.boots
      /\ ui' = [win |-> ui'.win, typed |-> ui'.typed, boots |-> ui'.boots, local |-> ui'.local]
  <2>1. n = k
    <3> HIDE DEF v
    <3> QED BY <1>6 DEF Window, SessionStorage
  <2> HIDE DEF n, k, v
  <2> QED BY <1>2, <1>5, <2>1
<1> HIDE DEF m, n, k
<1>10. SoundWindow(k, ui.typed)
  BY <1>1, <1>4, <1>5, <1>7, <1>8, WindowOf DEF SoundWindow
<1>11. StepOf(w) /\ ui'.win[w] = k
  BY <1>1, <1>5, <1>8, <1>9, <1>10 DEF StepOf, Sound, SessionType
<1>12. ASSUME NEW r \in net, r.call.win = w PROVE SoundCall(r.call, k, ui.typed)
  <2>1. SoundCall(r.call, ui.win[w], ui.typed)
    BY <1>12, WindowOf
  <2> QED BY <1>5, <1>7, <1>8, <2>1 DEF SoundCall
<1> QED BY <1>1, <1>5, <1>9, <1>11, <1>12, Moved

(* A step that leaves the windows as they are.                             *)
LEMMA Unmoved ==
  ASSUME Sound, NEW w \in Windows, UNCHANGED <<page, ui, srv>>, sent' \in Nat
  PROVE  StepOf(w)
BY WindowOf DEF StepOf, Sound, SessionType

LEMMA DefaultSound ==
  ASSUME Sound, NEW w \in Windows, MakeDefault(w)
  PROVE  Sound'
<1> DEFINE c == Call("meta_data", w, Token(w), ui.win[w].redux.company)
<1>1. /\ ui.win[w].phase = "app" /\ ~Waiting(w) /\ Send(c) /\ UNCHANGED <<page, ui, srv>>
      /\ Token(w) # Nobody
  BY DEF MakeDefault, Admits, At
<1>2. sent \in Nat /\ sent' \in Nat
  BY <1>1 DEF Send, Sound, SessionType
<1>3. Token(w) \in Users /\ ui.win[w].redux.company \in Somewhere
  BY <1>1, WindowOf DEF Token, Session, SessionStorage, Someone, Window, InitialsType
<1>4. /\ [id |-> sent, call |-> c, served |-> FALSE] \in Request /\ c.win = w
      /\ c.what = "meta_data"
  BY <1>2, <1>3 DEF Call, Request
<1> HIDE DEF c
<1>5. SoundCall(c, ui'.win[w], ui'.typed)
  BY <1>1, <1>4 DEF SoundCall
<1>6. StepOf(w)
  BY <1>1, <1>2, Unmoved
<1> QED BY <1>1, <1>4, <1>5, <1>6, Sends

LEMMA DefaultAnswerSound ==
  ASSUME Sound, NEW r \in net, NEW ok \in BOOLEAN, MakeDefaultAnswered(r, ok)
  PROVE  Sound'
<1> DEFINE w == r.call.win
           c == r.call.company
           b == [Base(w) EXCEPT !.default = c]
           s == Stored(w, b)
           v == s.win[w]
           k == [v EXCEPT !.redux.default = c]
<1>1. /\ w \in Windows /\ c \in Somewhere /\ ui.win[w].phase = "app"
      /\ UNCHANGED <<page, sent, srv>> /\ sent \in Nat
      /\ net' = net \ {r} /\ \A q \in net' : q.call.win # w
  BY RequestOf DEF MakeDefaultAnswered, Settle, Kept, SoundCall, Sound, SessionType
<1>2. CASE ~ok
  <2>1. StepOf(w)
    BY <1>1, <1>2, Unmoved DEF MakeDefaultAnswered
  <2> HIDE DEF w
  <2> QED BY <1>1, <2>1, Moved
<1>3. CASE ok
  <2>1. ui' = [s EXCEPT !.win[w].redux.default = c]
    BY <1>3 DEF MakeDefaultAnswered
  <2>2. b \in InitialsType /\ b.user = Base(w).user
    BY <1>1, BaseOf DEF InitialsType
  <2> HIDE DEF b, w, c
  <2>3. /\ s \in [win: [Windows -> Window], typed: SUBSET Users, boots: Nat, local: Local]
        /\ s.typed = ui.typed /\ SoundLocal(s.local, ui.typed)
        /\ \A x \in Windows : x # w => s.win[x] = ui.win[x]
        /\ v.phase = ui.win[w].phase /\ v.redux = ui.win[w].redux /\ v.fine = ui.win[w].fine
        /\ v.session.token = ui.win[w].session.token
        /\ v.session.logged_in_as = ui.win[w].session.logged_in_as
        /\ v.session.role = ui.win[w].session.role
        /\ v.session.company = ui.win[w].session.company
    BY <1>1, <2>2, BaseOf, StoredOf
  <2> HIDE DEF s
  <2>4. v \in Window
    BY <1>1, <2>3
  <2>5. /\ ui'.win = [s.win EXCEPT ![w] = k] /\ ui'.typed = s.typed /\ ui'.local = s.local
        /\ ui'.boots = s.boots
        /\ ui' = [win |-> ui'.win, typed |-> ui'.typed, boots |-> ui'.boots, local |-> ui'.local]
    BY <2>1, <2>3
  <2>6. /\ k \in Window /\ k.phase = v.phase /\ k.fine = v.fine /\ k.session = v.session
        /\ k.redux.user = v.redux.user /\ k.redux.company = v.redux.company
    <3> HIDE DEF v
    <3> QED BY <1>1, <2>4 DEF Window, InitialsType
  <2> HIDE DEF k
  <2>7. SoundWindow(k, ui.typed)
    BY <1>1, <2>3, <2>6, WindowOf DEF SoundWindow
  <2>8. StepOf(w)
    BY <1>1, <2>3, <2>5, <2>6, <2>7 DEF StepOf, Sound, SessionType
  <2> QED BY <1>1, <2>8, Moved
<1> QED BY <1>2, <1>3

----------------------------------------------------------------------------
(* Logging in as another user, in a new window.                            *)
LEMMA LoginAsSound ==
  ASSUME Sound, NEW w \in Windows, NEW u \in Users, LoginAs(w, u)
  PROVE  Sound'
<1> DEFINE c == Call("token", w, u, None)
<1>1. /\ ui.win[w].phase = "app" /\ ~Waiting(w) /\ Send(c) /\ UNCHANGED <<page, ui, srv>>
  BY DEF LoginAs, Admits, At
<1>2. sent \in Nat /\ sent' \in Nat /\ None \in Somewhere
  BY <1>1 DEF Send, Sound, SessionType, Somewhere
<1>3. /\ [id |-> sent, call |-> c, served |-> FALSE] \in Request /\ c.win = w
      /\ c.what = "token"
  BY <1>2 DEF Call, Request
<1> HIDE DEF c
<1>4. SoundCall(c, ui'.win[w], ui'.typed)
  BY <1>1, <1>3 DEF SoundCall
<1>5. StepOf(w)
  BY <1>1, <1>2, Unmoved
<1> QED BY <1>1, <1>3, <1>4, <1>5, Sends

(* The new window has a copy of its opener's session, which it does not    *)
(* read before it has put the other user's token in its place.             *)
LEMMA LoginAsAnswerSound ==
  ASSUME Sound, NEW r \in net, NEW ok \in BOOLEAN, LoginAsAnswered(r, ok)
  PROVE  Sound'
<1> DEFINE w == r.call.win
<1>1. /\ w \in Windows /\ r.call.user \in Someone /\ ui.win[w].phase = "app"
      /\ UNCHANGED <<page, sent, srv>> /\ sent \in Nat
      /\ net' = net \ {r} /\ \A q \in net' : q.call.win # w
  BY RequestOf DEF LoginAsAnswered, Settle, Kept, SoundCall, Sound, SessionType, Someone
<1>2. CASE ~ok
  <2>1. StepOf(w)
    BY <1>1, <1>2, Unmoved DEF LoginAsAnswered
  <2> HIDE DEF w
  <2> QED BY <1>1, <2>1, Moved
<1>3. CASE ok
  <2>1. PICK new \in Windows :
           /\ At(new, "closed")
           /\ Booting(new, [ClosedWindow EXCEPT !.config = r.call.user, !.session = Session(w)])
    BY <1>3 DEF LoginAsAnswered
  <2> DEFINE k == [ClosedWindow EXCEPT !.config = r.call.user, !.session = Session(w)]
  <2>2. /\ Session(w) \in SessionStorage
        /\ Session(w).logged_in_as # "1" => Session(w).token \in ui.typed \cup {Nobody}
    BY <1>1, WindowOf DEF Session, SoundWindow
  <2>3. ClosedWindow \in Window /\ ClosedWindow.redux = NoInitials
    BY Closed DEF ClosedWindow
  <2>4. k \in Window /\ k.session = Session(w) /\ k.redux = NoInitials
    BY <1>1, <2>2, <2>3 DEF Window
  <2>5. net' \subseteq net /\ \A q \in net' : q.call.win # new
    BY <1>1, <2>1, WindowOf DEF At
  <2> HIDE DEF w, k
  <2>6. Booting(new, k)
    BY <2>1 DEF k
  <2> QED BY <1>1, <2>2, <2>4, <2>5, <2>6, BootingSound
<1> QED BY <1>2, <1>3

(* The server's side of a call.                                            *)
LEMMA ServeSound ==
  ASSUME Sound, NEW r \in net, SessionServes(r)
  PROVE  Sound'
<1> DEFINE w == r.call.win
           q == [r EXCEPT !.served = TRUE]
<1>1. /\ r \in Request /\ w \in Windows /\ r.call.user \in Users /\ r.call.company \in Somewhere
      /\ SoundCall(r.call, ui.win[w], ui.typed)
  BY RequestOf
<1>2. /\ net' = (net \ {r}) \cup {q} /\ UNCHANGED <<page, sent, ui>>
      /\ srv' \in {srv, [srv EXCEPT !.default[r.call.user] = r.call.company]}
  BY DEF SessionServes, Serve
<1>3. srv' \in [default: [Users -> Somewhere]]
  BY <1>1, <1>2 DEF Sound, SessionType
<1>4. q \in Request /\ q.call = r.call
  BY <1>1 DEF Request
<1>5. StepOf(w)
  BY <1>1, <1>2, <1>3, WindowOf DEF StepOf, Sound, SessionType
<1>6. /\ net' \subseteq Request
      /\ \A x \in net' : x.call.win # w => x \in net
      /\ \A x \in net' : x.call.win = w => x = q
  BY <1>2, <1>4, RequestOf
<1> HIDE DEF q
<1>7. \A x \in net' : x.call.win = w => SoundCall(x.call, ui'.win[w], ui'.typed)
  BY <1>1, <1>2, <1>4, <1>6
<1> HIDE DEF w
<1> QED BY <1>1, <1>5, <1>6, <1>7, Replaced

----------------------------------------------------------------------------
LEMMA NextSound == Sound /\ [SessionNext]_webVars => Sound'
<1> SUFFICES ASSUME Sound, [SessionNext]_webVars PROVE Sound'
  OBVIOUS
<1>1. ASSUME NEW w \in Windows,
             OpenWindow(w) \/ Reload(w) \/ CloseWindow(w) \/ Logout(w) \/ MakeDefault(w)
      PROVE  Sound'
  BY <1>1, OpenSound, ReloadSound, CloseSound, LogoutSound, DefaultSound
<1>2. ASSUME NEW w \in Windows, NEW ok \in BOOLEAN,
             SettingsAnswered(w, ok) \/ InitialsAnswered(w, ok) \/ RoleAnswered(w, ok)
      PROVE  Sound'
  BY <1>2, SettingsSound, InitialsSound, RoleSound
<1>3. ASSUME NEW w \in Windows, NEW u \in Users, Login(w, u) \/ LoginAs(w, u) PROVE Sound'
  BY <1>3, LoginSound, LoginAsSound
<1>4. ASSUME NEW w \in Windows, NEW c \in Companies, SelectCompany(w, c) PROVE Sound'
  BY <1>4, SelectSound
<1>5. ASSUME NEW r \in net, SessionServes(r) PROVE Sound'
  BY <1>5, ServeSound
<1>6. ASSUME NEW r \in net, NEW ok \in BOOLEAN, SessionAnswers(r, ok) PROVE Sound'
  BY <1>6, LoginAnswerSound, LoginCompleteSound, DefaultAnswerSound, LoginAsAnswerSound
     DEF SessionAnswers
<1>7. CASE UNCHANGED webVars
  BY <1>7 DEF webVars, Sound, SessionType, SoundWindow, SoundCall, SoundLocal
<1> QED BY <1>1, <1>2, <1>3, <1>4, <1>5, <1>6, <1>7 DEF SessionNext

(* With any windows, users and companies, whatever the answers and their   *)
(* order: what localStorage shares between the windows is of users who     *)
(* logged in in this browser, never of one an administrator logged in as.  *)
THEOREM ImpersonationStaysHolds == SessionSpec => []ImpersonationStays
<1>1. Sound => ImpersonationStays
  BY DEF Sound, SoundLocal, ImpersonationStays
<1> QED BY <1>1, InitSound, NextSound, PTL DEF SessionSpec

(* With any windows, users, companies and roles: in a window whose last    *)
(* load or login went to its end, the store, the session's parameters and  *)
(* the role are of one user and one company.                               *)
THEOREM SessionAgreesHolds == SessionSpec => []SessionAgrees
<1>1. Sound => SessionAgrees
  BY DEF Sound, SoundWindow, SessionAgrees, Admits, At, Token, Session
<1> QED BY <1>1, InitSound, NextSound, PTL DEF SessionSpec

-----------------------------------------------------------------------------
(* The naturals are well founded: a set of them has a least, which here     *)
(* takes the place of an induction over the months.                         *)
LEMMA LeastOf ==
  ASSUME NEW R, IsWellFoundedOn(R, Nat), \A x, y \in Nat : y < x => <<y, x>> \in R,
         NEW T, \A t \in T : t \in Nat, T # {}
  PROVE  \E m \in T : \A n \in T : m <= n
<1>1. T \subseteq Nat
  BY Zenon
<1>2. PICK m \in T : \A y \in T : ~(<<y, m>> \in R)
  BY <1>1, WFMin, Zenon
<1>3. ASSUME NEW n \in T PROVE m <= n
  <2>1. m \in Nat /\ n \in Nat
    BY Zenon
  <2>2. ~(n < m)
    BY <1>2, <2>1, Zenon
  <2> QED BY <2>1, <2>2
<1> QED BY <1>3, Zenon

LEMMA LeastNat ==
  ASSUME NEW T, \A t \in T : t \in Nat, T # {}
  PROVE  \E m \in T : \A n \in T : m <= n
<1>1. \A x, y \in Nat : y < x => <<y, x>> \in OpToRel(<, Nat)
  BY DEF OpToRel
<1> QED BY <1>1, LeastOf, NatLessThanWellFounded, Zenon

----------------------------------------------------------------------------
(* The tables of the months.                                               *)
LEMMA LengthBounds == \A m \in Nat : Length(m) \in 28..31
<1> SUFFICES ASSUME NEW m \in Nat PROVE Length(m) \in 28..31
  OBVIOUS
<1> DEFINE k == m % 12
<1>1. k \in 0..11
  OBVIOUS
<1>2. Lengths[k + 1] \in 28..31
  <2> HIDE DEF k
  <2> QED BY <1>1 DEF Lengths
<1> QED BY <1>2 DEF Length

LEMMA FirstDayNext ==
  \A m \in Nat : FirstDay(m) \in Int /\ FirstDay(m + 1) = FirstDay(m) + Length(m)
<1> SUFFICES ASSUME NEW m \in Nat
             PROVE  FirstDay(m) \in Int /\ FirstDay(m + 1) = FirstDay(m) + Length(m)
  OBVIOUS
<1> DEFINE k == m % 12
           y == m \div 12
           Y == FirstYear + y
           F(yy, kk) == 365 * yy + DaysBefore[kk + 1]
                          + ((IF kk > 1 THEN FirstYear + yy ELSE (FirstYear + yy) - 1) \div 4)
                          - ((FirstYear - 1) \div 4)
<1>1. k \in 0..11 /\ y \in Nat /\ m = 12 * y + k
  OBVIOUS
<1>2. FirstYear \in Nat
  BY CalendarAssumption
<1>3. FirstDay(m) = F(y, k)
  BY DEF FirstDay
<1>4. FirstDay(m + 1) = F((m + 1) \div 12, (m + 1) % 12)
  BY DEF FirstDay
<1>5. Length(m) = IF k = 1 /\ Y % 4 = 0 THEN 29 ELSE Lengths[k + 1]
  BY DEF Length
<1>6. (m + 1) \div 12 = (IF k = 11 THEN y + 1 ELSE y) /\ (m + 1) % 12 = (IF k = 11 THEN 0 ELSE k + 1)
  BY <1>1
<1>7. (Y \div 4) - ((Y - 1) \div 4) = IF Y % 4 = 0 THEN 1 ELSE 0
  BY <1>1, <1>2
<1>8. FirstDay(m + 1) = F(IF k = 11 THEN y + 1 ELSE y, IF k = 11 THEN 0 ELSE k + 1)
  BY <1>4, <1>6
<1> HIDE DEF k, y
<1>9. F(y, k) \in Int
  BY <1>1, <1>2 DEF DaysBefore
<1>10. F(IF k = 11 THEN y + 1 ELSE y, IF k = 11 THEN 0 ELSE k + 1)
         = F(y, k) + (IF k = 1 /\ Y % 4 = 0 THEN 29 ELSE Lengths[k + 1])
  BY <1>1, <1>2, <1>7 DEF DaysBefore, Lengths
<1> QED BY <1>3, <1>5, <1>8, <1>9, <1>10

(* From the first of January of FirstYear on, 28 to 31 days a month.       *)
LEMMA FirstDayZero == FirstDay(0) = 0
<1>1. 0 \div 12 = 0 /\ 0 % 12 = 0
  OBVIOUS
<1>2. FirstYear \in Nat
  BY CalendarAssumption
<1>3. FirstDay(0) = 365 * 0 + DaysBefore[1] + (((FirstYear + 0) - 1) \div 4) - ((FirstYear - 1) \div 4)
  BY <1>1 DEF FirstDay
<1>4. DaysBefore[1] = 0
  BY DEF DaysBefore
<1> QED BY <1>2, <1>3, <1>4

LEMMA FirstDayBounds == \A m \in Nat : 28 * m <= FirstDay(m) /\ FirstDay(m) <= 31 * m
<1> DEFINE Off == {m \in Nat : ~(28 * m <= FirstDay(m) /\ FirstDay(m) <= 31 * m)}
<1> SUFFICES ASSUME Off # {} PROVE FALSE
  OBVIOUS
<1>1. PICK n \in Off : \A j \in Off : n <= j
  BY LeastNat
<1>2. n \in Nat /\ n # 0
  BY FirstDayZero
<1>3. n - 1 \in Nat /\ n - 1 \notin Off /\ (n - 1) + 1 = n
  BY <1>1, <1>2
<1>4. 28 * (n - 1) <= FirstDay(n - 1) /\ FirstDay(n - 1) <= 31 * (n - 1)
  BY <1>3
<1>5. FirstDay(n - 1) \in Int /\ FirstDay(n) = FirstDay(n - 1) + Length(n - 1)
  BY <1>3, FirstDayNext
<1>6. Length(n - 1) \in 28..31
  BY <1>3, LengthBounds
<1>7. 28 * n <= FirstDay(n) /\ FirstDay(n) <= 31 * n
  BY <1>2, <1>4, <1>5, <1>6
<1> QED BY <1>2, <1>7

LEMMA FirstDayGrows ==
  \A m, n \in Nat : m < n => FirstDay(m) + Length(m) <= FirstDay(n)
<1> SUFFICES ASSUME NEW m \in Nat PROVE \A n \in Nat : m < n => FirstDay(m + 1) <= FirstDay(n)
  BY FirstDayNext
<1> DEFINE Off == {n \in Nat : m < n /\ ~(FirstDay(m + 1) <= FirstDay(n))}
<1> SUFFICES ASSUME Off # {} PROVE FALSE
  OBVIOUS
<1>1. PICK n \in Off : \A j \in Off : n <= j
  BY LeastNat
<1>2. m + 1 \in Nat /\ FirstDay(m + 1) \in Int /\ FirstDay(n) \in Int
  BY FirstDayNext
<1>3. n # m + 1
  BY <1>2
<1>4. n - 1 \in Nat /\ m < n - 1 /\ n - 1 \notin Off /\ (n - 1) + 1 = n
  BY <1>1, <1>3
<1>5. FirstDay(m + 1) <= FirstDay(n - 1)
  BY <1>4
<1>6. FirstDay(n - 1) \in Int /\ FirstDay(n) = FirstDay(n - 1) + Length(n - 1)
  BY <1>4, FirstDayNext
<1>7. Length(n - 1) \in 28..31
  BY <1>4, LengthBounds
<1>8. FirstDay(m + 1) <= FirstDay(n)
  BY <1>2, <1>5, <1>6, <1>7
<1> QED BY <1>8

(* Each day is of one month, and MonthOf finds it.                         *)
InMonth(day, m) == day - FirstDay(m) \in 0..(Length(m) - 1)

LEMMA MonthIsOne ==
  ASSUME NEW day \in Int, NEW m \in Nat, NEW n \in Nat, InMonth(day, m), InMonth(day, n) PROVE m = n
<1>1. /\ FirstDay(m) \in Int /\ FirstDay(n) \in Int
      /\ Length(m) \in 28..31 /\ Length(n) \in 28..31
  BY FirstDayNext, LengthBounds
<1>2. FirstDay(m) <= day /\ day < FirstDay(m) + Length(m)
  BY <1>1 DEF InMonth
<1>3. FirstDay(n) <= day /\ day < FirstDay(n) + Length(n)
  BY <1>1 DEF InMonth
<1>4. m < n => FirstDay(m) + Length(m) <= FirstDay(n)
  BY FirstDayGrows
<1>5. n < m => FirstDay(n) + Length(n) <= FirstDay(m)
  BY FirstDayGrows
<1> QED BY <1>1, <1>2, <1>3, <1>4, <1>5

LEMMA MonthIsFound ==
  ASSUME NEW day \in Nat PROVE MonthOf(day) \in Nat /\ InMonth(day, MonthOf(day))
<1> DEFINE Later == {n \in Nat : day < FirstDay(n)}
<1>1. day + 1 \in Later
  <2>1. 28 * (day + 1) <= FirstDay(day + 1) /\ FirstDay(day + 1) \in Int
    BY FirstDayBounds, FirstDayNext
  <2> QED BY <2>1
<1>2. PICK n \in Later : \A j \in Later : n <= j
  BY <1>1, LeastNat
<1>3. n \in Nat /\ n # 0 /\ day < FirstDay(n) /\ FirstDay(n) \in Int
  BY FirstDayZero, FirstDayNext
<1> DEFINE m == n - 1
<1>4. m \in Nat /\ m \notin Later /\ m + 1 = n
  BY <1>2, <1>3
<1>5. FirstDay(m) <= day /\ FirstDay(m) \in Int
  BY <1>4, FirstDayNext
<1>6. FirstDay(n) = FirstDay(m) + Length(m) /\ Length(m) \in 28..31
  BY <1>4, FirstDayNext, LengthBounds
<1>7. InMonth(day, m)
  BY <1>3, <1>5, <1>6 DEF InMonth
<1>8. 28 * m <= day /\ day < 31 * (m + 1)
  <2>1. 28 * m <= FirstDay(m) /\ FirstDay(n) <= 31 * n
    BY <1>3, <1>4, FirstDayBounds
  <2> QED BY <1>3, <1>4, <1>5, <2>1
<1>9. m \in (day \div 31)..(day \div 28)
  <2> HIDE DEF m
  <2> QED BY <1>4, <1>8
<1>10. \E k \in (day \div 31)..(day \div 28) : InMonth(day, k)
  BY <1>7, <1>9
<1>11. MonthOf(day) = CHOOSE k \in (day \div 31)..(day \div 28) : InMonth(day, k)
  BY DEF MonthOf, InMonth
<1>12. MonthOf(day) \in (day \div 31)..(day \div 28) /\ InMonth(day, MonthOf(day))
  BY <1>10, <1>11
<1>13. day \div 31 \in Nat
  OBVIOUS
<1> QED BY <1>12, <1>13

(* AddMonths leads to the month it says, and later for more months.        *)
LEMMA MonthsAdded ==
  ASSUME NEW day \in Nat, NEW n \in Nat
  PROVE  AddMonths(day, n) \in Nat /\ MonthOf(AddMonths(day, n)) = MonthOf(day) + n
<1> DEFINE m == MonthOf(day)
           nth == day - FirstDay(m)
           there == FirstDay(m + n) + (IF nth < Length(m + n) THEN nth ELSE Length(m + n) - 1)
<1>1. m \in Nat /\ nth \in 0..(Length(m) - 1)
  BY MonthIsFound DEF InMonth
<1>2. m + n \in Nat
  BY <1>1
<1>3. /\ Length(m) \in 28..31 /\ Length(m + n) \in 28..31
      /\ FirstDay(m + n) \in Int /\ 28 * (m + n) <= FirstDay(m + n)
  BY <1>1, <1>2, LengthBounds, FirstDayNext, FirstDayBounds
<1>4. AddMonths(day, n) = there
  BY DEF AddMonths
<1> HIDE DEF m, nth
<1>5. there \in Nat /\ InMonth(there, m + n)
  BY <1>1, <1>2, <1>3 DEF InMonth
<1> HIDE DEF there
<1>6. MonthOf(there) \in Nat /\ InMonth(there, MonthOf(there))
  BY <1>5, MonthIsFound
<1>7. MonthOf(there) = m + n
  BY <1>2, <1>5, <1>6, MonthIsOne
<1> QED BY <1>4, <1>5, <1>7 DEF m

LEMMA LaterMonthLater ==
  ASSUME NEW a \in Nat, NEW b \in Nat, MonthOf(a) < MonthOf(b) PROVE a < b
<1>1. /\ MonthOf(a) \in Nat /\ InMonth(a, MonthOf(a))
      /\ MonthOf(b) \in Nat /\ InMonth(b, MonthOf(b))
  BY MonthIsFound
<1>2. FirstDay(MonthOf(a)) + Length(MonthOf(a)) <= FirstDay(MonthOf(b))
  BY <1>1, FirstDayGrows
<1>3. /\ FirstDay(MonthOf(a)) \in Int /\ FirstDay(MonthOf(b)) \in Int
      /\ Length(MonthOf(a)) \in 28..31 /\ Length(MonthOf(b)) \in 28..31
  BY <1>1, FirstDayNext, LengthBounds
<1>4. a < FirstDay(MonthOf(a)) + Length(MonthOf(a)) /\ FirstDay(MonthOf(b)) <= b
  BY <1>1, <1>3 DEF InMonth
<1> QED BY <1>2, <1>3, <1>4

LEMMA MonthsGrow ==
  ASSUME NEW day \in Nat, NEW i \in Nat, NEW j \in Nat, i < j
  PROVE  AddMonths(day, i) < AddMonths(day, j)
<1>1. /\ AddMonths(day, i) \in Nat /\ MonthOf(AddMonths(day, i)) = MonthOf(day) + i
      /\ AddMonths(day, j) \in Nat /\ MonthOf(AddMonths(day, j)) = MonthOf(day) + j
  BY MonthsAdded
<1>2. MonthOf(day) \in Nat
  BY MonthIsFound
<1> QED BY <1>1, <1>2, LaterMonthLater

LEMMA NoMonthAdded == ASSUME NEW day \in Nat PROVE AddMonths(day, 0) = day
<1> DEFINE m == MonthOf(day)
<1>1. m \in Nat /\ day - FirstDay(m) \in 0..(Length(m) - 1) /\ m + 0 = m
  BY MonthIsFound DEF InMonth
<1>2. Length(m) \in 28..31 /\ FirstDay(m) \in Int
  BY <1>1, LengthBounds, FirstDayNext
<1>3. AddMonths(day, 0) =
        FirstDay(m + 0) + (IF day - FirstDay(m) < Length(m + 0) THEN day - FirstDay(m) ELSE Length(m + 0) - 1)
  BY DEF AddMonths
<1> HIDE DEF m
<1> QED BY <1>1, <1>2, <1>3

(* Whole months: not beyond now, and one more is.                          *)
LEMMA WholeMonthsSound ==
  ASSUME NEW start \in Nat, NEW now \in Nat, start <= now
  PROVE  /\ WholeMonths(now, start) \in Nat
         /\ AddMonths(start, WholeMonths(now, start)) <= now
         /\ now < AddMonths(start, WholeMonths(now, start) + 1)
<1> DEFINE n == MonthOf(now) - MonthOf(start)
<1>1. MonthOf(now) \in Nat /\ MonthOf(start) \in Nat
  BY MonthIsFound
<1>2. ~(MonthOf(now) < MonthOf(start))
  BY LaterMonthLater
<1>3. n \in Nat /\ MonthOf(start) + n = MonthOf(now)
  BY <1>1, <1>2
<1>4. WholeMonths(now, start) = IF AddMonths(start, n) > now THEN n - 1 ELSE n
  BY DEF WholeMonths
<1> HIDE DEF n
<1>5. CASE AddMonths(start, n) > now
  <2>1. AddMonths(start, 0) = start
    BY NoMonthAdded
  <2>2. n # 0
    BY <1>5, <2>1
  <2>3. n - 1 \in Nat /\ (n - 1) + 1 = n
    BY <1>3, <2>2
  <2>4. AddMonths(start, n - 1) \in Nat /\ MonthOf(AddMonths(start, n - 1)) = MonthOf(start) + (n - 1)
    BY <2>3, MonthsAdded
  <2>5. MonthOf(AddMonths(start, n - 1)) < MonthOf(now)
    BY <1>1, <1>3, <2>3, <2>4
  <2>6. AddMonths(start, n - 1) < now
    BY <2>4, <2>5, LaterMonthLater
  <2>7. AddMonths(start, n) \in Nat
    BY <1>3, MonthsAdded
  <2> QED BY <1>4, <1>5, <2>3, <2>4, <2>6, <2>7
<1>6. CASE ~(AddMonths(start, n) > now)
  <2>1. /\ AddMonths(start, n) \in Nat /\ AddMonths(start, n + 1) \in Nat
        /\ MonthOf(AddMonths(start, n + 1)) = MonthOf(start) + (n + 1)
    <3>1. n + 1 \in Nat
      BY <1>3
    <3> QED BY <1>3, <3>1, MonthsAdded
  <2>2. MonthOf(now) < MonthOf(AddMonths(start, n + 1))
    BY <1>1, <1>3, <2>1
  <2>3. now < AddMonths(start, n + 1)
    BY <2>1, <2>2, LaterMonthLater
  <2> QED BY <1>3, <1>4, <1>6, <2>1, <2>3
<1> QED BY <1>5, <1>6

----------------------------------------------------------------------------
(* The dates of get_next_runtime.                                          *)

(* A day counts if it is one of the event and the event repeats.           *)
Repeating(start, unit) == [start |-> start, repeat |-> TRUE, unit |-> unit]
IsNextDate(start, unit, now, next) ==
  /\ next \in Nat /\ now < next
  /\ Occurs(Repeating(start, unit), next)
  /\ \A day \in Nat : now < day /\ day < next => ~Occurs(Repeating(start, unit), day)

LEMMA OccursMonthly ==
  ASSUME NEW start \in Nat, NEW day \in Nat, start <= day,
         NEW step \in {1, 12}, NEW unit, unit = IF step = 1 THEN "month" ELSE "year"
  PROVE  /\ Occurs(Repeating(start, unit), day) =>
              \E k \in Nat : day = AddMonths(start, step * k)
         /\ \A k \in Nat : AddMonths(start, step * k) = day => Occurs(Repeating(start, unit), day)
<1>1. MonthOf(day) \in Nat /\ MonthOf(start) \in Nat
  BY MonthIsFound
<1>2. MonthOf(start) <= MonthOf(day)
  <2>1. ~(MonthOf(day) < MonthOf(start))
    BY LaterMonthLater
  <2> QED BY <1>1, <2>1
<1> DEFINE n == MonthOf(day) - MonthOf(start)
<1>3. n \in Nat /\ MonthOf(day) = MonthOf(start) + n
  BY <1>1, <1>2
<1>4. AddMonths(start, 0) = start
  BY NoMonthAdded
<1>5. ASSUME Occurs(Repeating(start, unit), day) PROVE \E k \in Nat : day = AddMonths(start, step * k)
  <2>1. CASE day = start
    <3>1. step * 0 = 0
      OBVIOUS
    <3> QED BY <1>4, <2>1, <3>1
  <2>2. CASE day # start /\ step = 1
    <3>1. day = AddMonths(start, n)
      BY <1>5, <2>2 DEF Occurs, Repeating
    <3>2. n = step * n
      BY <1>3, <2>2
    <3> HIDE DEF n
    <3> QED BY <1>3, <3>1, <3>2
  <2>3. CASE day # start /\ step = 12
    <3>1. day = AddMonths(start, n) /\ n % 12 = 0
      BY <1>5, <2>3 DEF Occurs, Repeating
    <3> HIDE DEF n
    <3>2. n \div 12 \in Nat /\ n = 12 * (n \div 12)
      BY <1>3, <3>1
    <3> QED BY <2>3, <3>1, <3>2
  <2> QED BY <2>1, <2>2, <2>3
<1>6. ASSUME NEW k \in Nat, AddMonths(start, step * k) = day PROVE Occurs(Repeating(start, unit), day)
  <2>1. step * k \in Nat /\ (step = 12 => (step * k) % 12 = 0)
    OBVIOUS
  <2>2. MonthOf(day) = MonthOf(start) + step * k
    BY <1>6, <2>1, MonthsAdded
  <2>3. n = step * k
    BY <1>1, <2>1, <2>2
  <2>4. day = AddMonths(start, n) /\ (step = 12 => n % 12 = 0)
    BY <1>6, <2>1, <2>3
  <2>5. CASE day = start
    BY <2>5 DEF Occurs, Repeating
  <2>6. CASE day # start /\ step = 1
    <3>1. day > start /\ unit = "month"
      BY <2>6
    <3>2. day = AddMonths(start, MonthOf(day) - MonthOf(start))
      BY <2>4
    <3> QED BY <3>1, <3>2 DEF Occurs, Repeating
  <2>7. CASE day # start /\ step = 12
    <3>1. day > start /\ unit = "year"
      BY <2>7
    <3>2. /\ day = AddMonths(start, MonthOf(day) - MonthOf(start))
          /\ (MonthOf(day) - MonthOf(start)) % 12 = 0
      BY <2>4, <2>7
    <3> QED BY <3>1, <3>2 DEF Occurs, Repeating
  <2> QED BY <2>5, <2>6, <2>7
<1> QED BY <1>5, <1>6

(* Months and years: the next date is that of so many steps after start.   *)
LEMMA NextInMonths ==
  ASSUME NEW start \in Nat, NEW now \in Nat, start <= now,
         NEW step \in {1, 12}, NEW unit, unit = IF step = 1 THEN "month" ELSE "year",
         NEW next, next = AddMonths(start, step * ((WholeMonths(now, start) \div step) + 1))
  PROVE  IsNextDate(start, unit, now, next)
<1> DEFINE n == WholeMonths(now, start)
           k == (n \div step) + 1
<1>1. n \in Nat /\ AddMonths(start, n) <= now /\ now < AddMonths(start, n + 1)
  BY WholeMonthsSound
<1>2. next = AddMonths(start, step * k)
  OBVIOUS
<1> HIDE DEF n
<1>3. k \in Nat /\ n + 1 <= step * k /\ step * (k - 1) <= n /\ step * k \in Nat
  BY <1>1
<1> HIDE DEF k
<1>4. next \in Nat /\ AddMonths(start, n + 1) \in Nat /\ AddMonths(start, n) \in Nat
  <2>1. n + 1 \in Nat
    BY <1>1
  <2> QED BY <1>1, <1>2, <1>3, <2>1, MonthsAdded
<1>5. AddMonths(start, n + 1) <= next
  <2>1. n + 1 \in Nat
    BY <1>1
  <2>2. CASE n + 1 = step * k
    BY <1>2, <1>4, <2>2
  <2>3. CASE n + 1 < step * k
    <3>1. AddMonths(start, n + 1) < AddMonths(start, step * k)
      BY <1>3, <2>1, <2>3, MonthsGrow
    <3> QED BY <1>2, <1>4, <3>1
  <2> QED BY <1>1, <1>3, <2>2, <2>3
<1>6. now < next
  BY <1>1, <1>4, <1>5
<1>7. Occurs(Repeating(start, unit), next)
  <2>1. start <= next
    BY <1>4, <1>6
  <2>2. \A i \in Nat : AddMonths(start, step * i) = next => Occurs(Repeating(start, unit), next)
    BY <1>4, <2>1, OccursMonthly
  <2> QED BY <1>2, <1>3, <2>2
<1>8. ASSUME NEW day \in Nat, now < day, day < next, Occurs(Repeating(start, unit), day)
      PROVE  FALSE
  <2>1. start <= day
    BY <1>8
  <2>2. PICK i \in Nat : day = AddMonths(start, step * i)
    BY <1>8, <2>1, OccursMonthly
  <2>3. step * i \in Nat
    OBVIOUS
  <2>4. ~(step * i < n) /\ step * i # n
    <3>1. step * i < n => AddMonths(start, step * i) < AddMonths(start, n)
      BY <1>1, <2>3, MonthsGrow
    <3> QED BY <1>1, <1>4, <1>8, <2>2, <3>1
  <2>5. ~(step * k < step * i) /\ step * i # step * k
    <3>1. step * k < step * i => AddMonths(start, step * k) < AddMonths(start, step * i)
      BY <1>3, <2>3, MonthsGrow
    <3> QED BY <1>2, <1>4, <1>8, <2>2, <3>1
  <2>6. n < step * i /\ step * i < step * k
    BY <1>1, <1>3, <2>3, <2>4, <2>5
  <2>7. step * (k - 1) < step * i
    BY <1>1, <1>3, <2>3, <2>6
  <2> QED BY <1>3, <2>6, <2>7
<1> QED BY <1>4, <1>6, <1>7, <1>8 DEF IsNextDate

LEMMA NotBefore == \A e, day : Occurs(e, day) => day = e.start \/ day > e.start
BY Zenon DEF Occurs

LEMMA NextDaily ==
  ASSUME NEW start \in Nat, NEW now \in Nat, start <= now PROVE IsNextDate(start, "day", now, now + 1)
<1>1. Occurs(Repeating(start, "day"), now + 1)
  BY DEF Occurs, Repeating
<1> QED BY <1>1 DEF IsNextDate

(* What get_next_runtime makes of an event that repeats, weeks aside.      *)
LEMMA NextIsNext ==
  ASSUME NEW start \in Nat, NEW now \in Nat, NEW unit \in Units, unit # "week"
  PROVE  IsNextDate(start, unit, now, NextRuntime(start, unit, now))
<1> DEFINE n == WholeMonths(now, start)
           next == NextRuntime(start, unit, now)
<1>1. CASE start > now
  <2>1. next = start
    BY <1>1 DEF NextRuntime
  <2>2. Occurs(Repeating(start, unit), start)
    BY DEF Occurs, Repeating
  <2>3. ASSUME NEW day \in Nat, now < day, day < start PROVE ~Occurs(Repeating(start, unit), day)
    BY <2>3, NotBefore DEF Repeating
  <2> HIDE DEF next
  <2>4. IsNextDate(start, unit, now, next)
    BY <1>1, <2>1, <2>2, <2>3 DEF IsNextDate
  <2> QED BY <2>4 DEF next
<1>2. CASE start <= now /\ unit = "day"
  <2>1. n \in Nat /\ AddMonths(start, n) \in Nat
    BY <1>2, WholeMonthsSound, MonthsAdded
  <2>2. next = AddMonths(start, n) + DaysAbove(now, start) + 1
    BY <1>2 DEF NextRuntime
  <2>3. DaysAbove(now, start) = now - AddMonths(start, n)
    BY DEF DaysAbove
  <2> HIDE DEF n, next
  <2>4. next = now + 1
    BY <2>1, <2>2, <2>3
  <2>5. IsNextDate(start, unit, now, next)
    BY <1>2, <2>4, NextDaily
  <2> QED BY <2>5 DEF next
<1>3. CASE start <= now /\ unit = "month"
  <2>1. n \in Nat /\ 1 * ((n \div 1) + 1) = n + 1
    BY <1>3, WholeMonthsSound
  <2>2. next = AddMonths(start, n + 1)
    BY <1>3 DEF NextRuntime
  <2> HIDE DEF next
  <2>3. IsNextDate(start, unit, now, next)
    BY <1>3, <2>1, <2>2, NextInMonths
  <2> QED BY <2>3 DEF next
<1>4. CASE start <= now /\ unit = "year"
  <2>1. next = AddMonths(start, 12 * (n \div 12 + 1))
    BY <1>4 DEF NextRuntime
  <2> HIDE DEF next
  <2>2. IsNextDate(start, unit, now, next)
    BY <1>4, <2>1, NextInMonths
  <2> QED BY <2>2 DEF next
<1> QED BY <1>1, <1>2, <1>3, <1>4 DEF Units

(* Weeks: a day of the week within thirteen days, and after an occurrence  *)
(* exactly seven days later.                                               *)
LEMMA NextWeekly ==
  ASSUME NEW start \in Nat, NEW now \in Nat, start <= now,
         NEW next, next = NextRuntime(start, "week", now)
  PROVE  /\ next \in Nat /\ now < next /\ next <= now + 13
         /\ (next - start) % 7 = 0
         /\ (now - start) % 7 = 0 => next = now + 7
<1> DEFINE n == WholeMonths(now, start)
           last == AddMonths(start, n)
           above == DaysAbove(now, start)
           d == last + 7 * (above \div 7 + 1)
<1>1. n \in Nat /\ last \in Nat /\ last <= now
  BY WholeMonthsSound, MonthsAdded
<1>2. above = now - last
  BY DEF DaysAbove
<1>3. next = OnWeekday(d, start)
  BY DEF NextRuntime
<1>4. OnWeekday(d, start) = d + ((start - d) % 7)
  BY DEF OnWeekday
<1> HIDE DEF n, last, above
<1>5. above \in Nat /\ d \in Nat /\ now < d /\ d <= now + 7
  BY <1>1, <1>2
<1> HIDE DEF d
<1>6. (start - d) % 7 \in 0..6
  BY <1>5
<1>7. next \in Nat /\ now < next /\ next <= now + 13
  BY <1>3, <1>4, <1>5, <1>6
<1>8. (next - start) % 7 = 0
  BY <1>3, <1>4, <1>5
<1>9. (now - start) % 7 = 0 => next = now + 7
  BY <1>3, <1>4, <1>5
<1> QED BY <1>7, <1>8, <1>9

----------------------------------------------------------------------------
(* What is kept from save to save.                                         *)
IsEvent(e) == e.start \in Nat /\ e.repeat \in BOOLEAN /\ e.unit \in Units

Promised(e, saved, today) == {day \in (saved + 1)..today : Occurs(e, day)}

(* An event of one day runs on it if it is saved before.                   *)
KeptOnce(e, saved, today, ran) ==
  /\ ran = Promised(e, saved, today)
  /\ e.next = IF e.start > saved THEN e.start ELSE Never

(* The next date is the first that is left of those that are promised.     *)
KeptAll(e, saved, today, ran) ==
  /\ ran = Promised(e, saved, today)
  /\ IsNextDate(e.start, e.unit, today, e.next)

(* Of weeks from first on, which may be a week late, all are kept.         *)
SameWeekday(e, day) == (day - e.start) % 7 = 0
KeptWeeks(e, saved, today, ran, first) ==
  /\ first \in Nat /\ saved < first /\ e.start <= first /\ SameWeekday(e, first)
  /\ first <= saved + 13 \/ first = e.start
  /\ ran = {day \in (saved + 1)..today : first <= day /\ SameWeekday(e, day)}
  /\ e.next \in Nat /\ today < e.next /\ first <= e.next /\ SameWeekday(e, e.next)
  /\ e.next = first \/ e.next <= today + 7

KeptDates(e, saved, today, ran) ==
  /\ ~e.repeat => KeptOnce(e, saved, today, ran)
  /\ e.repeat /\ e.unit # "week" => KeptAll(e, saved, today, ran)
  /\ e.repeat /\ e.unit = "week" => \E first \in Nat : KeptWeeks(e, saved, today, ran, first)

LEMMA OccursRepeating ==
  ASSUME NEW e, e.repeat, NEW day PROVE Occurs(e, day) <=> Occurs(Repeating(e.start, e.unit), day)
<1> DEFINE f == Repeating(e.start, e.unit)
<1>1. f.start = e.start /\ f.unit = e.unit /\ f.repeat = TRUE
  BY DEF Repeating
<1> HIDE DEF f
<1>2. Occurs(e, day) <=> Occurs(f, day)
  BY <1>1 DEF Occurs
<1> QED BY <1>2 DEF f

LEMMA OccursWeekly ==
  ASSUME NEW e, IsEvent(e), e.repeat, e.unit = "week", NEW day \in Nat
  PROVE  Occurs(e, day) <=> e.start <= day /\ SameWeekday(e, day)
<1>1. Occurs(e, day) <=> day = e.start \/ (day > e.start /\ SameWeekday(e, day))
  BY DEF Occurs, SameWeekday
<1>2. day = e.start => SameWeekday(e, day)
  BY DEF SameWeekday, IsEvent
<1> QED BY <1>1, <1>2 DEF IsEvent

LEMMA OccursOnce ==
  ASSUME NEW e, ~e.repeat, NEW day PROVE Occurs(e, day) <=> day = e.start
BY Zenon DEF Occurs

LEMMA NonePromisedYet == ASSUME NEW e, NEW now \in Nat PROVE Promised(e, now, now) = {}
BY DEF Promised

LEMMA OneMorePromised ==
  ASSUME NEW e, NEW saved \in Nat, NEW today \in Nat, saved <= today
  PROVE  /\ Occurs(e, today + 1) =>
              Promised(e, saved, today + 1) = Promised(e, saved, today) \cup {today + 1}
         /\ ~Occurs(e, today + 1) => Promised(e, saved, today + 1) = Promised(e, saved, today)
<1>1. (saved + 1)..(today + 1) = (saved + 1)..today \cup {today + 1}
  OBVIOUS
<1> QED BY <1>1, Zenon DEF Promised

LEMMA KeptWhenSaved ==
  ASSUME NEW e, IsEvent(e), NEW now \in Nat,
         e.next = get_next_runtime(e.start, e.repeat, e.unit, now)
  PROVE  KeptDates(e, now, now, {})
<1>1. CASE ~e.repeat
  <2>1. e.next = IF e.start > now THEN e.start ELSE Never
    <3>1. CASE e.start > now
      BY <3>1 DEF get_next_runtime, NextRuntime, IsEvent
    <3>2. CASE ~(e.start > now)
      BY <1>1, <3>2 DEF get_next_runtime, IsEvent
    <3> QED BY <3>1, <3>2
  <2> QED BY <1>1, <2>1, NonePromisedYet DEF KeptDates, KeptOnce
<1>2. CASE e.repeat /\ e.unit # "week"
  <2>1. e.next = NextRuntime(e.start, e.unit, now)
    BY <1>2 DEF get_next_runtime
  <2>2. IsNextDate(e.start, e.unit, now, e.next)
    BY <1>2, <2>1, NextIsNext DEF IsEvent
  <2> QED BY <1>2, <2>2, NonePromisedYet DEF KeptDates, KeptAll
<1>3. CASE e.repeat /\ e.unit = "week"
  <2>1. e.next = NextRuntime(e.start, "week", now)
    BY <1>3 DEF get_next_runtime
  <2>2. /\ e.next \in Nat /\ now < e.next /\ SameWeekday(e, e.next)
        /\ e.next <= now + 13 \/ e.next = e.start
        /\ e.start <= e.next
    <3>1. CASE e.start > now
      <4>1. e.next = e.start
        BY <2>1, <3>1 DEF NextRuntime, IsEvent
      <4> QED BY <3>1, <4>1 DEF IsEvent, SameWeekday
    <3>2. CASE ~(e.start > now)
      <4>1. e.start <= now
        BY <3>2 DEF IsEvent
      <4>2. /\ e.next \in Nat /\ now < e.next /\ e.next <= now + 13
            /\ (e.next - e.start) % 7 = 0
        BY <2>1, <4>1, NextWeekly DEF IsEvent
      <4> QED BY <4>1, <4>2 DEF IsEvent, SameWeekday
    <3> QED BY <3>1, <3>2
  <2>3. {day \in (now + 1)..now : e.next <= day /\ SameWeekday(e, day)} = {}
    OBVIOUS
  <2>4. KeptWeeks(e, now, now, {}, e.next)
    BY <2>2, <2>3 DEF KeptWeeks, IsEvent
  <2> QED BY <1>3, <2>2, <2>4 DEF KeptDates
<1> QED BY <1>1, <1>2, <1>3

(* A day on which the event is not due.                                    *)
LEMMA KeptWhenIdle ==
  ASSUME NEW e, IsEvent(e), NEW saved \in Nat, NEW today \in Nat, saved <= today, NEW ran,
         KeptDates(e, saved, today, ran), e.next # today + 1
  PROVE  KeptDates(e, saved, today + 1, ran)
<1>1. CASE ~e.repeat
  <2>1. KeptOnce(e, saved, today, ran)
    BY <1>1 DEF KeptDates
  <2>2. today + 1 # e.start
    BY <2>1 DEF KeptOnce, IsEvent
  <2>3. ~Occurs(e, today + 1)
    BY <1>1, <2>2, OccursOnce, Zenon
  <2>4. Promised(e, saved, today + 1) = Promised(e, saved, today)
    BY <2>3, OneMorePromised, Zenon
  <2> QED BY <1>1, <2>1, <2>4 DEF KeptDates, KeptOnce
<1>2. CASE e.repeat /\ e.unit # "week"
  <2>1. KeptAll(e, saved, today, ran)
    BY <1>2 DEF KeptDates
  <2>2. /\ e.next \in Nat /\ today < e.next
        /\ \A day \in Nat : today < day /\ day < e.next => ~Occurs(Repeating(e.start, e.unit), day)
        /\ Occurs(Repeating(e.start, e.unit), e.next)
    BY <2>1 DEF KeptAll, IsNextDate
  <2>3. today + 1 \in Nat /\ today + 1 < e.next
    BY <2>2
  <2>4. ~Occurs(e, today + 1)
    <3>1. ~Occurs(Repeating(e.start, e.unit), today + 1)
      BY <2>2, <2>3
    <3> QED BY <1>2, <3>1, OccursRepeating, Zenon
  <2>5. Promised(e, saved, today + 1) = Promised(e, saved, today)
    BY <2>4, OneMorePromised
  <2>6. IsNextDate(e.start, e.unit, today + 1, e.next)
    BY <2>2, <2>3 DEF IsNextDate
  <2> QED BY <1>2, <2>1, <2>5, <2>6 DEF KeptDates, KeptAll
<1>3. CASE e.repeat /\ e.unit = "week"
  <2>1. PICK first \in Nat : KeptWeeks(e, saved, today, ran, first)
    BY <1>3 DEF KeptDates
  <2>2. today + 1 < e.next
    BY <2>1 DEF KeptWeeks
  <2>3. ~(first <= today + 1 /\ SameWeekday(e, today + 1))
    <3> SUFFICES ASSUME first <= today + 1, SameWeekday(e, today + 1) PROVE FALSE
      OBVIOUS
    <3>1. e.next <= today + 7 /\ e.next \in Nat /\ SameWeekday(e, e.next)
      BY <2>1, <2>2 DEF KeptWeeks
    <3> QED BY <2>2, <3>1 DEF SameWeekday, IsEvent
  <2>4. (saved + 1)..(today + 1) = (saved + 1)..today \cup {today + 1}
    OBVIOUS
  <2>5. {day \in (saved + 1)..(today + 1) : first <= day /\ SameWeekday(e, day)}
          = {day \in (saved + 1)..today : first <= day /\ SameWeekday(e, day)}
    BY <2>3, <2>4, Zenon
  <2>6. KeptWeeks(e, saved, today + 1, ran, first)
    BY <2>1, <2>2, <2>5 DEF KeptWeeks
  <2> QED BY <1>3, <2>6 DEF KeptDates
<1> QED BY <1>1, <1>2, <1>3

(* A day on which it is.                                                   *)
LEMMA KeptWhenRun ==
  ASSUME NEW e, IsEvent(e), NEW saved \in Nat, NEW today \in Nat, saved <= today, NEW ran,
         KeptDates(e, saved, today, ran), e.next = today + 1,
         NEW f, f.start = e.start, f.repeat = e.repeat, f.unit = e.unit,
         f.next = IF e.repeat THEN NextRuntime(e.start, e.unit, today + 1) ELSE e.next
  PROVE  KeptDates(f, saved, today + 1, ran \cup {today + 1})
<1>0. \A day : Occurs(f, day) <=> Occurs(e, day)
  BY Zenon DEF Occurs
<1>1. \A to : Promised(f, saved, to) = Promised(e, saved, to)
  BY <1>0, Zenon DEF Promised
<1>2. CASE ~e.repeat
  <2>1. KeptOnce(e, saved, today, ran)
    BY <1>2 DEF KeptDates
  <2>2. today + 1 = e.start
    BY <2>1 DEF KeptOnce, Never
  <2>3. Promised(e, saved, today + 1) = Promised(e, saved, today) \cup {today + 1}
    BY <1>2, <2>2, OccursOnce, OneMorePromised
  <2> QED BY <1>1, <1>2, <2>1, <2>3 DEF KeptDates, KeptOnce
<1>3. CASE e.repeat /\ e.unit # "week"
  <2>1. KeptAll(e, saved, today, ran)
    BY <1>3 DEF KeptDates
  <2>2. Occurs(e, today + 1)
    <3>1. Occurs(Repeating(e.start, e.unit), today + 1)
      BY <2>1 DEF KeptAll, IsNextDate
    <3> QED BY <1>3, <3>1, OccursRepeating, Zenon
  <2>3. Promised(e, saved, today + 1) = Promised(e, saved, today) \cup {today + 1}
    BY <2>2, OneMorePromised
  <2>4. today + 1 \in Nat
    OBVIOUS
  <2>5. IsNextDate(f.start, f.unit, today + 1, f.next)
    BY <1>3, <2>4, NextIsNext DEF IsEvent
  <2> QED BY <1>1, <1>3, <2>1, <2>3, <2>5 DEF KeptDates, KeptAll
<1>4. CASE e.repeat /\ e.unit = "week"
  <2>1. PICK first \in Nat : KeptWeeks(e, saved, today, ran, first)
    BY <1>4 DEF KeptDates
  <2>2. today + 1 \in Nat /\ e.start <= today + 1 /\ first <= today + 1 /\ SameWeekday(e, today + 1)
    BY <2>1 DEF KeptWeeks, IsEvent
  <2>3. f.next = today + 1 + 7
    <3>1. NextRuntime(e.start, "week", today + 1) = today + 1 + 7
      BY <2>2, NextWeekly DEF IsEvent, SameWeekday
    <3> QED BY <1>4, <3>1
  <2>4. \A day : SameWeekday(f, day) <=> SameWeekday(e, day)
    BY DEF SameWeekday
  <2>5. SameWeekday(e, today + 1 + 7)
    BY <2>2 DEF SameWeekday, IsEvent
  <2>6. (saved + 1)..(today + 1) = (saved + 1)..today \cup {today + 1}
    OBVIOUS
  <2>7. {day \in (saved + 1)..(today + 1) : first <= day /\ SameWeekday(f, day)}
          = {day \in (saved + 1)..today : first <= day /\ SameWeekday(e, day)} \cup {today + 1}
    BY <2>2, <2>4, <2>6, Zenon
  <2>8. KeptWeeks(f, saved, today + 1, ran \cup {today + 1}, first)
    BY <2>1, <2>2, <2>3, <2>4, <2>5, <2>7 DEF KeptWeeks
  <2> QED BY <1>4, <2>8 DEF KeptDates
<1> QED BY <1>2, <1>3, <1>4

(* What is kept is what was promised, but for the first of the weeks.      *)
RanAsPromised(e, promised, ran) ==
  /\ ran \subseteq promised
  /\ promised \ ran # {} => e.repeat /\ e.unit = "week"
  /\ \A day \in promised \ ran : /\ \A other \in promised : day <= other
                                /\ day + 7 \in ran \cup {e.next}

LEMMA KeptIsPromised ==
  ASSUME NEW e, IsEvent(e), NEW saved \in Nat, NEW today \in Nat, saved <= today, NEW ran,
         KeptDates(e, saved, today, ran)
  PROVE  RanAsPromised(e, Promised(e, saved, today), ran)
<1> DEFINE missed == Promised(e, saved, today) \ ran
<1>1. CASE ~(e.repeat /\ e.unit = "week")
  <2>1. ran = Promised(e, saved, today)
    BY <1>1 DEF KeptDates, KeptOnce, KeptAll
  <2>2. missed = {}
    BY <2>1
  <2> QED BY <2>1, <2>2 DEF RanAsPromised
<1>2. CASE e.repeat /\ e.unit = "week"
  <2>1. PICK first \in Nat : KeptWeeks(e, saved, today, ran, first)
    BY <1>2 DEF KeptDates
  <2>2. \A day \in (saved + 1)..today :
          day \in Promised(e, saved, today) <=> e.start <= day /\ SameWeekday(e, day)
    <3>1. \A day \in (saved + 1)..today : day \in Nat
      OBVIOUS
    <3>2. \A day \in (saved + 1)..today : Occurs(e, day) <=> e.start <= day /\ SameWeekday(e, day)
      BY <1>2, <3>1, OccursWeekly
    <3> QED BY <3>2, Zenon DEF Promised
  <2>3. Promised(e, saved, today) \subseteq (saved + 1)..today
    BY Zenon DEF Promised
  <2>4. \A day \in (saved + 1)..today : day \in ran <=> first <= day /\ SameWeekday(e, day)
    BY <2>1, Zenon DEF KeptWeeks
  <2>5. ran \subseteq (saved + 1)..today /\ e.start <= first
    BY <2>1, Zenon DEF KeptWeeks
  <2>6. ran \subseteq Promised(e, saved, today)
    BY <2>2, <2>4, <2>5 DEF IsEvent
  <2>7. ASSUME NEW day \in missed
        PROVE  day = first - 7 /\ day \in (saved + 1)..today /\ first <= saved + 13
    <3>1. day \in (saved + 1)..today /\ e.start <= day /\ SameWeekday(e, day) /\ ~(first <= day)
      BY <2>2, <2>3, <2>4
    <3>2. first <= saved + 13 /\ SameWeekday(e, first)
      BY <2>1, <3>1 DEF KeptWeeks, IsEvent
    <3> QED BY <3>1, <3>2 DEF SameWeekday, IsEvent
  <2>8. ASSUME NEW day \in missed, NEW other \in Promised(e, saved, today) PROVE day <= other
    <3>1. other \in (saved + 1)..today /\ SameWeekday(e, other)
      BY <2>2, <2>3
    <3>2. SameWeekday(e, first)
      BY <2>1 DEF KeptWeeks
    <3> QED BY <2>7, <3>1, <3>2 DEF SameWeekday, IsEvent
  <2>9. ASSUME NEW day \in missed PROVE day + 7 \in ran \cup {e.next}
    <3>1. day + 7 = first
      BY <2>7
    <3>2. saved < first /\ SameWeekday(e, first)
      BY <2>1 DEF KeptWeeks
    <3>3. CASE first <= today
      BY <2>4, <3>1, <3>2, <3>3
    <3>4. CASE ~(first <= today)
      <4>1. /\ e.next \in Nat /\ first <= e.next /\ SameWeekday(e, e.next)
            /\ e.next = first \/ e.next <= today + 7
        BY <2>1 DEF KeptWeeks
      <4>2. e.next = first
        BY <3>2, <3>4, <4>1 DEF SameWeekday, IsEvent
      <4> QED BY <3>1, <4>2
    <3> QED BY <3>3, <3>4
  <2> QED BY <1>2, <2>6, <2>8, <2>9 DEF RanAsPromised
<1> QED BY <1>1, <1>2

----------------------------------------------------------------------------
(* The page and the server.                                                *)
CalendarSpec == EventInit /\ [][EventNext]_webVars

CalendarShape == {"event", "today", "saved", "ran", "days"}
EventShape == {"start", "repeat", "unit", "next"}

IsSave(c) == c.start \in Nat /\ c.repeat \in BOOLEAN /\ c.unit \in Units

CalendarInv ==
  /\ page = "Event" /\ DOMAIN srv = CalendarShape
  /\ srv.today \in Nat /\ srv.saved \in Nat /\ srv.saved <= srv.today
  /\ \A r \in net : DOMAIN r = {"id", "call", "served"} /\ IsSave(r.call)
  /\ DOMAIN srv.event = EventShape
  /\ \/ srv.event.start = Never /\ srv.event.next = Never
     \/ IsEvent(srv.event) /\ KeptDates(srv.event, srv.saved, srv.today, srv.ran)

LEMMA CalendarStarts == EventInit => CalendarInv
<1> SUFFICES ASSUME EventInit PROVE CalendarInv
  OBVIOUS
<1>1. PICK today \in Todays :
        srv = [event |-> NoEvent, today |-> today, saved |-> today, ran |-> {}, days |-> 0]
  BY DEF EventInit
<1>2. today \in Nat
  BY CalendarAssumption
<1>3. /\ DOMAIN srv = CalendarShape /\ srv.event = NoEvent
      /\ srv.today = today /\ srv.saved = today
  BY <1>1 DEF CalendarShape
<1>4. DOMAIN NoEvent = EventShape /\ NoEvent.start = Never /\ NoEvent.next = Never
  BY DEF NoEvent, EventShape
<1>5. page = "Event" /\ net = {}
  BY DEF EventInit
<1> QED BY <1>2, <1>3, <1>4, <1>5 DEF CalendarInv

LEMMA SavesKeep == ASSUME CalendarInv, Saves PROVE CalendarInv'
<1>1. PICK start \in StartDays, repeat \in BOOLEAN, unit \in Units :
        Send([what |-> "event", start |-> start, repeat |-> repeat, unit |-> unit])
  BY DEF Saves
<1> DEFINE q == [id |-> sent, served |-> FALSE,
                 call |-> [what |-> "event", start |-> start, repeat |-> repeat, unit |-> unit]]
<1>2. net' = net \cup {q} /\ page' = page /\ srv' = srv
  BY <1>1 DEF Saves, Send
<1>3. DOMAIN q = {"id", "call", "served"} /\ IsSave(q.call)
  BY CalendarAssumption DEF IsSave
<1> HIDE DEF q
<1> QED BY <1>2, <1>3 DEF CalendarInv

LEMMA EventServedKeeps == ASSUME CalendarInv, NEW r \in net, EventServed(r) PROVE CalendarInv'
<1> DEFINE c == r.call
           e == [start |-> c.start, repeat |-> c.repeat, unit |-> c.unit,
                 next |-> get_next_runtime(c.start, c.repeat, c.unit, srv.today)]
           s == [r EXCEPT !.served = TRUE]
<1>1. /\ net' = (net \ {r}) \cup {s} /\ page' = page
      /\ srv' = [srv EXCEPT !.event = e, !.saved = srv.today, !.ran = {}]
  BY DEF EventServed, Serve
<1>2. DOMAIN s = {"id", "call", "served"} /\ s.call = r.call
  BY DEF CalendarInv
<1>3. /\ DOMAIN e = EventShape /\ e.start = c.start /\ e.repeat = c.repeat /\ e.unit = c.unit
      /\ e.next = get_next_runtime(c.start, c.repeat, c.unit, srv.today)
  BY DEF EventShape
<1>4. IsSave(c) /\ srv.today \in Nat
  BY DEF CalendarInv
<1> HIDE DEF c, e, s
<1>5. IsEvent(e)
  BY <1>3, <1>4 DEF IsEvent, IsSave
<1>6. KeptDates(e, srv.today, srv.today, {})
  BY <1>3, <1>4, <1>5, KeptWhenSaved
<1>7. /\ DOMAIN srv' = CalendarShape /\ srv'.event = e /\ srv'.saved = srv.today
      /\ srv'.ran = {} /\ srv'.today = srv.today
  BY <1>1 DEF CalendarInv, CalendarShape
<1>8. \A t \in net' : DOMAIN t = {"id", "call", "served"} /\ IsSave(t.call)
  BY <1>1, <1>2, <1>4 DEF CalendarInv, c
<1> QED BY <1>1, <1>3, <1>4, <1>5, <1>6, <1>7, <1>8 DEF CalendarInv

LEMMA DayPassesKeeps == ASSUME CalendarInv, DayPasses PROVE CalendarInv'
<1> DEFINE day == srv.today + 1
           e == srv.event
           passed == [srv EXCEPT !.today = day, !.days = @ + 1]
<1>1. page' = page /\ net' = net /\ day \in Nat /\ srv.today \in Nat
  BY DEF DayPasses, CalendarInv
<1>2. CASE e.next # day
  <2>1. srv' = passed
    BY <1>2, Zenon DEF DayPasses
  <2>2. /\ DOMAIN srv' = CalendarShape /\ srv'.event = e /\ srv'.saved = srv.saved
        /\ srv'.ran = srv.ran /\ srv'.today = day
    BY <2>1 DEF CalendarInv, CalendarShape
  <2>3. ASSUME IsEvent(e), KeptDates(e, srv.saved, srv.today, srv.ran)
        PROVE  KeptDates(e, srv.saved, day, srv.ran)
    BY <1>2, <2>3, KeptWhenIdle DEF CalendarInv
  <2>4. srv.saved <= day
    BY DEF CalendarInv
  <2> HIDE DEF day, e, passed
  <2> QED BY <1>1, <2>2, <2>3, <2>4 DEF CalendarInv, e
<1>3. CASE e.next = day
  <2> DEFINE next == IF e.repeat THEN NextRuntime(e.start, e.unit, day) ELSE e.next
             f == [e EXCEPT !.next = next]
  <2>1. srv' = [passed EXCEPT !.ran = @ \cup {day},
                  !.event.next = IF e.repeat THEN NextRuntime(e.start, e.unit, day) ELSE @]
    BY <1>3, Zenon DEF DayPasses
  <2>2. DOMAIN e = EventShape /\ DOMAIN srv = CalendarShape
    BY DEF CalendarInv
  <2>3. passed.event = e /\ passed.ran = srv.ran /\ passed.today = day
        /\ passed.saved = srv.saved /\ DOMAIN passed = CalendarShape
    BY <2>2 DEF CalendarShape
  <2> DEFINE nr == NextRuntime(e.start, e.unit, day)
  <2>4. /\ f.start = e.start /\ f.repeat = e.repeat /\ f.unit = e.unit /\ f.next = next
        /\ DOMAIN f = EventShape
    BY <2>2 DEF EventShape
  <2>5. srv' = [passed EXCEPT !.ran = @ \cup {day}, !.event.next = IF e.repeat THEN nr ELSE @]
    BY <2>1
  <2> HIDE DEF passed, nr, e, day
  <2>6. /\ DOMAIN srv' = CalendarShape /\ srv'.event = f /\ srv'.saved = srv.saved
        /\ srv'.ran = srv.ran \cup {day} /\ srv'.today = day
    BY <2>3, <2>5 DEF CalendarShape, nr
  <2> HIDE DEF f, next
  <2>7. IsEvent(e) /\ KeptDates(e, srv.saved, srv.today, srv.ran)
    <3>1. e.next # Never
      BY <1>1, <1>3 DEF Never
    <3> QED BY <3>1 DEF CalendarInv, e
  <2>8. f.next = IF e.repeat THEN NextRuntime(e.start, e.unit, srv.today + 1) ELSE e.next
    BY <2>4 DEF next, day
  <2>9. KeptDates(f, srv.saved, srv.today + 1, srv.ran \cup {srv.today + 1})
    BY <1>1, <1>3, <2>4, <2>7, <2>8, KeptWhenRun DEF CalendarInv, day
  <2>10. IsEvent(f)
    BY <2>4, <2>7 DEF IsEvent
  <2>11. srv.saved <= day
    BY DEF CalendarInv, day
  <2> QED BY <1>1, <2>4, <2>6, <2>9, <2>10, <2>11 DEF CalendarInv, day
<1> QED BY <1>2, <1>3

LEMMA CalendarKeeps == CalendarInv /\ [EventNext]_webVars => CalendarInv'
<1> SUFFICES ASSUME CalendarInv, [EventNext]_webVars PROVE CalendarInv'
  OBVIOUS
<1>1. ASSUME NEW r \in net, NEW ok \in BOOLEAN, EventAnswered(r, ok) PROVE CalendarInv'
  <2>1. net' = net \ {r} /\ page' = page /\ srv' = srv
    BY <1>1 DEF EventAnswered, Settle
  <2> QED BY <2>1 DEF CalendarInv
<1>2. CASE UNCHANGED webVars
  BY <1>2 DEF webVars, CalendarInv
<1> QED BY <1>1, <1>2, SavesKeep, DayPassesKeeps, EventServedKeeps DEF EventNext

LEMMA RunsHold == CalendarInv => RunsAsPromised
<1> SUFFICES ASSUME CalendarInv, srv.event.start # Never PROVE RunsAsPromised
  BY DEF RunsAsPromised
<1>1. IsEvent(srv.event) /\ KeptDates(srv.event, srv.saved, srv.today, srv.ran)
  BY DEF CalendarInv
<1>2. srv.saved \in Nat /\ srv.today \in Nat /\ srv.saved <= srv.today
  BY DEF CalendarInv
<1>3. RanAsPromised(srv.event, Promised(srv.event, srv.saved, srv.today), srv.ran)
  BY <1>1, <1>2, KeptIsPromised
<1> QED BY <1>3, Zenon DEF RunsAsPromised, RanAsPromised, Promised

(* For any dates, days of saving and number of days: while tasks are on    *)
(* time, an event runs on the days its form promises, on all of them and on *)
(* no other; a weekly one may leave out the first day after it was saved,  *)
(* but runs a week later.                                                  *)
THEOREM RunsAsPromisedHolds == CalendarSpec => []RunsAsPromised
<1> QED BY CalendarStarts, CalendarKeeps, RunsHold, PTL DEF CalendarSpec

----------------------------------------------------------------------------
(***************************************************************************)
(* The users of a company.                                                 *)
(***************************************************************************)

(* The page alone, as the union of all pages starts and moves it.          *)
MembersSpec == MembersInit /\ [][MembersNext]_webVars

Rank == {"none", "read", "write", "admin"}
Invite == [id: Nat, firm: Firms, person: People, role: Offered]
Rows == [user: [People -> {"none", "open", "deleted"}], role: [Firms -> [People -> Rank]],
         owner: [Firms -> People \cup {Unowned}], closed: SUBSET Firms,
         invites: SUBSET Invite, joined: SUBSET People, owed: SUBSET (Firms \X People)]
Asked == [what: {"add", "remove", "close", "create", "open", "delete", "signup"},
         by: People, firm: Firms \cup {Unowned}, people: SUBSET People, role: Rank,
         at: {"sent", "let in", "looked", "opened", "read"}, known: BOOLEAN,
         asked: SUBSET Invite]
Flight == [id: Nat, call: Asked, served: BOOLEAN]

Belongs(f, p) == srv.role[f][p] # "none"

(* What is owed to somebody who signs up he has, or it still stands among   *)
(* the invitations, or the sign-up has read it.                            *)
Underway(c) == c.what = "signup" /\ c.at \in {"opened", "read"}
Asking(c) == IF c.at = "opened" THEN InvitesOf(c.by) ELSE c.asked
Foreseen(c) ==
  /\ srv.user[c.by] # "none"
  /\ \A o \in srv.owed : o[2] = c.by =>
       Belongs(o[1], o[2]) \/ \E i \in Asking(c) : i.firm = o[1]

\* What a call names.
Names(c) ==
  /\ c.what = "add" => c.role \in Offered
  /\ c.what \in {"add", "remove", "close"} => c.firm \in Firms

TypeInv == srv \in Rows /\ net \subseteq Flight /\ sent \in Nat
Owners == \A f \in Firms : Made(f) => srv.role[f][srv.owner[f]] = "admin"
OwedToUsers == \A o \in srv.owed : srv.user[o[2]] # "none"
JoinedUsers == \A p \in srv.joined : srv.user[p] # "none"
JoinedBelong == \A o \in srv.owed : o[2] \in srv.joined => Belongs(o[1], o[2])
Pending == \A r \in net : (Underway(r.call) => Foreseen(r.call)) /\ Names(r.call)

Inv ==
  /\ OnMembers /\ TypeInv
  /\ Owners /\ OwedToUsers /\ JoinedUsers /\ JoinedBelong /\ Pending

(* A step that owes q nothing new, takes no role of a company that owes him *)
(* one, and leaves him the invitations he has not been given yet.           *)
Keeps(q) ==
  /\ srv'.user[q] # "none"
  /\ \A o \in srv'.owed : o[2] = q =>
       /\ o \in srv.owed
       /\ Belongs(o[1], q) => Belongs(o[1], q)'
       /\ Belongs(o[1], q)' \/ \A i \in InvitesOf(q) : i.firm = o[1] => i \in InvitesOf(q)'

KeepsAll == \A q \in People : srv.user[q] # "none" => Keeps(q)

----------------------------------------------------------------------------
LEMMA InitInv == MembersInit => Inv
<1> SUFFICES ASSUME MembersInit PROVE Inv
  OBVIOUS
<1> USE FirmsAssumption
<1>1. OnMembers
  BY DEF MembersInit, OnMembers
<1>2. TypeInv
  BY DEF MembersInit, TypeInv, Rows, Rank
<1>3. Owners
  BY DEF MembersInit, Owners, Made
<1>4. OwedToUsers /\ JoinedUsers /\ JoinedBelong /\ Pending
  BY DEF MembersInit, OwedToUsers, JoinedUsers, JoinedBelong, Pending
<1> QED BY <1>1, <1>2, <1>3, <1>4 DEF Inv

(* A call under way stays foreseen through a step that keeps what it needs. *)
LEMMA KeepsForeseen ==
  ASSUME Inv, KeepsAll, NEW c \in Asked, Underway(c), Foreseen(c)
  PROVE  Foreseen(c)'
<1>1. c.by \in People
  BY DEF Asked
<1>2. Keeps(c.by)
  BY <1>1 DEF KeepsAll, Foreseen
<1>3. ASSUME NEW o \in srv'.owed, o[2] = c.by
      PROVE  Belongs(o[1], o[2])' \/ \E i \in Asking(c)' : i.firm = o[1]
  <2>1. Belongs(o[1], o[2]) \/ \E i \in Asking(c) : i.firm = o[1]
    BY <1>2, <1>3 DEF Keeps, Foreseen
  <2>2. CASE Belongs(o[1], o[2])
    BY <1>2, <1>3, <2>2 DEF Keeps, Belongs
  <2>3. CASE \E i \in Asking(c) : i.firm = o[1]
    BY <1>2, <1>3, <2>3 DEF Keeps, Asking, Belongs
  <2> QED BY <2>1, <2>2, <2>3
<1> QED BY <1>2, <1>3 DEF Foreseen, Keeps

(* Such a step keeps what the invariant says of what is owed, if it makes   *)
(* nobody a member and sends no sign-up on.                                 *)
LEMMA KeepsInv ==
  ASSUME Inv, KeepsAll, TypeInv', UNCHANGED page, Owners', srv'.joined \subseteq srv.joined,
         srv'.owed \subseteq srv.owed,
         \A s \in net' : (s \in net \/ ~Underway(s.call)) /\ Names(s.call)
  PROVE  Inv'
<1>1. OwedToUsers'
  <2> SUFFICES ASSUME NEW o \in srv'.owed PROVE srv'.user[o[2]] # "none"
    BY DEF OwedToUsers
  <2>1. o \in srv.owed /\ o[2] \in People
    BY DEF Inv, TypeInv, Rows
  <2> QED BY <2>1 DEF Inv, OwedToUsers, KeepsAll, Keeps
<1>2. JoinedUsers'
  BY DEF Inv, TypeInv, Rows, JoinedUsers, KeepsAll, Keeps
<1>3. JoinedBelong'
  <2> SUFFICES ASSUME NEW o \in srv'.owed, o[2] \in srv'.joined PROVE Belongs(o[1], o[2])'
    BY DEF JoinedBelong
  <2>1. o \in srv.owed /\ o[2] \in srv.joined /\ o[2] \in People
    BY DEF Inv, TypeInv, Rows
  <2>2. Belongs(o[1], o[2]) /\ Keeps(o[2])
    BY <2>1 DEF Inv, JoinedBelong, JoinedUsers, KeepsAll
  <2> QED BY <2>2 DEF Keeps, Belongs
<1>4. Pending'
  <2> SUFFICES ASSUME NEW s \in net', Underway(s.call) PROVE Foreseen(s.call)'
    BY DEF Pending, Underway, Names
  <2>1. s \in net /\ s.call \in Asked /\ Foreseen(s.call)
    BY DEF Inv, TypeInv, Flight, Pending
  <2> QED BY <2>1, KeepsForeseen
<1> QED BY <1>1, <1>2, <1>3, <1>4 DEF Inv, OnMembers

(* Rows that stay as they are keep everything.                              *)
LEMMA SameKeeps ==
  ASSUME Inv, UNCHANGED srv
  PROVE  KeepsAll /\ Owners' /\ srv' \in Rows
BY DEF Inv, TypeInv, KeepsAll, Keeps, Belongs, InvitesOf, Stands, Made, Owners

LEMMA AsksInv ==
  ASSUME Inv, NEW by \in People, AsksOf(by)
  PROVE  Inv'
<1>1. PICK call \in Asked : SendsOff(call) /\ ~Underway(call) /\ Names(call)
  <2> USE FirmsAssumption DEF MemberCall, Asked, Rank, Underway, Names
  <2>1. ASSUME NEW f \in Firms, NEW p \in People, NEW role \in Offered, adds_user(by, f, p, role)
        PROVE  \E call \in Asked : SendsOff(call) /\ ~Underway(call) /\ Names(call)
    <3>1. MemberCall("add", by, f, {p}, role) \in Asked
      OBVIOUS
    <3>2. SendsOff(MemberCall("add", by, f, {p}, role))
      BY <2>1 DEF adds_user
    <3> QED BY <3>1, <3>2
  <2>2. ASSUME NEW f \in Firms, NEW people \in Batches, removes_users(by, f, people)
        PROVE  \E call \in Asked : SendsOff(call) /\ ~Underway(call) /\ Names(call)
    <3>1. MemberCall("remove", by, f, people, "none") \in Asked
      OBVIOUS
    <3>2. SendsOff(MemberCall("remove", by, f, people, "none"))
      BY <2>2 DEF removes_users
    <3> QED BY <3>1, <3>2
  <2>3. ASSUME NEW f \in Firms, closes_company(by, f)
        PROVE  \E call \in Asked : SendsOff(call) /\ ~Underway(call) /\ Names(call)
    <3>1. MemberCall("close", by, f, {}, "none") \in Asked
      OBVIOUS
    <3>2. SendsOff(MemberCall("close", by, f, {}, "none"))
      BY <2>3 DEF closes_company
    <3> QED BY <3>1, <3>2
  <2>4. ASSUME NEW what \in {"open", "delete"}, NEW p \in People, administers(by, what, p)
        PROVE  \E call \in Asked : SendsOff(call) /\ ~Underway(call) /\ Names(call)
    <3>1. MemberCall(what, by, Unowned, {p}, "none") \in Asked
      OBVIOUS
    <3>2. SendsOff(MemberCall(what, by, Unowned, {p}, "none"))
      BY <2>4 DEF administers
    <3> QED BY <3>1, <3>2
  <2>5. ASSUME creates_company(by)
        PROVE  \E call \in Asked : SendsOff(call) /\ ~Underway(call) /\ Names(call)
    <3>1. MemberCall("create", by, Unowned, {by}, "admin") \in Asked
      OBVIOUS
    <3>2. SendsOff(MemberCall("create", by, Unowned, {by}, "admin"))
      BY <2>5 DEF creates_company
    <3> QED BY <3>1, <3>2
  <2>6. ASSUME signs_up(by)
        PROVE  \E call \in Asked : SendsOff(call) /\ ~Underway(call) /\ Names(call)
    <3>1. MemberCall("signup", by, Unowned, {by}, "admin") \in Asked
      OBVIOUS
    <3>2. SendsOff(MemberCall("signup", by, Unowned, {by}, "admin"))
      BY <2>6 DEF signs_up
    <3> QED BY <3>1, <3>2
  <2> QED BY <2>1, <2>2, <2>3, <2>4, <2>5, <2>6 DEF AsksOf
<1>2. UNCHANGED <<page, srv>> /\ net' = net \cup {[id |-> sent, call |-> call, served |-> FALSE]}
      /\ sent' = sent + 1
  BY <1>1 DEF SendsOff, Send
<1>3. TypeInv'
  <2>1. [id |-> sent, call |-> call, served |-> FALSE] \in Flight
    BY DEF Inv, TypeInv, Flight
  <2>2. srv \in Rows /\ net \subseteq Flight /\ sent \in Nat
    BY DEF Inv, TypeInv
  <2>3. srv' \in Rows
    BY <1>2, <2>2
  <2>4. net' \subseteq Flight
    BY <1>2, <2>1, <2>2
  <2>5. sent' \in Nat
    BY <1>2, <2>2
  <2> QED BY <2>3, <2>4, <2>5 DEF TypeInv
<1>4. \A s \in net' : (s \in net \/ ~Underway(s.call)) /\ Names(s.call)
  BY <1>1, <1>2 DEF Inv, Pending
<1> QED BY <1>2, <1>3, <1>4, SameKeeps, KeepsInv

----------------------------------------------------------------------------
(* What the server does with a call.                                        *)
LEMMA DoneNet ==
  ASSUME Inv, NEW r \in net, Done(r), srv' \in Rows
  PROVE  /\ TypeInv' /\ UNCHANGED page
         /\ \A s \in net' : (s \in net \/ ~Underway(s.call)) /\ Names(s.call)
BY DEF Inv, TypeInv, Done, Pending

LEMMA RefusedInv ==
  ASSUME Inv, NEW r \in net, Refused(r)
  PROVE  Inv'
BY DoneNet, SameKeeps, KeepsInv DEF Refused

LEMMA GoesNet ==
  ASSUME Inv, NEW r \in net, NEW call \in Asked, Goes(r, call), srv' \in Rows
  PROVE  /\ TypeInv' /\ UNCHANGED page
         /\ \A s \in net' : s \in net \/ s.call = call
<1>1. [r EXCEPT !.call = call] \in Flight /\ [r EXCEPT !.call = call].call = call
  BY DEF Inv, TypeInv, Flight
<1> QED BY <1>1 DEF Inv, TypeInv, Goes

LEMMA LetInInv ==
  ASSUME Inv, NEW r \in net, company_required(r)
  PROVE  Inv'
<1>1. CASE Refused(r)
  BY <1>1, RefusedInv
<1>2. CASE Goes(r, [r.call EXCEPT !.at = "let in"]) /\ UNCHANGED srv
  <2> DEFINE call == [r.call EXCEPT !.at = "let in"]
  <2>1. call \in Asked /\ call.at = "let in" /\ Names(call)
    BY DEF Inv, TypeInv, Flight, Asked, Pending, Names
  <2>2. TypeInv' /\ UNCHANGED page /\ \A s \in net' : s \in net \/ s.call = call
    BY <1>2, <2>1, GoesNet, SameKeeps
  <2>3. \A s \in net' : (s \in net \/ ~Underway(s.call)) /\ Names(s.call)
    BY <2>1, <2>2 DEF Inv, Pending, Underway
  <2> QED BY <1>2, <2>2, <2>3, SameKeeps, KeepsInv
<1> QED BY <1>1, <1>2 DEF company_required

LEMMA LooksUpInv ==
  ASSUME Inv, NEW r \in net, LooksUp(r)
  PROVE  Inv'
<1>1. CASE Refused(r)
  BY <1>1, RefusedInv
<1>2. ASSUME NEW p \in r.call.people, UNCHANGED srv,
             Goes(r, [r.call EXCEPT !.at = "looked", !.known = Opened(p)])
      PROVE  Inv'
  <2> DEFINE call == [r.call EXCEPT !.at = "looked", !.known = Opened(p)]
  <2>1. call \in Asked /\ call.at = "looked" /\ Names(call)
    BY DEF Inv, TypeInv, Flight, Asked, Pending, Names, Opened
  <2>2. TypeInv' /\ UNCHANGED page /\ \A s \in net' : s \in net \/ s.call = call
    BY <1>2, <2>1, GoesNet, SameKeeps
  <2>3. \A s \in net' : (s \in net \/ ~Underway(s.call)) /\ Names(s.call)
    BY <2>1, <2>2 DEF Inv, Pending, Underway
  <2> QED BY <1>2, <2>2, <2>3, SameKeeps, KeepsInv
<1> QED BY <1>1, <1>2 DEF LooksUp

(* The last step of a call.                                                 *)
LEMMA DoneInv ==
  ASSUME Inv, NEW r \in net, Done(r), srv' \in Rows, KeepsAll, Owners',
         srv'.joined \subseteq srv.joined, srv'.owed \subseteq srv.owed
  PROVE  Inv'
BY DoneNet, KeepsInv

LEMMA AddsInv ==
  ASSUME Inv, NEW r \in net, Adds(r)
  PROVE  Inv'
<1> DEFINE c == r.call
<1> USE FirmsAssumption
<1>1. c \in Asked /\ c.firm \in Firms /\ c.people \subseteq People /\ c.role \in Offered
      /\ c.role \in Rank \ {"none"} /\ r.id \in Nat
  BY DEF Inv, TypeInv, Flight, Asked, Pending, Names, Adds, Served, Rank
<1>2. PICK p \in c.people :
        \/ /\ ~c.known /\ Done(r)
           /\ srv' = [srv EXCEPT !.invites = @ \cup
                        {[id |-> r.id, firm |-> c.firm, person |-> p, role |-> c.role]}]
        \/ /\ c.known /\ srv.role[c.firm][p] = "none" /\ Done(r)
           /\ srv' = [srv EXCEPT !.role[c.firm][p] = c.role]
        \/ c.known /\ srv.role[c.firm][p] # "none" /\ Refused(r)
  BY DEF Adds
<1>3. p \in People /\ srv \in Rows
  BY <1>1 DEF Inv, TypeInv
<1>4. ASSUME Done(r), srv' = [srv EXCEPT !.invites = @ \cup
                {[id |-> r.id, firm |-> c.firm, person |-> p, role |-> c.role]}]
      PROVE  Inv'
  <2> DEFINE i == [id |-> r.id, firm |-> c.firm, person |-> p, role |-> c.role]
  <2>1. i \in Invite
    BY <1>1, <1>3 DEF Invite
  <2>2. srv' \in Rows
    BY <1>3, <1>4, <2>1 DEF Rows
  <2>3. /\ srv'.user = srv.user /\ srv'.role = srv.role /\ srv'.owner = srv.owner
        /\ srv'.closed = srv.closed /\ srv'.joined = srv.joined /\ srv'.owed = srv.owed
        /\ srv.invites \subseteq srv'.invites
    BY <1>3, <1>4 DEF Rows
  <2>4. KeepsAll
    BY <2>3 DEF KeepsAll, Keeps, Belongs, InvitesOf, Stands, Made
  <2>5. Owners'
    BY <2>3 DEF Inv, Owners, Made
  <2> QED BY <1>4, <2>2, <2>3, <2>4, <2>5, DoneInv
<1>5. ASSUME srv.role[c.firm][p] = "none", Done(r), srv' = [srv EXCEPT !.role[c.firm][p] = c.role]
      PROVE  Inv'
  <2>1. srv' \in Rows
    BY <1>1, <1>3, <1>5 DEF Rows
  <2>2. /\ srv'.user = srv.user /\ srv'.invites = srv.invites /\ srv'.owner = srv.owner
        /\ srv'.closed = srv.closed /\ srv'.joined = srv.joined /\ srv'.owed = srv.owed
    BY <1>3, <1>5 DEF Rows
  <2>3. \A f \in Firms, q \in People :
          srv'.role[f][q] = IF f = c.firm /\ q = p THEN c.role ELSE srv.role[f][q]
    BY <1>1, <1>3, <1>5 DEF Rows
  <2>4. KeepsAll
    <3> SUFFICES ASSUME NEW q \in People, srv.user[q] # "none" PROVE Keeps(q)
      BY DEF KeepsAll
    <3>1. \A o \in srv'.owed : o[1] \in Firms
      BY <2>1 DEF Rows
    <3> QED BY <1>1, <2>2, <2>3, <3>1 DEF Keeps, Belongs, InvitesOf, Stands, Made
  <2>5. Owners'
    <3> SUFFICES ASSUME NEW f \in Firms, srv.owner[f] # Unowned
                 PROVE  srv'.role[f][srv.owner[f]] = "admin"
      BY <2>2 DEF Owners, Made
    <3>1. srv.owner[f] \in People /\ srv.role[f][srv.owner[f]] = "admin"
      BY <1>3 DEF Inv, Owners, Made, Rows
    <3> QED BY <1>5, <2>3, <3>1
  <2> QED BY <1>5, <2>1, <2>2, <2>4, <2>5, DoneInv
<1> QED BY <1>2, <1>4, <1>5, RefusedInv

LEMMA RemovesInv ==
  ASSUME Inv, NEW r \in net, Removes(r)
  PROVE  Inv'
<1> DEFINE c == r.call
           left == [p \in People |-> IF p \in c.people /\ Removable(c.firm, p)
                                     THEN "none" ELSE srv.role[c.firm][p]]
           roles == [srv.role EXCEPT ![c.firm] = left]
<1>1. c.firm \in Firms /\ srv \in Rows
  BY DEF Inv, TypeInv, Flight, Asked, Pending, Names, Removes, Served
<1>2. CASE Refused(r)
  BY <1>2, RefusedInv
<1>3. ASSUME Done(r),
             srv' = [srv EXCEPT !.role = roles, !.invites = IF c.people = {} THEN @ ELSE {},
                                !.owed = {o \in @ : roles[o[1]][o[2]] # "none"}]
      PROVE  Inv'
  <2>1. left \in [People -> Rank] /\ roles \in [Firms -> [People -> Rank]]
    BY <1>1 DEF Rows, Rank
  <2>2. srv' \in Rows
    BY <1>1, <1>3, <2>1 DEF Rows
  <2>3. /\ srv'.user = srv.user /\ srv'.role = roles /\ srv'.owner = srv.owner
        /\ srv'.closed = srv.closed /\ srv'.joined = srv.joined
        /\ srv'.owed = {o \in srv.owed : roles[o[1]][o[2]] # "none"}
    BY <1>1, <1>3 DEF Rows
  <2>4. KeepsAll
    BY <2>3 DEF KeepsAll, Keeps, Belongs
  <2>5. Owners'
    <3> SUFFICES ASSUME NEW f \in Firms, srv.owner[f] # Unowned
                 PROVE  roles[f][srv.owner[f]] = "admin"
      BY <2>3 DEF Owners, Made
    <3>1. srv.owner[f] \in People /\ srv.role[f][srv.owner[f]] = "admin"
      BY <1>1 DEF Inv, Owners, Made, Rows
    <3> QED BY <1>1, <3>1 DEF Removable, Rows
  <2> QED BY <1>3, <2>2, <2>3, <2>4, <2>5, DoneInv
<1> QED BY <1>2, <1>3 DEF Removes

LEMMA ClosesInv ==
  ASSUME Inv, NEW r \in net, Closes(r)
  PROVE  Inv'
<1> DEFINE c == r.call
<1>1. c.firm \in Firms /\ srv \in Rows
  BY DEF Inv, TypeInv, Flight, Asked, Pending, Names, Closes, Served
<1>2. CASE Refused(r)
  BY <1>2, RefusedInv
<1>3. ASSUME Done(r), srv' = [srv EXCEPT !.closed = @ \cup {c.firm},
                                        !.owed = {o \in @ : o[1] # c.firm}]
      PROVE  Inv'
  <2>1. srv' \in Rows
    BY <1>1, <1>3 DEF Rows
  <2>2. /\ srv'.user = srv.user /\ srv'.role = srv.role /\ srv'.owner = srv.owner
        /\ srv'.closed = srv.closed \cup {c.firm} /\ srv'.joined = srv.joined
        /\ srv'.invites = srv.invites /\ srv'.owed = {o \in srv.owed : o[1] # c.firm}
    BY <1>1, <1>3 DEF Rows
  <2>3. KeepsAll
    BY <2>2 DEF KeepsAll, Keeps, Belongs, InvitesOf, Stands, Made
  <2>4. Owners'
    BY <2>2 DEF Inv, Owners, Made
  <2> QED BY <1>3, <2>1, <2>2, <2>3, <2>4, DoneInv
<1> QED BY <1>2, <1>3 DEF Closes

(* A company that is made.                                                  *)
LEMMA FoundedKeeps ==
  ASSUME Inv, NEW f \in NewFirms, NEW p \in People, NEW rows \in Rows,
         srv' = rows, rows.owner = Founded(f, p).owner, rows.role = Founded(f, p).role,
         rows.closed = srv.closed, rows.invites = srv.invites,
         NEW q \in People, rows.user[q] # "none", \A o \in rows.owed : o[2] = q => o \in srv.owed
  PROVE  Keeps(q)
<1>1. f \in Firms /\ srv.owner[f] = Unowned /\ srv \in Rows
  BY DEF NewFirms, Made, Inv, TypeInv
<1>2. /\ rows.owner = [srv.owner EXCEPT ![f] = p]
      /\ rows.role = [srv.role EXCEPT ![f] = [srv.role[f] EXCEPT ![p] = "admin"]]
  BY <1>1 DEF Founded, Rows
<1>3. \A o \in rows.owed : o[1] \in Firms
  BY DEF Rows
<1>4. \A g \in Firms : srv.role[g][q] # "none" => rows.role[g][q] # "none"
  BY <1>1, <1>2 DEF Rows
<1>5. \A i \in InvitesOf(q) : i \in InvitesOf(q)'
  <2> SUFFICES ASSUME NEW i \in InvitesOf(q) PROVE Stands(i.firm)'
    BY DEF InvitesOf
  <2>1. i.firm \in Firms /\ srv.owner[i.firm] # Unowned /\ i.firm \notin srv.closed
    BY <1>1 DEF InvitesOf, Stands, Made, Rows, Invite
  <2>2. rows.owner[i.firm] = srv.owner[i.firm]
    BY <1>1, <1>2, <2>1 DEF Rows
  <2> QED BY <2>1, <2>2 DEF Stands, Made
<1> QED BY <1>3, <1>4, <1>5 DEF Keeps, Belongs

LEMMA FoundedOwners ==
  ASSUME Inv, NEW f \in NewFirms, NEW p \in People, NEW rows \in Rows,
         srv' = rows, rows.owner = Founded(f, p).owner, rows.role = Founded(f, p).role
  PROVE  Owners'
<1>1. f \in Firms /\ srv.owner[f] = Unowned /\ srv \in Rows
  BY DEF NewFirms, Made, Inv, TypeInv
<1>2. /\ rows.owner = [srv.owner EXCEPT ![f] = p]
      /\ rows.role = [srv.role EXCEPT ![f] = [srv.role[f] EXCEPT ![p] = "admin"]]
  BY <1>1 DEF Founded, Rows
<1> SUFFICES ASSUME NEW g \in Firms, rows.owner[g] # Unowned
             PROVE  rows.role[g][rows.owner[g]] = "admin"
  BY DEF Owners, Made
<1>3. CASE g = f
  BY <1>1, <1>2, <1>3 DEF Rows
<1>4. CASE g # f
  BY <1>1, <1>2, <1>4 DEF Rows, Inv, Owners, Made
<1> QED BY <1>3, <1>4

LEMMA CreatesInv ==
  ASSUME Inv, NEW r \in net, Creates(r)
  PROVE  Inv'
<1> DEFINE p == r.call.by
<1>1. p \in People /\ srv \in Rows
  BY DEF Inv, TypeInv, Flight, Asked
<1>2. CASE Refused(r)
  BY <1>2, RefusedInv
<1>3. ASSUME NEW f \in NewFirms, Done(r), srv' = Founded(f, p)
      PROVE  Inv'
  <2>1. f \in Firms
    BY DEF NewFirms
  <2>2. Founded(f, p) \in Rows
    BY <1>1, <2>1 DEF Founded, Rows, Rank
  <2>3. LET rows == Founded(f, p) IN
        /\ rows.user = srv.user /\ rows.closed = srv.closed /\ rows.joined = srv.joined
        /\ rows.invites = srv.invites /\ rows.owed = srv.owed
    BY <1>1 DEF Founded, Rows
  <2>4. KeepsAll
    BY <1>1, <1>3, <2>2, <2>3, FoundedKeeps DEF KeepsAll
  <2>5. Owners'
    BY <1>1, <1>3, <2>2, FoundedOwners
  <2> QED BY <1>3, <2>2, <2>3, <2>4, <2>5, DoneInv
<1> QED BY <1>2, <1>3 DEF Creates

LEMMA AdministersInv ==
  ASSUME Inv, NEW r \in net, Administers(r)
  PROVE  Inv'
<1> DEFINE c == r.call
           after == IF c.what = "open" THEN "open" ELSE "deleted"
<1>1. c.people \subseteq People /\ srv \in Rows
  BY DEF Inv, TypeInv, Flight, Asked
<1>2. CASE Refused(r)
  BY <1>2, RefusedInv
<1>3. ASSUME NEW p \in c.people, Done(r), srv' = [srv EXCEPT !.user[p] = after]
      PROVE  Inv'
  <2>1. after \in {"open", "deleted"} /\ p \in People
    BY <1>1
  <2>2. srv' \in Rows
    <3>1. [srv.user EXCEPT ![p] = after] \in [People -> {"none", "open", "deleted"}]
      BY <1>1, <2>1 DEF Rows
    <3> QED BY <1>1, <1>3, <3>1 DEF Rows
  <2>3. /\ srv'.role = srv.role /\ srv'.owner = srv.owner /\ srv'.closed = srv.closed
        /\ srv'.joined = srv.joined /\ srv'.invites = srv.invites /\ srv'.owed = srv.owed
        /\ \A q \in People : srv'.user[q] = IF q = p THEN after ELSE srv.user[q]
    BY <1>1, <1>3, <2>1 DEF Rows
  <2>4. KeepsAll
    BY <2>1, <2>3 DEF KeepsAll, Keeps, Belongs, InvitesOf, Stands, Made
  <2>5. Owners'
    BY <2>3 DEF Inv, Owners, Made
  <2> QED BY <1>3, <2>2, <2>3, <2>4, <2>5, DoneInv
<1> QED BY <1>2, <1>3 DEF Administers

----------------------------------------------------------------------------
(* A sign-up.  What the calls of others foresee it leaves alone.            *)
LEMMA OthersPending ==
  ASSUME Inv, KeepsAll, NEW call \in Asked, \A s \in net' : s \in net \/ s.call = call,
         Underway(call) => Foreseen(call)', Names(call)
  PROVE  Pending'
<1> SUFFICES ASSUME NEW s \in net'
             PROVE  (Underway(s.call) => Foreseen(s.call)') /\ Names(s.call)
  BY DEF Pending, Underway, Names
<1>1. CASE s.call = call
  BY <1>1
<1>2. CASE s \in net
  <2>1. s.call \in Asked /\ (Underway(s.call) => Foreseen(s.call)) /\ Names(s.call)
    BY <1>2 DEF Inv, TypeInv, Flight, Pending
  <2> QED BY <2>1, KeepsForeseen
<1> QED BY <1>1, <1>2

LEMMA SignsUpInv ==
  ASSUME Inv, NEW r \in net, SignsUp(r)
  PROVE  Inv'
<1> DEFINE p == r.call.by
           call == [r.call EXCEPT !.at = "opened"]
<1>1. p \in People /\ srv \in Rows /\ r.call \in Asked /\ r.call.what = "signup"
  BY DEF Inv, TypeInv, Flight, Asked, SignsUp, Served
<1>2. CASE Refused(r)
  BY <1>2, RefusedInv
<1>3. ASSUME NEW f \in NewFirms, Goes(r, call), srv.user[p] = "none",
             srv' = [Founded(f, p) EXCEPT !.user[p] = "open",
                       !.owed = @ \cup {<<i.firm, p>> : i \in InvitesOf(p)}]
      PROVE  Inv'
  <2> DEFINE rows == [Founded(f, p) EXCEPT !.user[p] = "open",
                        !.owed = @ \cup {<<i.firm, p>> : i \in InvitesOf(p)}]
  <2>1. f \in Firms /\ Founded(f, p) \in Rows
    BY <1>1 DEF NewFirms, Founded, Rows, Rank
  <2>2. \A i \in InvitesOf(p) : i.firm \in Firms
    BY <1>1 DEF InvitesOf, Rows, Invite
  <2>3. LET old == Founded(f, p) IN
        /\ old.user = srv.user /\ old.closed = srv.closed /\ old.joined = srv.joined
        /\ old.invites = srv.invites /\ old.owed = srv.owed
    BY <1>1 DEF Founded, Rows
  <2>4. /\ rows.role = Founded(f, p).role /\ rows.owner = Founded(f, p).owner
        /\ rows.user = [srv.user EXCEPT ![p] = "open"] /\ rows.closed = srv.closed
        /\ rows.joined = srv.joined /\ rows.invites = srv.invites
        /\ rows.owed = srv.owed \cup {<<i.firm, p>> : i \in InvitesOf(p)}
    BY <2>1, <2>3 DEF Rows
  <2>5. rows \in Rows
    <3>1. [srv.user EXCEPT ![p] = "open"] \in [People -> {"none", "open", "deleted"}]
      BY <1>1 DEF Rows
    <3>2. srv.owed \cup {<<i.firm, p>> : i \in InvitesOf(p)} \subseteq Firms \X People
      BY <1>1, <2>2 DEF Rows
    <3> QED BY <2>1, <2>3, <3>1, <3>2 DEF Rows
  <2>6. \A q \in People : rows.user[q] = IF q = p THEN "open" ELSE srv.user[q]
    BY <1>1, <2>4 DEF Rows
  <2>7. KeepsAll
    <3> SUFFICES ASSUME NEW q \in People, srv.user[q] # "none" PROVE Keeps(q)
      BY DEF KeepsAll
    <3>1. q # p /\ rows.user[q] # "none"
      BY <1>3, <2>6
    <3>2. \A o \in rows.owed : o[2] = q => o \in srv.owed
      BY <2>4, <3>1
    <3> QED BY <1>1, <1>3, <2>4, <2>5, <3>1, <3>2, FoundedKeeps
  <2>8. Owners'
    BY <1>1, <1>3, <2>4, <2>5, FoundedOwners
  <2>9. \A o \in srv'.owed : o[2] # p => o \in srv.owed
    BY <1>3, <2>4
  <2>10. OwedToUsers'
    <3> SUFFICES ASSUME NEW o \in srv'.owed PROVE rows.user[o[2]] # "none"
      BY <1>3 DEF OwedToUsers
    <3>1. o[2] \in People
      BY <1>3, <2>5 DEF Rows
    <3> QED BY <2>6, <2>9, <3>1 DEF Inv, OwedToUsers
  <2>11. JoinedUsers' /\ p \notin srv.joined
    BY <1>1, <1>3, <2>4, <2>6 DEF Inv, JoinedUsers, Rows
  <2>12. JoinedBelong'
    <3> SUFFICES ASSUME NEW o \in srv'.owed, o[2] \in srv.joined PROVE Belongs(o[1], o[2])'
      BY <1>3, <2>4 DEF JoinedBelong
    <3>1. o \in srv.owed /\ o[2] \in People
      BY <1>1, <2>9, <2>11 DEF Rows
    <3> QED BY <2>7, <3>1 DEF Inv, JoinedBelong, JoinedUsers, KeepsAll, Keeps, Belongs
  <2>13. call \in Asked /\ call.what = "signup" /\ call.at = "opened" /\ call.by = p
    BY <1>1 DEF Asked
  <2>14. Foreseen(call)'
    <3>1. \A i \in InvitesOf(p) : i \in InvitesOf(p)'
      <4> SUFFICES ASSUME NEW i \in InvitesOf(p) PROVE Stands(i.firm)'
        BY <1>3, <2>4 DEF InvitesOf
      <4>1. i.firm \in Firms /\ i.firm \notin srv.closed /\ srv.owner[i.firm] # Unowned
        BY <2>2 DEF InvitesOf, Stands, Made
      <4>2. rows.owner = [srv.owner EXCEPT ![f] = p]
        BY <1>1, <2>1, <2>4 DEF Founded, Rows
      <4>3. rows.owner[i.firm] # Unowned
        BY <1>1, <2>1, <4>1, <4>2, FirmsAssumption DEF Rows
      <4> QED BY <1>3, <2>4, <4>1, <4>3 DEF Stands, Made
    <3>2. ASSUME NEW o \in srv'.owed, o[2] = p
          PROVE  \E i \in InvitesOf(p)' : i.firm = o[1]
      <4>1. o \notin srv.owed
        BY <1>3, <3>2 DEF Inv, OwedToUsers
      <4>2. PICK i \in InvitesOf(p) : o = <<i.firm, p>>
        BY <1>3, <2>4, <4>1
      <4> QED BY <3>1, <4>2
    <3>3. srv'.user[p] # "none"
      BY <1>1, <1>3, <2>6
    <3> QED BY <2>13, <3>2, <3>3 DEF Foreseen, Asking
  <2>15. TypeInv' /\ UNCHANGED page /\ \A s \in net' : s \in net \/ s.call = call
    BY <1>3, <2>5, <2>13, GoesNet
  <2>16. Pending'
    BY <2>7, <2>13, <2>14, <2>15, OthersPending DEF Names
  <2> QED BY <2>8, <2>10, <2>11, <2>12, <2>15, <2>16 DEF Inv, OnMembers
<1> QED BY <1>2, <1>3 DEF SignsUp

LEMMA ReadsInvitesInv ==
  ASSUME Inv, NEW r \in net, ReadsInvites(r)
  PROVE  Inv'
<1>1. r.call \in Asked /\ srv \in Rows /\ r.call.what = "signup" /\ r.call.at = "opened"
  BY DEF Inv, TypeInv, Flight, ReadsInvites, Served
<1>2. PICK read : read = InvitesOf(r.call.by)
  OBVIOUS
<1> DEFINE call == [r.call EXCEPT !.at = "read", !.asked = read]
<1>3. read \subseteq Invite
  BY <1>1, <1>2 DEF InvitesOf, Rows
<1>4. /\ call \in Asked /\ call.what = "signup" /\ call.at = "read" /\ call.by = r.call.by
      /\ call.asked = read
  BY <1>1, <1>3 DEF Asked
<1>5. Goes(r, call) /\ UNCHANGED srv
  BY <1>2 DEF ReadsInvites
<1>6. Foreseen(r.call)
  BY <1>1 DEF Inv, Pending, Underway
<1>7. Foreseen(call)'
  BY <1>1, <1>2, <1>4, <1>5, <1>6 DEF Foreseen, Asking, Belongs
<1>8. KeepsAll /\ Owners' /\ srv' \in Rows
  BY <1>5, SameKeeps
<1>9. TypeInv' /\ UNCHANGED page /\ \A s \in net' : s \in net \/ s.call = call
  BY <1>4, <1>5, <1>8, GoesNet
<1>10. Pending'
  BY <1>4, <1>7, <1>8, <1>9, OthersPending DEF Names
<1>11. OwedToUsers' /\ JoinedUsers' /\ JoinedBelong'
  BY <1>5 DEF Inv, OwedToUsers, JoinedUsers, JoinedBelong, Belongs
<1> QED BY <1>8, <1>9, <1>10, <1>11 DEF Inv, OnMembers

(* What a sign-up joins at the end: companies he was no member of.          *)
LEMMA JoinsInv ==
  ASSUME Inv, NEW r \in net, Joins(r)
  PROVE  Inv'
<1> DEFINE c == r.call
<1> USE FirmsAssumption
<1>1. c \in Asked /\ c.by \in People /\ srv \in Rows /\ c.what = "signup" /\ c.at = "read"
      /\ c.asked \subseteq Invite
  BY DEF Inv, TypeInv, Flight, Asked, Joins, Served
<1>2. CASE Refused(r)
  BY <1>2, RefusedInv
<1>3. ASSUME ~Clash(c), Done(r),
             srv' = [srv EXCEPT !.role = Belonging(c), !.joined = @ \cup {c.by}]
      PROVE  Inv'
  <2>1. \A f \in Firms : (\E i \in c.asked : i.firm = f) =>
          LET i == CHOOSE i \in c.asked : i.firm = f IN i \in c.asked /\ i.firm = f
    OBVIOUS
  <2>2. \A f \in Firms : (\E i \in c.asked : i.firm = f) =>
          LET role == (CHOOSE i \in c.asked : i.firm = f).role IN
          role \in Rank /\ role # "none"
    BY <1>1, <2>1 DEF Invite, Rank
  <2>3. Belonging(c) \in [Firms -> [People -> Rank]]
    BY <1>1, <2>2 DEF Belonging, Rows
  <2>4. srv' \in Rows
    BY <1>1, <1>3, <2>3 DEF Rows
  <2>5. /\ srv'.user = srv.user /\ srv'.role = Belonging(c) /\ srv'.owner = srv.owner
        /\ srv'.closed = srv.closed /\ srv'.joined = srv.joined \cup {c.by}
        /\ srv'.invites = srv.invites /\ srv'.owed = srv.owed
    BY <1>1, <1>3 DEF Rows
  <2>6. \A f \in Firms, q \in People :
          \/ q # c.by /\ Belonging(c)[f][q] = srv.role[f][q]
          \/ q = c.by /\ (\E i \in c.asked : i.firm = f) /\ Belonging(c)[f][q] # "none"
          \/ q = c.by /\ ~(\E i \in c.asked : i.firm = f) /\ Belonging(c)[f][q] = srv.role[f][q]
    BY <1>1, <2>2 DEF Belonging, Rows
  <2>7. KeepsAll
    <3> SUFFICES ASSUME NEW q \in People, srv.user[q] # "none" PROVE Keeps(q)
      BY DEF KeepsAll
    <3>1. \A o \in srv'.owed : o[1] \in Firms
      BY <2>4 DEF Rows
    <3> QED BY <2>5, <2>6, <3>1 DEF Keeps, Belongs, InvitesOf, Stands, Made
  <2>8. Owners'
    <3> SUFFICES ASSUME NEW f \in Firms, srv.owner[f] # Unowned
                 PROVE  Belonging(c)[f][srv.owner[f]] = "admin"
      BY <2>5 DEF Owners, Made
    <3>1. srv.owner[f] \in People /\ srv.role[f][srv.owner[f]] = "admin"
      BY <1>1 DEF Inv, Owners, Made, Rows
    <3>2. srv.owner[f] = c.by => ~(\E i \in c.asked : i.firm = f)
      BY <1>3, <3>1 DEF Clash
    <3> QED BY <2>6, <3>1, <3>2
  <2>9. Foreseen(c)
    BY <1>1 DEF Inv, Pending, Underway
  <2>10. TypeInv' /\ UNCHANGED page
         /\ \A s \in net' : (s \in net \/ ~Underway(s.call)) /\ Names(s.call)
    BY <1>3, <2>4, DoneNet
  <2>11. OwedToUsers' /\ JoinedUsers'
    BY <2>5, <2>9 DEF Inv, OwedToUsers, JoinedUsers, Foreseen
  <2>12. JoinedBelong'
    <3> SUFFICES ASSUME NEW o \in srv.owed, o[2] \in srv.joined \cup {c.by}
                 PROVE  Belonging(c)[o[1]][o[2]] # "none"
      BY <2>5 DEF JoinedBelong, Belongs
    <3>1. o[1] \in Firms /\ o[2] \in People
      BY <1>1 DEF Rows
    <3>2. CASE o[2] = c.by
      BY <1>1, <2>6, <2>9, <3>1, <3>2 DEF Foreseen, Asking, Belongs
    <3>3. CASE o[2] # c.by
      BY <2>6, <3>1, <3>3 DEF Inv, JoinedBelong, Belongs
    <3> QED BY <3>2, <3>3
  <2>13. Pending'
    <3> SUFFICES ASSUME NEW s \in net', Underway(s.call) PROVE Foreseen(s.call)'
      BY <2>10 DEF Pending
    <3>1. s \in net /\ s.call \in Asked /\ Foreseen(s.call)
      BY <2>10 DEF Inv, TypeInv, Flight, Pending
    <3> QED BY <2>7, <3>1, KeepsForeseen
  <2> QED BY <2>8, <2>10, <2>11, <2>12, <2>13 DEF Inv, OnMembers
<1> QED BY <1>2, <1>3 DEF Joins

----------------------------------------------------------------------------
LEMMA StepInv ==
  ASSUME Inv, [MembersNext]_webVars
  PROVE  Inv'
<1>1. CASE UNCHANGED webVars
  <2>1. UNCHANGED page /\ UNCHANGED net /\ UNCHANGED sent /\ UNCHANGED srv
    BY <1>1 DEF webVars
  <2>2. TypeInv' /\ \A s \in net' : (s \in net \/ ~Underway(s.call)) /\ Names(s.call)
    BY <2>1 DEF Inv, TypeInv, Pending
  <2> QED BY <2>1, <2>2, SameKeeps, KeepsInv
<1>2. ASSUME NEW by \in People, AsksOf(by) PROVE Inv'
  BY <1>2, AsksInv
<1>3. ASSUME NEW r \in net, Serves(r) PROVE Inv'
  BY <1>3, LetInInv, LooksUpInv, AddsInv, RemovesInv, ClosesInv, CreatesInv, AdministersInv,
     SignsUpInv, ReadsInvitesInv, JoinsInv, RefusedInv DEF Serves, Killed
<1> QED BY <1>1, <1>2, <1>3 DEF MembersNext

(* Whatever requests cross, and wherever they are killed: the owner of a    *)
(* company is one of its administrators, and a sign-up that succeeded has   *)
(* made its user a member of the companies that had invited him.            *)
THEOREM MembersAgreeHolds == MembersSpec => []MembersAgree
<1>1. MembersInit => Inv
  BY InitInv
<1>2. Inv /\ [MembersNext]_webVars => Inv'
  BY StepInv
<1>3. Inv => MembersAgree
  BY DEF Inv, MembersAgree, OwnerStays, InvitedBelong, Owners, JoinedBelong, Belongs
<1> QED BY <1>1, <1>2, <1>3, PTL DEF MembersSpec
=============================================================================
