----------------------------- MODULE WebSession -----------------------------
(***************************************************************************)
(* Who is logged in, and in which company: the environment that index.js   *)
(* and set_app_settings.js set up at every load, auth_client.js, the menu, *)
(* SwitchCompany.jsx and LoginAs.jsx, over several windows of one browser, *)
(* which share localStorage and keep a sessionStorage each.                *)
(***************************************************************************)
EXTENDS WebCore

CONSTANTS
  Windows, Users, Companies,
  Admin,        \* the user whose role is super_admin
  First,        \* the company the server lists first
  Role,         \* a user's role in a company
  Nobody, None, \* no user, no company
  MaxBoots      \* loads of a window

ASSUME SessionAssumption ==
  /\ Admin \in Users /\ Nobody \notin Users
  /\ First \in Companies /\ None \notin Companies
  /\ MaxBoots \in Nat

Initials(user, company, default) == [user |-> user, company |-> company, default |-> default]
NoInitials == Initials(Nobody, None, None)

\* session: the window's sessionStorage; redux: postLoginInitials of the store.
\* fine: the last load or login went to its end and nobody logged out since.
ClosedWindow ==
  [phase |-> "closed", config |-> Nobody, boot |-> NoInitials,
   session |-> [token |-> Nobody, logged_in_as |-> "", cached |-> NoInitials,
                role |-> "", company |-> None],
   redux |-> NoInitials, fine |-> FALSE]

\* typed: the users whose passwords were typed into this browser.
SessionInit ==
  /\ page = "Session" /\ net = {} /\ sent = 0
  /\ ui = [win |-> [w \in Windows |-> ClosedWindow], typed |-> {}, boots |-> 0,
           local |-> [current_user |-> Nobody, cached |-> NoInitials]]
  /\ srv = [default |-> [u \in Users |-> None]]

At(w, phase) == page = "Session" /\ ui.win[w].phase = phase
Session(w) == ui.win[w].session
Token(w) == Session(w).token

\* Layout, WithLogin and InjectParams show their pages to a token, whoever's.
Admits(w) == At(w, "app") /\ Token(w) # Nobody

\* What the menu offers.
Menu(w) ==
  IF ~Admits(w) THEN {"Login", "Signup", "Reset password"}
  ELSE {"Home", "Companies", "Account", "Logout"} \cup
       (IF ui.win[w].redux.user = Admin THEN {"Admin"} ELSE {})

Win(w, record) == ui' = [ui EXCEPT !.win[w] = record]
Kept == UNCHANGED <<page, srv>>
Still == UNCHANGED <<page, sent, net, srv>>

\* What the server answers to me, me/meta_data and the choice of a company:
\* the default company, or the first of the list.
PostLoginInitials(u) ==
  Initials(u, IF srv.default[u] = None THEN First ELSE srv.default[u], srv.default[u])

(***************************************************************************)
(* Loading a window.                                                       *)
(***************************************************************************)
Booting(w, record) ==
  ui' = [ui EXCEPT !.win[w] = [record EXCEPT !.phase = "settings", !.fine = FALSE],
                   !.boots = @ + 1]

OpenWindow(w) ==
  /\ At(w, "closed") /\ ui.boots < MaxBoots
  /\ Booting(w, ClosedWindow)
  /\ Still

\* A reload, or the network back again: the environment is set up anew; what
\* the page was waiting for finds it gone.
Reload(w) ==
  /\ page = "Session" /\ ui.win[w].phase \in {"app", "dead"} /\ ui.boots < MaxBoots
  /\ Booting(w, [ui.win[w] EXCEPT !.redux = NoInitials])
  /\ net' = {r \in net : r.call.win # w}
  /\ UNCHANGED <<page, sent, srv>>

CloseWindow(w) ==
  /\ page = "Session" /\ ui.win[w].phase # "closed"
  /\ Win(w, ClosedWindow)
  /\ net' = {r \in net : r.call.win # w}
  /\ UNCHANGED <<page, sent, srv>>

\* The token of the address, of the session, or of the last login in any window.
SearchToken(w) ==
  LET s == Session(w) IN
  IF ui.win[w].config # Nobody
  THEN [s EXCEPT !.token = ui.win[w].config, !.logged_in_as = "1"]
  ELSE [s EXCEPT !.logged_in_as = IF @ = "1" THEN @ ELSE "0",
                 !.token = IF @ # Nobody THEN @ ELSE ui.local.current_user]

\* Without the settings the page stays blank.
SettingsAnswered(w, ok) ==
  /\ At(w, "settings")
  /\ LET s == SearchToken(w) IN
     Win(w, IF ~ok THEN [ui.win[w] EXCEPT !.phase = "dead"]
            ELSE [ui.win[w] EXCEPT
                    !.phase = IF s.token = Nobody THEN "app" ELSE "initials",
                    !.session = s, !.boot = NoInitials,
                    !.fine = s.token = Nobody])
  /\ Still

\* A login_as window keeps its initials in its session, others share them in
\* localStorage; a company found there replaces the one the server proposes.
Cached(w) ==
  IF Session(w).logged_in_as = "1" THEN Session(w).cached ELSE ui.local.cached

WithCached(w, fresh) ==
  IF ui.win[w].config # Nobody \/ Cached(w).company = None
  THEN fresh ELSE [fresh EXCEPT !.company = Cached(w).company]

InitialsAnswered(w, ok) ==
  LET initials == WithCached(w, PostLoginInitials(Token(w)))
      here == Session(w).logged_in_as = "1"
      loaded == [ui.win[w] EXCEPT
                   !.phase = "role",
                   !.config = Nobody, \* the address is "/#/" by now
                   !.boot = initials,
                   !.session.cached = IF here THEN initials ELSE @]
  IN /\ At(w, "initials")
     /\ ui' = IF ok
              THEN [ui EXCEPT !.win[w] = loaded,
                              !.local.cached = IF here THEN @ ELSE initials]
              ELSE [ui EXCEPT !.win[w].phase = "app", !.win[w].config = Nobody]
     /\ Still

MutantRoleAnswered(w, ok) ==
  LET i == ui.win[w].boot IN
  /\ At(w, "role")
  /\ Win(w, [ui.win[w] EXCEPT
               !.phase = "app", !.redux = i, !.fine = ok,
               !.session.role = IF ok THEN (IF i.user = Admin THEN "super_admin"
                                            ELSE Role[i.user][i.company]) ELSE @])
  /\ Still

\* The role in the company, asked for unless the user is super_admin; a
\* failure lets the application start with what was found so far.
RoleAnswered(w, ok) ==
  LET i == ui.win[w].boot
      known == ok \/ i.user = Admin
  IN /\ At(w, "role")
     /\ Win(w, [ui.win[w] EXCEPT
                  !.phase = "app", !.redux = i, !.fine = known,
                  !.session.role = IF ~known THEN @
                                   ELSE IF i.user = Admin THEN "super_admin"
                                   ELSE Role[i.user][i.company],
                  !.session.company = IF known THEN i.company ELSE @])
     /\ Still

(***************************************************************************)
(* Logging in and out.                                                     *)
(***************************************************************************)
Call(what, w, user, company) ==
  [what |-> what, win |-> w, user |-> user, company |-> company]

Waiting(w) == \E r \in net : r.call.win = w

\* The login page is an address of its own, whoever is logged in.
Login(w, u) ==
  /\ At(w, "app") /\ ~Waiting(w)
  /\ Send(Call("login", w, u, None))
  /\ Win(w, [ui.win[w] EXCEPT !.fine = FALSE])
  /\ Kept

Cleared == ClosedWindow.session

\* The token is kept twice, then the initials are asked for with it.
LoginAnswered(r, ok) ==
  LET w == r.call.win IN
  /\ r.call.what = "login" /\ (ok => r.served)
  /\ IF ok
     THEN /\ ui' = [ui EXCEPT !.win[w].session.token = r.call.user,
                              !.local.current_user = r.call.user,
                              !.typed = @ \cup {r.call.user}]
          /\ net' = (net \ {r}) \cup {[r EXCEPT !.call.what = "initials", !.served = FALSE]}
     ELSE /\ Win(w, [ui.win[w] EXCEPT !.session = Cleared])
          /\ net' = net \ {r}
  /\ UNCHANGED <<page, sent, srv>>

\* A failure clears the session, not the current_user other windows find.
LoginCompleted(r, ok) ==
  LET w == r.call.win
      i == PostLoginInitials(r.call.user)
  IN /\ r.call.what = "initials" /\ Settle(r, ok)
     /\ Win(w, IF ok
               THEN [ui.win[w] EXCEPT
                       !.redux = i, !.fine = TRUE, !.session.company = i.company,
                       !.session.role = IF i.user = Admin THEN "super_admin"
                                        ELSE Role[i.user][i.company]]
               ELSE [ui.win[w] EXCEPT !.session = Cleared])
     /\ Kept

\* Both storages are cleared, the shared one for every window.
Logout(w) ==
  /\ Admits(w) /\ "Logout" \in Menu(w)
  /\ ui' = [ui EXCEPT !.win[w].session = Cleared, !.win[w].fine = FALSE,
                      !.local = [current_user |-> Nobody, cached |-> NoInitials]]
  /\ Still

(***************************************************************************)
(* The company of the session.                                             *)
(***************************************************************************)
\* The role the list of companies gives: "admin" everywhere to a super_admin.
ListedRole(u, c) == IF u = Admin THEN "admin" ELSE Role[u][c]

\* The initials to change: the stored ones, or those of the store.
Base(w) ==
  LET stored == IF Session(w).logged_in_as = "0" THEN ui.local.cached ELSE Session(w).cached
  IN IF stored = NoInitials THEN ui.win[w].redux ELSE stored

MutantStored(w, initials) == [ui EXCEPT !.local.cached = initials]

\* They go back to localStorage from a window that booted as itself, to the
\* session otherwise.
Stored(w, initials) ==
  IF Session(w).logged_in_as = "0"
  THEN [ui EXCEPT !.local.cached = initials]
  ELSE [ui EXCEPT !.win[w].session.cached = initials]

SelectCompany(w, c) ==
  /\ Admits(w)
  /\ LET s == Stored(w, [Base(w) EXCEPT !.company = c]) IN
     ui' = [s EXCEPT !.win[w] = [@ EXCEPT !.session.role = ListedRole(Token(w), c),
                                          !.session.company = c,
                                          !.redux.company = c]]
  /\ Still

MakeDefault(w) ==
  /\ Admits(w) /\ ~Waiting(w)
  /\ ui.win[w].redux.company \notin {None, ui.win[w].redux.default}
  /\ Send(Call("meta_data", w, Token(w), ui.win[w].redux.company))
  /\ UNCHANGED <<page, ui, srv>>

\* The whole meta_data of the stored initials goes to the store.
MakeDefaultAnswered(r, ok) ==
  LET w == r.call.win
      s == Stored(w, [Base(w) EXCEPT !.default = r.call.company])
  IN /\ r.call.what = "meta_data" /\ Settle(r, ok)
     /\ ui' = IF ok THEN [s EXCEPT !.win[w].redux.default = r.call.company] ELSE ui
     /\ Kept

(***************************************************************************)
(* Logging in as another user, in a new window.                            *)
(***************************************************************************)
LoginAs(w, u) ==
  /\ Admits(w) /\ "Admin" \in Menu(w) /\ u # Admin /\ ~Waiting(w)
  /\ Token(w) = Admin \* the server refuses the token to others
  /\ Send(Call("token", w, u, None))
  /\ UNCHANGED <<page, ui, srv>>

\* The new window starts with a copy of its opener's session.
LoginAsAnswered(r, ok) ==
  /\ r.call.what = "token" /\ Settle(r, ok)
  /\ IF ok
     THEN \E new \in Windows :
            /\ At(new, "closed") /\ ui.boots < MaxBoots
            /\ Booting(new, [ClosedWindow EXCEPT !.config = r.call.user,
                                                 !.session = Session(r.call.win)])
     ELSE UNCHANGED ui
  /\ Kept

SessionServes(r) ==
  page = "Session" /\
  Serve(r, IF r.call.what = "meta_data"
           THEN [srv EXCEPT !.default[r.call.user] = r.call.company] ELSE srv)

SessionAnswers(r, ok) ==
  page = "Session" /\
  (LoginAnswered(r, ok) \/ LoginCompleted(r, ok) \/ MakeDefaultAnswered(r, ok)
   \/ LoginAsAnswered(r, ok))

SessionNext ==
  \/ \E w \in Windows :
       \/ OpenWindow(w) \/ Reload(w) \/ CloseWindow(w) \/ Logout(w) \/ MakeDefault(w)
       \/ \E ok \in BOOLEAN :
            SettingsAnswered(w, ok) \/ InitialsAnswered(w, ok) \/ RoleAnswered(w, ok)
       \/ \E u \in Users : Login(w, u) \/ LoginAs(w, u)
       \/ \E c \in Companies : SelectCompany(w, c)
  \/ \E r \in net : SessionServes(r) \/ \E ok \in BOOLEAN : SessionAnswers(r, ok)

(***************************************************************************)
(* Properties.                                                             *)
(***************************************************************************)
RolesShown(u, c) == IF u = Admin THEN {"super_admin", "admin"} ELSE {Role[u][c]}

\* In a window whose last load or login went to its end, the store, the
\* session's parameters and the role agree: the pages ask for the company whose
\* name is shown, as the token's user, and hide what his role there forbids,
\* whatever other windows log in, out or switch to.
SessionAgrees ==
  page = "Session" =>
    \A w \in {v \in Windows : Admits(v) /\ ui.win[v].fine} :
      LET r == ui.win[w].redux IN
      /\ r.user = Token(w)
      /\ Session(w).company = r.company
      /\ Session(w).role \in RolesShown(r.user, r.company)

\* "Logged in user context is limited to newly opened window only!"
\* (LoginAs.jsx): what localStorage shares between windows is of users who
\* typed their password in this browser, however login_as windows are
\* reloaded, switch companies, log out and in again.
ImpersonationStays ==
  page = "Session" =>
    {ui.local.current_user, ui.local.cached.user} \subseteq ui.typed \cup {Nobody}
=============================================================================
