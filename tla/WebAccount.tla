----------------------------- MODULE WebAccount -----------------------------
(***************************************************************************)
(* The pages of an account: the forms that open one, verify its address    *)
(* and give it a new password (Signup.jsx, ConfirmEmail.jsx,               *)
(* PasswordForgot.jsx, PasswordReset.jsx) with the server's side of them   *)
(* (auth/controllers.py), and the profile its user edits (UserProfile.jsx) *)
(* with the company switcher shown on it (SwitchCompany.jsx).              *)
(***************************************************************************)
EXTENDS WebCore

CONSTANTS
  Emails, Passwords, \* what passes the checks of the forms
  Names,             \* what a user is called, and an address
  Workplaces,        \* the user's companies
  Blank              \* an empty field; no password, no code

ASSUME AccountAssumption ==
  /\ Blank \notin Emails \cup Passwords \cup Names \cup Workplaces
  /\ Names # {}

(***************************************************************************)
(* The forms.                                                              *)
(***************************************************************************)
Forms == {"sign-up", "verify-email", "recover-password", "reset-password"}

\* named: the name and the company's name are filled in.
Cleared_form == [email |-> Blank, password |-> Blank, code |-> Blank, named |-> FALSE]
NoAccount == [password |-> Blank, verified |-> FALSE, verification_code |-> Blank,
              reset_code |-> Blank]

\* checks: the setting that asks for verified addresses; back: the codes that
\* came back with an address, a history.
FormsInit ==
  /\ page = "Account" /\ net = {} /\ sent = 0
  /\ \E form \in Forms : ui = [form |-> form, reverify |-> FALSE, fields |-> Cleared_form]
  /\ srv \in [accounts : {[e \in Emails |-> NoAccount]}, mails : {{}}, back : {{}},
              checks : BOOLEAN]

OnForm == page = "Account"
FormStill == UNCHANGED <<page, sent, net, srv>>

\* The buttons below a form, and links in mails, lead to the other forms; what
\* is under way then finds its form gone.
OpensForm(form) ==
  /\ OnForm /\ form # ui.form
  /\ ui' = [form |-> form, reverify |-> FALSE, fields |-> Cleared_form]
  /\ net' = {[r EXCEPT !.call.gone = TRUE] : r \in net}
  /\ UNCHANGED <<page, sent, srv>>

\* What each form shows and lets be typed.
FormFields(form) ==
  {"email"} \cup
  (IF form = "sign-up" THEN {"named"} ELSE {}) \cup
  (IF form \in {"sign-up", "reset-password"} THEN {"password"} ELSE {}) \cup
  (IF form = "reset-password" \/ (form = "verify-email" /\ ~ui.reverify) THEN {"code"} ELSE {})

\* Codes are read in the mails to an address.
Typed(field) ==
  CASE field = "email" -> Emails
    [] field = "password" -> Passwords
    [] field = "code" -> {m.code : m \in {n \in srv.mails : n.to = ui.fields.email}}
    [] field = "named" -> {TRUE}

Types(field) ==
  /\ OnForm /\ field \in FormFields(ui.form)
  /\ \E v \in Typed(field) : ui' = [ui EXCEPT !.fields[field] = v]
  /\ FormStill

TogglesReverify ==
  /\ OnForm /\ ui.form = "verify-email"
  /\ ui' = [ui EXCEPT !.reverify = ~@]
  /\ FormStill

FormCall(what) ==
  [what |-> what, email |-> ui.fields.email, password |-> ui.fields.password,
   code |-> ui.fields.code, fine |-> FALSE, gone |-> FALSE]

Submits(form, what) ==
  /\ OnForm /\ ui.form = form
  /\ ui.fields.email # Blank
  /\ Send(FormCall(what))
  /\ UNCHANGED <<page, ui, srv>>

sign_up ==
  /\ OnForm /\ ui.fields.named /\ ui.fields.password # Blank
  /\ Submits("sign-up", "signup")

\* The code is not checked by this form.
confirm_email == OnForm /\ ~ui.reverify /\ Submits("verify-email", "verify")
resend_email == OnForm /\ ui.reverify /\ Submits("verify-email", "resend-verification")

forgot_password == Submits("recover-password", "forgot-password")

reset_password ==
  /\ OnForm /\ ui.fields.code # Blank /\ ui.fields.password # Blank
  /\ Submits("reset-password", "reset-password")

\* Success clears the form, whatever was typed since; a failure is told only.
FormAnswered(r, ok) ==
  /\ OnForm /\ (ok => r.call.fine) /\ Settle(r, ok)
  /\ ui' = IF ok /\ ~r.call.gone
           THEN [ui EXCEPT !.fields = Cleared_form,
                           !.reverify = @ /\ r.call.what # "resend-verification"]
           ELSE ui
  /\ UNCHANGED <<page, srv>>

(***************************************************************************)
(* The server's side.                                                      *)
(***************************************************************************)
Exists(a) == a.password # Blank
Mail(e, kind, code) == [to |-> e, kind |-> kind, code |-> code]
NewCode == Cardinality(srv.mails) + 1

\* Addresses are mailed when they have to be verified.
SignupResource(c) ==
  LET account == [NoAccount EXCEPT !.password = c.password, !.verified = ~srv.checks,
                                   !.verification_code = NewCode]
      kept == [srv EXCEPT !.accounts[c.email] = account]
  IN IF srv.checks
     THEN [kept EXCEPT !.mails = @ \cup {Mail(c.email, "verify", NewCode)}] ELSE kept

ForgotPassword(c) ==
  [srv EXCEPT !.accounts[c.email].reset_code = NewCode,
              !.mails = @ \cup {Mail(c.email, "reset", NewCode)}]

\* A new code replaces the one mailed before, also of a verified account.
ResendVerificationMail(c) ==
  [srv EXCEPT !.accounts[c.email].verification_code = NewCode,
              !.mails = @ \cup {Mail(c.email, "verify", NewCode)}]

ResetPassword(c) ==
  [srv EXCEPT !.accounts[c.email] = [NoAccount EXCEPT !.password = c.password, !.verified = TRUE],
              !.back = @ \cup {<<c.email, c.code>>}]

EmailVerifyResource(c) ==
  IF srv.accounts[c.email].verified THEN srv
  ELSE [srv EXCEPT !.accounts[c.email].verified = TRUE,
                   !.accounts[c.email].verification_code = Blank,
                   !.back = @ \cup {<<c.email, c.code>>}]

MutantAccepts(c) ==
  LET a == srv.accounts[c.email] IN
  CASE c.what = "signup" -> ~Exists(a)
    [] c.what = "reset-password" -> Exists(a) /\ a.reset_code = c.code
    [] OTHER -> Exists(a)

\* Refused: an address that is taken or unknown, and a code that is not the
\* last one.
Accepts(c) ==
  LET a == srv.accounts[c.email] IN
  CASE c.what = "signup" -> ~Exists(a)
    [] c.what = "verify" -> Exists(a) /\ (a.verified \/ a.verification_code = c.code)
    [] c.what = "reset-password" -> Exists(a) /\ a.reset_code = c.code
    [] OTHER -> Exists(a)

FormServed(r) ==
  /\ OnForm /\ ~r.served
  /\ net' = (net \ {r}) \cup {[r EXCEPT !.served = TRUE, !.call.fine = Accepts(r.call)]}
  /\ srv' = IF ~Accepts(r.call) THEN srv
            ELSE CASE r.call.what = "signup" -> SignupResource(r.call)
                   [] r.call.what = "verify" -> EmailVerifyResource(r.call)
                   [] r.call.what = "forgot-password" -> ForgotPassword(r.call)
                   [] r.call.what = "reset-password" -> ResetPassword(r.call)
                   [] r.call.what = "resend-verification" -> ResendVerificationMail(r.call)
  /\ UNCHANGED <<page, sent, ui>>

FormsNext ==
  \/ \E form \in Forms : OpensForm(form)
  \/ \E field \in {"email", "password", "code", "named"} : Types(field)
  \/ TogglesReverify \/ sign_up \/ confirm_email \/ resend_email
  \/ forgot_password \/ reset_password
  \/ \E r \in net : FormServed(r) \/ \E ok \in BOOLEAN : FormAnswered(r, ok)

(***************************************************************************)
(* The profile: the user in the store is edited in place, the saved one is *)
(* kept by the page to compare with and to go back to.  The switcher keeps *)
(* another copy: the meta data as it was stored when the window was booted. *)
(***************************************************************************)
\* user: name and email; meta: the address lines, as one, and the default
\* company, each a key of its own.  stored: the meta data of the
\* post_login_initials in the browser's storage, which one window uses;
\* selected: the global company; switcher: what the switcher waits for.
\* honest, a history: nothing was edited while a save was under way, no save
\* has failed and no unsaved edit was left behind.  undone, another: the
\* switcher has replaced the address shown by the stored one.
ProfileInit ==
  /\ page = "Profile" /\ net = {} /\ sent = 0
  /\ \E n \in Names, default \in Workplaces \cup {Blank}, selected \in Workplaces :
       LET user == [name |-> n, email |-> n]
           meta == [address |-> n, company |-> default]
       IN /\ ui = [user |-> user, meta |-> meta, initial |-> [user |-> user, meta |-> meta],
                   stored |-> meta, selected |-> selected, switcher |-> "loading",
                   honest |-> TRUE, undone |-> FALSE, failed |-> {}, notice |-> "none"]
          /\ srv = [user |-> user, meta |-> meta]

OnProfile == page = "Profile"
Unsaved(part) == ui[part] # ui.initial[part]
SavesSent == {r \in net : r.call.what # "default"}

Edits ==
  /\ OnProfile
  /\ \E n \in Names :
       \/ ui' = [ui EXCEPT !.user.name = n, !.honest = @ /\ SavesSent = {}]
       \/ ui' = [ui EXCEPT !.user.email = n, !.honest = @ /\ SavesSent = {}]
       \/ ui' = [ui EXCEPT !.meta.address = n, !.honest = @ /\ SavesSent = {} /\ ~ui.undone]
  /\ FormStill

\* What the server is asked to keep: the name, as it does not let its users
\* change their email, and does not say so; each key of the meta data that
\* differs, one request per key.
Changed(part) ==
  IF part = "user" THEN {"name"}
  ELSE {k \in {"address", "company"} : ui.meta[k] # ui.initial.meta[k]}

SaveCall(part) ==
  [what |-> part, value |-> ui[part], keys |-> Changed(part), batch |-> sent]

\* One call for each part that was changed; both belong to the same "save".
save ==
  /\ OnProfile
  /\ LET parts == {part \in {"user", "meta"} : Unsaved(part)} IN
     /\ ui' = [ui EXCEPT !.notice = IF parts = {} THEN "Please change" ELSE "Saving"]
     /\ IF parts = {} THEN UNCHANGED <<sent, net>>
        ELSE /\ Cardinality(net) + Cardinality(parts) <= MaxInFlight
             /\ sent + Cardinality(parts) <= MaxCalls[page]
             /\ net' = net \cup {[id |-> <<sent, part>>, call |-> SaveCall(part), served |-> FALSE] :
                                   part \in parts}
             /\ sent' = sent + Cardinality(parts)
  /\ UNCHANGED <<page, srv>>

\* Both calls of a save have been answered with success.
save_finished(r) ==
  /\ r.call.batch \notin ui.failed
  /\ \A q \in net \ {r} : q.call.batch # r.call.batch

MutantSaved(r) ==
  /\ OnProfile /\ r \in SavesSent /\ Settle(r, TRUE)
  /\ ui' = [ui EXCEPT !.notice = IF save_finished(r) THEN "User updated!" ELSE @]
  /\ UNCHANGED <<page, srv>>

\* What is shown when the answer comes is taken for what was saved.
Saved(r) ==
  /\ OnProfile /\ r \in SavesSent /\ Settle(r, TRUE)
  /\ ui' = [ui EXCEPT !.initial[r.call.what] = ui[r.call.what],
                      !.notice = IF save_finished(r) THEN "User updated!" ELSE @]
  /\ UNCHANGED <<page, srv>>

WentBack(state) == [state EXCEPT !.user = ui.initial.user, !.meta = ui.initial.meta]

\* One part, or one key, that is not saved takes both parts of the page back.
failed_save(r) ==
  /\ OnProfile /\ r \in SavesSent /\ Settle(r, FALSE)
  /\ ui' = [WentBack(ui) EXCEPT !.honest = FALSE, !.failed = @ \cup {r.call.batch},
                                !.notice = "User not updated"]
  /\ UNCHANGED <<page, srv>>

\* Enabled as long as something is unsaved.
reset ==
  /\ OnProfile /\ (Unsaved("user") \/ Unsaved("meta"))
  /\ ui' = [WentBack(ui) EXCEPT !.honest = @ /\ SavesSent = {}]
  /\ FormStill

\* The list of companies has come; nothing catches its failure.
companies_listed ==
  /\ OnProfile /\ ui.switcher = "loading"
  /\ ui' = [ui EXCEPT !.switcher = "shown"]
  /\ FormStill

DefaultCall ==
  [what |-> "default", value |-> [company |-> ui.selected], keys |-> {"company"}, batch |-> sent]

\* "Make it default!", offered unless it is.
make_default ==
  /\ OnProfile /\ ui.switcher = "shown" /\ ui.meta.company # ui.selected
  /\ Cardinality(net) < MaxInFlight /\ sent < MaxCalls[page]
  /\ net' = net \cup {[id |-> <<sent, "default">>, call |-> DefaultCall, served |-> FALSE]}
  /\ sent' = sent + 1
  /\ ui' = [ui EXCEPT !.switcher = "saving"]
  /\ UNCHANGED <<page, srv>>

\* The whole of the stored meta data, with the new default, replaces what the
\* store holds: an address saved or edited since the boot is undone.
Defaulted(r) ==
  LET stored == [ui.stored EXCEPT !.company = r.call.value.company] IN
  /\ OnProfile /\ r \in net \ SavesSent /\ Settle(r, TRUE)
  /\ ui' = [ui EXCEPT !.stored = stored, !.meta = stored, !.switcher = "shown",
                      !.undone = @ \/ ui.meta.address # ui.stored.address]
  /\ UNCHANGED <<page, srv>>

failed_default(r) ==
  /\ OnProfile /\ r \in net \ SavesSent /\ Settle(r, FALSE)
  /\ ui' = [ui EXCEPT !.switcher = "shown"]
  /\ UNCHANGED <<page, srv>>

\* The page opened again takes the store for saved, unsaved edits included;
\* another company may have been selected, which leaves the page.  (Left
\* while a call is under way, it is another page: not modelled.)
Reopens ==
  /\ OnProfile /\ net = {}
  /\ \E selected \in Workplaces :
       ui' = [ui EXCEPT !.initial = [user |-> ui.user, meta |-> ui.meta], !.failed = {},
                        !.notice = "none", !.selected = selected, !.switcher = "loading",
                        !.honest = /\ @ /\ ~Unsaved("user")
                                   /\ ui.undone \/ ui.meta.address = ui.initial.meta.address]
  /\ FormStill

\* The server keeps one of the keys it is asked to; the call is served when it
\* has kept them all.
ProfileServed(r) ==
  LET part == IF r.call.what = "default" THEN "meta" ELSE r.call.what IN
  /\ OnProfile
  /\ \E k \in r.call.keys :
       /\ srv' = [srv EXCEPT ![part][k] = r.call.value[k]]
       /\ net' = (net \ {r}) \cup {[r EXCEPT !.call.keys = @ \ {k}, !.served = r.call.keys = {k}]}
  /\ UNCHANGED <<page, sent, ui>>

ProfileNext ==
  \/ Edits \/ save \/ reset \/ companies_listed \/ make_default \/ Reopens
  \/ \E r \in net :
       \/ ProfileServed(r) \/ Saved(r) \/ failed_save(r)
       \/ Defaulted(r) \/ failed_default(r)

(***************************************************************************)
(* Properties.                                                             *)
(***************************************************************************)
\* An address that has to be verified is so only if a code mailed to it came
\* back, however mails and answers cross (_verify, ResetPassword.post).
VerifiedByMail ==
  page = "Account" => \A e \in Emails :
    (srv.accounts[e].verified /\ srv.checks) =>
      \E m \in srv.mails : m.to = e /\ <<e, m.code>> \in srv.back

\* What the page takes for saved, and goes back to, is what the server keeps,
\* the email apart, as long as nobody edited into a save, none failed, no edit
\* was left unsaved and the switcher has undone no address (save, failed_save,
\* reset, make_default).
ProfileAgrees ==
  (page = "Profile" /\ ui.honest /\ ~ui.undone /\ SavesSent = {}) =>
    /\ ui.initial.user.name = srv.user.name
    /\ ui.initial.meta.address = srv.meta.address

\* The pages of an account and the server agree on it.
AccountAgrees == VerifiedByMail /\ ProfileAgrees
=============================================================================
