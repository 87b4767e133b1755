---------------------------- MODULE CompanyUsers ----------------------------
(***************************************************************************)
(* Who belongs to a company: the forms that add and remove its users       *)
(* (CreateCompanyUser.jsx, DeleteCompanyUsers.jsx) and the server's side of *)
(* them (companies/controllers.py), with the accounts that are opened and   *)
(* deleted meanwhile (auth/controllers.py, users/controllers.py).  Each     *)
(* request is served in steps, one for each transaction and each read that  *)
(* a later step relies on; the forms keep nothing, a call may come from any *)
(* of them.                                                                *)
(***************************************************************************)
EXTENDS WebCore

CONSTANTS
  People,  \* email addresses
  Firms,   \* companies, those yet to be made included
  Super,   \* the people who are super administrators
  Unowned, \* the owner of a company yet to be made
  Founders, \* Founders[f]: who owns f at the start, or Unowned
  Offered, \* the roles given to new users, a bound
  Batches  \* the users removed by one call, a bound

ASSUME FirmsAssumption ==
  /\ Super \subseteq People /\ Unowned \notin People
  /\ Founders \in [Firms -> People \cup {Unowned}]
  /\ Offered \subseteq {"read", "write", "admin"} /\ Batches \subseteq SUBSET People

\* user: the rows of users; a deleted one keeps its address.  role: the rows of
\* company_user.  invites: those of user_invites, told apart by their ids.
\* joined: whose sign-up was answered with success; owed: the invitations that
\* were there when an account was opened and that nobody has taken back.  Both
\* are history.
MembersInit ==
  /\ page = "CompanyUsers" /\ net = {} /\ sent = 0 /\ ui = << >>
  /\ LET open == {Founders[f] : f \in Firms} \ {Unowned} IN
     srv = [user |-> [p \in People |-> IF p \in open THEN "open" ELSE "none"],
            role |-> [f \in Firms |-> [p \in People |->
                        IF p = Founders[f] THEN "admin" ELSE "none"]],
            owner |-> Founders, closed |-> {}, invites |-> {}, joined |-> {}, owed |-> {}]

OnMembers == page = "CompanyUsers"
Opened(p) == srv.user[p] = "open"
Made(f) == srv.owner[f] # Unowned
Stands(f) == Made(f) /\ f \notin srv.closed
NewFirms == {f \in Firms : ~Made(f)}

(***************************************************************************)
(* The calls.                                                              *)
(***************************************************************************)
\* at: how far the server is with the call; known, asked: what it has read.
MemberCall(what, by, firm, people, role) ==
  [what |-> what, by |-> by, firm |-> firm, people |-> people, role |-> role,
   at |-> "sent", known |-> FALSE, asked |-> {}]

SendsOff(call) == Send(call) /\ UNCHANGED <<page, ui, srv>>

\* Who is logged in adds and removes users, makes and closes companies; super
\* administrators open and delete accounts; anyone signs up.
adds_user(by, f, p, role) == Opened(by) /\ Made(f) /\ SendsOff(MemberCall("add", by, f, {p}, role))
removes_users(by, f, people) == Opened(by) /\ Made(f) /\ SendsOff(MemberCall("remove", by, f, people, "none"))
closes_company(by, f) == Opened(by) /\ Made(f) /\ SendsOff(MemberCall("close", by, f, {}, "none"))
creates_company(by) == Opened(by) /\ SendsOff(MemberCall("create", by, Unowned, {by}, "admin"))
administers(by, what, p) ==
  by \in Super /\ Opened(by) /\ SendsOff(MemberCall(what, by, Unowned, {p}, "none"))
signs_up(p) == SendsOff(MemberCall("signup", p, Unowned, {p}, "admin"))

(***************************************************************************)
(* The server.                                                             *)
(***************************************************************************)
Goes(r, call) == net' = (net \ {r}) \cup {[r EXCEPT !.call = call]} /\ UNCHANGED <<page, sent, ui>>

\* The last step of a call, and one that fails: nothing awaits the answer.
Done(r) == net' = net \ {r} /\ UNCHANGED <<page, sent, ui>>
Refused(r) == Done(r) /\ UNCHANGED srv
Served(r, what, at) == r.call.what = what /\ r.call.at = at

\* login_required, then company_required: the blueprint of the users is an
\* administrator's, that of the companies a writer's too.
LetIn(c) ==
  /\ Opened(c.by) /\ Stands(c.firm)
  /\ \/ c.by \in Super
     \/ srv.role[c.firm][c.by] = "admin"
     \/ c.what = "close" /\ srv.role[c.firm][c.by] = "write"

company_required(r) ==
  /\ \E what \in {"add", "remove", "close"} : Served(r, what, "sent")
  /\ IF LetIn(r.call) THEN Goes(r, [r.call EXCEPT !.at = "let in"]) /\ UNCHANGED srv
     ELSE Refused(r)

\* CompanyUsersCollectionResource.post reads the company again, and the user.
LooksUp(r) ==
  /\ Served(r, "add", "let in")
  /\ IF ~Stands(r.call.firm) THEN Refused(r)
     ELSE /\ \E p \in r.call.people :
               Goes(r, [r.call EXCEPT !.at = "looked", !.known = Opened(p)])
          /\ UNCHANGED srv

\* It invites an address it has found no account of, and adds a user; the
\* primary key refuses one who belongs to the company already.
Adds(r) ==
  /\ Served(r, "add", "looked")
  /\ LET c == r.call IN \E p \in c.people :
       \/ /\ ~c.known /\ Done(r)
          /\ srv' = [srv EXCEPT !.invites = @ \cup
                       {[id |-> r.id, firm |-> c.firm, person |-> p, role |-> c.role]}]
       \/ /\ c.known /\ srv.role[c.firm][p] = "none" /\ Done(r)
          /\ srv' = [srv EXCEPT !.role[c.firm][p] = c.role]
       \/ c.known /\ srv.role[c.firm][p] # "none" /\ Refused(r)

MutantRemovable(f, p) == Opened(p)  \* the owner is removed like others

Removable(f, p) == Opened(p) /\ p # srv.owner[f]

\* CompanyUsersCollectionResource.delete.  filter(email == email) compares the
\* variable with itself: with any user the invitations of all companies go.
Removes(r) ==
  /\ Served(r, "remove", "let in")
  /\ LET c == r.call
         left == [p \in People |-> IF p \in c.people /\ Removable(c.firm, p)
                                   THEN "none" ELSE srv.role[c.firm][p]]
         roles == [srv.role EXCEPT ![c.firm] = left]
     IN IF ~Stands(c.firm) THEN Refused(r)
        ELSE /\ Done(r)
             /\ srv' = [srv EXCEPT !.role = roles, !.invites = IF c.people = {} THEN @ ELSE {},
                                   !.owed = {o \in @ : roles[o[1]][o[2]] # "none"}]

\* CompaniesResource.delete: the owner's, and no row but the company's.
Closes(r) ==
  /\ Served(r, "close", "let in")
  /\ LET c == r.call IN
     IF ~Stands(c.firm) \/ (c.by \notin Super /\ c.by # srv.owner[c.firm]) THEN Refused(r)
     ELSE /\ Done(r)
          /\ srv' = [srv EXCEPT !.closed = @ \cup {c.firm}, !.owed = {o \in @ : o[1] # c.firm}]

\* A new company belongs to its founder.
Founded(f, p) == [srv EXCEPT !.owner[f] = p, !.role[f][p] = "admin"]

\* CompaniesCollectionResource.post
Creates(r) ==
  /\ Served(r, "create", "sent")
  /\ IF ~Opened(r.call.by) THEN Refused(r)
     ELSE \E f \in NewFirms : Done(r) /\ srv' = Founded(f, r.call.by)

\* UserListResource.post, UserResource.delete: invitations are left alone, and
\* so are the companies of a deleted user.
Administers(r) ==
  LET c == r.call
      before(p) == IF c.what = "open" THEN srv.user[p] = "none" ELSE Opened(p)
      after == IF c.what = "open" THEN "open" ELSE "deleted"
  IN /\ \E what \in {"open", "delete"} : Served(r, what, "sent")
     /\ \E p \in c.people :
          IF Opened(c.by) /\ before(p)
          THEN Done(r) /\ srv' = [srv EXCEPT !.user[p] = after]
          ELSE Refused(r)

InvitesOf(p) == {i \in srv.invites : i.person = p /\ Stands(i.firm)}

\* SignupResource.post commits the account and its company first.  An address
\* is taken for ever, by a deleted user too.
SignsUp(r) ==
  /\ Served(r, "signup", "sent")
  /\ LET p == r.call.by IN
     IF srv.user[p] # "none" THEN Refused(r)
     ELSE \E f \in NewFirms :
            /\ Goes(r, [r.call EXCEPT !.at = "opened"])
            /\ srv' = [Founded(f, p) EXCEPT !.user[p] = "open",
                         !.owed = @ \cup {<<i.firm, p>> : i \in InvitesOf(p)}]

\* Then it reads the invitations and their companies ...
ReadsInvites(r) ==
  /\ Served(r, "signup", "opened")
  /\ Goes(r, [r.call EXCEPT !.at = "read", !.asked = InvitesOf(r.call.by)])
  /\ UNCHANGED srv

\* ... and commits what they ask for: all of it, or, if the user belongs to one
\* of the companies meanwhile or was invited to it twice, nothing.
Clash(c) ==
  \/ \E i \in c.asked : srv.role[i.firm][c.by] # "none"
  \/ \E i, j \in c.asked : i # j /\ i.firm = j.firm

Belonging(c) ==
  [f \in Firms |-> [srv.role[f] EXCEPT ![c.by] =
     IF \E i \in c.asked : i.firm = f
     THEN (CHOOSE i \in c.asked : i.firm = f).role ELSE @]]

MutantJoins(r) ==
  /\ Served(r, "signup", "read")
  /\ LET c == r.call IN
     /\ Done(r)
     /\ srv' = [srv EXCEPT !.role = IF Clash(c) THEN @ ELSE Belonging(c),
                           !.joined = @ \cup {c.by}]

Joins(r) ==
  /\ Served(r, "signup", "read")
  /\ LET c == r.call IN
     IF Clash(c) THEN Refused(r)
     ELSE /\ Done(r)
          /\ srv' = [srv EXCEPT !.role = Belonging(c), !.joined = @ \cup {c.by}]

\* The process is killed or the database gone: what is committed stays.
Killed(r) == Refused(r)

AsksOf(by) ==
  \/ \E f \in Firms :
       \/ \E p \in People, role \in Offered : adds_user(by, f, p, role)
       \/ \E people \in Batches : removes_users(by, f, people)
       \/ closes_company(by, f)
  \/ \E what \in {"open", "delete"}, p \in People : administers(by, what, p)
  \/ creates_company(by) \/ signs_up(by)

Serves(r) ==
  \/ company_required(r) \/ LooksUp(r) \/ Adds(r) \/ Removes(r) \/ Closes(r)
  \/ Creates(r) \/ Administers(r)
  \/ SignsUp(r) \/ ReadsInvites(r) \/ Joins(r) \/ Killed(r)

MembersNext ==
  OnMembers /\ ((\E by \in People : AsksOf(by)) \/ (\E r \in net : Serves(r)))

(***************************************************************************)
(* Properties.                                                             *)
(***************************************************************************)
\* Whatever requests cross, the owner of a company is an administrator of it:
\* nobody removes him, and no invitation or addition gives him another role
\* (CompanyUsersCollectionResource, SignupResource.post).
OwnerStays ==
  page = "CompanyUsers" =>
    \A f \in Firms : Made(f) => srv.role[f][srv.owner[f]] = "admin"

\* A sign-up that succeeded has made its user a member of every company that
\* had invited him when his account was opened, unless the company was closed,
\* the user removed or the invitation deleted since (SignupResource.post).
InvitedBelong ==
  page = "CompanyUsers" =>
    \A o \in srv.owed : o[2] \in srv.joined => srv.role[o[1]][o[2]] # "none"

MembersAgree == OwnerStays /\ InvitedBelong
=============================================================================
