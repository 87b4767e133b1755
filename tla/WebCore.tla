------------------------------ MODULE WebCore ------------------------------
(***************************************************************************)
(* What the pages of the web interface run on: one mounted page, its React *)
(* state, the REST calls in flight and the server behind them.  A call is  *)
(* sent, served or not, and answered with success or failure; the answers  *)
(* of two calls come back in any order.                                    *)
(***************************************************************************)
EXTENDS Naturals, Integers, Sequences, FiniteSets

CONSTANTS
  MaxInFlight, \* REST calls a page has in flight at once
  MaxCalls     \* REST calls sent in one behaviour, for each page

ASSUME CallsAssumption == MaxInFlight \in Nat \ {0} /\ \A p \in DOMAIN MaxCalls : MaxCalls[p] \in Nat

VARIABLES
  page, \* the page mounted in the window: the name of its component
  sent, \* calls sent so far, a bound
  ui,   \* the page's state, a record
  net,  \* the calls in flight, [id, call, served]; ids count the calls sent
  srv   \* what the server keeps, as far as the page is concerned

webVars == <<page, sent, ui, net, srv>>

\* restClient(...): the call leaves the browser.
Send(call) ==
  /\ Cardinality(net) < MaxInFlight /\ sent < MaxCalls[page]
  /\ net' = net \cup {[id |-> sent, call |-> call, served |-> FALSE]}
  /\ sent' = sent + 1

InFlight(what) == {r \in net : r.call.what = what}

\* The server carries out the call r: apply(call) is what it keeps then.
Serve(r, kept) ==
  /\ ~r.served
  /\ net' = (net \ {r}) \cup {[r EXCEPT !.served = TRUE]}
  /\ srv' = kept
  /\ UNCHANGED <<page, sent, ui>>

\* The promise of r settles: resolved only if the server carried the call
\* out, rejected at any moment, a lost answer included.
Settle(r, ok) == (ok => r.served) /\ net' = net \ {r} /\ UNCHANGED sent
=============================================================================
