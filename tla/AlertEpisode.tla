----------------------------- MODULE AlertEpisode -----------------------------
(***************************************************************************)
(* What the status of an alert promises a user, without tasks, rows or     *)
(* transactions.  An alert is quiet; it is pending since the first value   *)
(* that triggered it; it is firing since it was last announced.            *)
(***************************************************************************)
EXTENDS Integers

CONSTANTS
    Alerts,
    Threshold,   \* minutes an alert must be pending before it fires
    Snooze       \* minutes between reminders; negative: there are none

Never == -1

VARIABLES time, phase, since

Init ==
    /\ time = 0
    /\ phase = [a \in Alerts |-> "quiet"]
    /\ since = [a \in Alerts |-> Never]

Pass == time' > time /\ UNCHANGED <<phase, since>>

Move(a, p, n) ==
    /\ phase' = [phase EXCEPT ![a] = p]
    /\ since' = [since EXCEPT ![a] = n]
    /\ UNCHANGED time

(* n is the time of the value that is acted on; it may lie in the past, but *)
(* never before the value the episode rests on                             *)
Start(a, n) ==
    /\ phase[a] = "quiet" /\ Threshold[a] > 0
    /\ Move(a, "pending", n)

FireAtOnce(a, n) ==
    /\ phase[a] = "quiet" /\ Threshold[a] = 0
    /\ Move(a, "firing", n)

FireLate(a, n) ==
    /\ phase[a] = "pending" /\ n - since[a] >= Threshold[a]
    /\ Move(a, "firing", n)

Remind(a, n) ==
    /\ phase[a] = "firing" /\ Snooze[a] >= 0 /\ n - since[a] > Snooze[a]
    /\ Move(a, "firing", n)

Clear(a) ==
    /\ phase[a] # "quiet"
    /\ Move(a, "quiet", Never)

Next ==
    \/ Pass
    \/ \E a \in Alerts, n \in 0..time :
          Start(a, n) \/ FireAtOnce(a, n) \/ FireLate(a, n) \/ Remind(a, n)
    \/ \E a \in Alerts : Clear(a)

Spec == Init /\ [][Next]_<<time, phase, since>>
=============================================================================
