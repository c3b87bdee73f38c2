---------------------------- MODULE OutageLedger ----------------------------
(***************************************************************************)
(* What polling promises about the offline alerts of a device, seen from   *)
(* outside: an alert is raised, and those that stand are closed, in the    *)
(* very step that turns the status, although the poll has probed, read and *)
(* decided in three steps before. While nobody else writes the status,     *)
(* each outage raises one alert.                                           *)
(***************************************************************************)
CONSTANTS
    Alerts,
    Statuses    \* values of the status, "online" and "offline" among them

VARIABLES
    status,     \* Device.status
    standing,   \* offline alerts that polls raised and nobody has decided about
    calm        \* nobody but single polls has written the status

ledger == <<status, standing, calm>>

Init ==
    /\ status \in Statuses /\ standing = {}
    /\ calm \in BOOLEAN /\ (calm => status # "offline")

GoOffline(a) ==
    /\ a \notin standing
    /\ calm => status # "offline" /\ standing = {}
    /\ status' = "offline" /\ standing' = standing \cup {a}
    /\ UNCHANGED calm

\* If somebody else has written the status, an alert may be left over that was
\* raised after the poll had read them.
GoOnline ==
    /\ status' = "online" /\ standing' \subseteq standing
    /\ calm => status # "online" /\ standing' = {}
    /\ UNCHANGED calm

\* An operator decides about alerts, several at once if he likes.
Decide(S) ==
    /\ standing' = standing \ S
    /\ UNCHANGED <<status, calm>>

\* A trap, a form, a second poll; or a rule that renames the alert.
Disturb ==
    /\ status' \in Statuses /\ ~calm'
    /\ UNCHANGED standing

Next ==
    \/ \E a \in Alerts : GoOffline(a)
    \/ \E S \in SUBSET Alerts : Decide(S)
    \/ GoOnline \/ Disturb

Spec == Init /\ [][Next]_ledger

-----------------------------------------------------------------------------
\* An outage has at most one alert that stands, and without an outage none does.
OneStands == calm => /\ \A a, b \in standing : a = b
                     /\ status # "offline" => standing = {}
=============================================================================
