---------------------------- MODULE DeviceAlerts ----------------------------
(***************************************************************************)
(* The status and the alerts of ONE monitored device: the unified poll     *)
(* (tasks/monitor.py), which alone opens and closes its alerts, the traps, *)
(* syslog lines, pings and forms that write the status as well             *)
(* (services/event_monitor.py, blueprints/device.py), and the operators    *)
(* who decide about alerts (blueprints/alert.py).                          *)
(*                                                                         *)
(* Each of them reads in a session of its own and commits later.  The poll *)
(* probes the device before it reads anything, and counts failures in a    *)
(* dictionary that neither a rollback nor a crash restores.                *)
(***************************************************************************)
EXTENDS Naturals, FiniteSets

CONSTANTS
    Polls,      \* threads that may run unified_device_poll for the device
    Others,     \* threads of the event monitor and of requests
    Methods,    \* the probes enabled for the device: ping, SNMP
    Alerts,     \* ids of alert_events rows
    Limit,      \* COLLECTION_FAILURE_ALERT_AFTER
    Rules,      \* what the correlation rule that matches the device may do
    MaxMoves    \* bound on what the environment does (see Move)

ASSUME ThreadsAssumption == Polls \cap Others = {}
ASSUME MethodsAssumption == Methods # {}
ASSUME LimitAssumption   == Limit \in Nat \ {0} /\ MaxMoves \in Nat

VARIABLES
    answers,    \* the methods that the device answers
    rule,       \* the correlation rule for its offline alerts
    status,     \* Device.status
    fails,      \* _consecutive_failures[device], up to Limit
    alerts,     \* its alert_events rows
    thr,        \* what each thread is doing
    lone,       \* only polls, and one at a time, have written the status
    moves       \* what the environment has done so far

vars == <<answers, rule, status, fails, alerts, thr, lone, moves>>

-----------------------------------------------------------------------------
Status == {"unknown", "online", "offline"}

\* "closed" is resolved by 'system', "resolved" is resolved by an operator; a
\* renamed alert is an offline alert whose title a rule has normalised.
Kind        == {"offline", "renamed", "collection"}
AlertStatus == {"none", "active", "acknowledged", "suppressed", "resolved",
                "closed", "deleted"}
Alert       == [kind : Kind, status : AlertStatus, reopened : BOOLEAN]
Unused      == [kind |-> "offline", status |-> "none", reopened |-> FALSE]

\* A thread: the status it read and will write, the alerts it will open, close
\* or refresh; for an operator the alert and the status it will get.
Idle == [pc |-> "idle", ok |-> FALSE, seen |-> "unknown", new |-> "unknown",
         open |-> {}, close |-> {}, refresh |-> {}, to |-> "none"]
PC   == {"idle", "probed", "loaded", "status", "alert"}
ThreadState == [pc : PC, ok : BOOLEAN, seen : Status, new : Status,
                open : SUBSET Kind, close : SUBSET Alerts,
                refresh : SUBSET Alerts, to : AlertStatus]

Init ==
    /\ answers \in SUBSET Methods
    /\ rule \in Rules
    /\ status \in Status
    /\ fails = 0
    /\ alerts = [a \in Alerts |-> Unused]
    /\ thr = [t \in Polls \cup Others |-> Idle]
    /\ lone = (status # "offline")
    /\ moves = 0

\* Bound: outages, requests and restarts are finitely many.
Move == moves < MaxMoves /\ moves' = moves + 1

Of(kind, sts) == {a \in Alerts : alerts[a].kind = kind /\ alerts[a].status \in sts}
Rows(t)       == thr[t].close \cup thr[t].refresh
Deleted(S)    == \E a \in S : alerts[a].status = "deleted"

\* Bound: the row of an alert that the system closed, or that a rule renamed so
\* that no poll finds it again, is used for a new one, unless somebody is about to
\* write it.
Free == {a \in Alerts : /\ alerts[a].status \in {"none", "closed"} \/ alerts[a].kind = "renamed"
                        /\ \A t \in Polls \cup Others : a \notin Rows(t)}

\* Rows for new alerts of the given kinds.
Placings(kinds) == {f \in [kinds -> Free] : \A k, l \in kinds : f[k] = f[l] => k = l}

-----------------------------------------------------------------------------
(* unified_device_poll                                                     *)

\* _unified_collect_device, without a session.  Only the methods that are due
\* are tried, and one that is not counts as failed; if none is due, the round
\* ends here.
PollProbe(p) ==
    /\ thr[p].pc = "idle"
    /\ \E due \in (SUBSET Methods) \ {{}} :
          thr' = [thr EXCEPT ![p] = [Idle EXCEPT !.pc = "probed",
                                                 !.ok = (due \cap answers # {})]]
    /\ lone' = (lone /\ \A q \in Polls : thr[q].pc = "idle")
    /\ UNCHANGED <<answers, rule, status, fails, alerts, moves>>

\* _update_collection_failure_state
Failed(n) == n >= Limit

\* Mutant of Probed: a device that was never checked is left alone.
ProbedKnown(p) == IF status = "unknown" THEN status
                  ELSE IF thr[p].ok THEN "online" ELSE "offline"

\* The status that a poll means to set.
Probed(p) == IF thr[p].ok THEN "online" ELSE "offline"

\* How the matching rule leaves the title of an offline alert.
OfflineKind == IF rule = "rename" THEN "renamed" ELSE "offline"

\* Mutant of ToClose: recovery is noticed only where the status turns.
ToCloseOnTurn(n, turned, ok) ==
    IF turned /\ ok THEN Of("collection", {"active", "suppressed"})
                         \cup Of("offline", {"active", "suppressed"})
    ELSE {}

\* _resolve_collection_failure_alerts, in every round below the limit; and the
\* offline alerts when the device turns online.
ToClose(n, turned, ok) ==
    (IF Failed(n) THEN {} ELSE Of("collection", {"active", "suppressed"}))
      \cup (IF turned /\ ok THEN Of("offline", {"active", "suppressed"}) ELSE {})

\* _apply_device_status, up to its commit: counts, and compares the status and
\* the alerts it reads with the probe.  A collection alert that is active is
\* refreshed, which writes its row.
PollLoad(p) ==
    /\ thr[p].pc = "probed"
    /\ LET ok     == thr[p].ok
           n      == IF ok THEN 0 ELSE IF fails < Limit THEN fails + 1 ELSE Limit
           turned == Probed(p) # status
           raised == Of("collection", {"active"})
           open   == (IF Failed(n) /\ raised = {} THEN {"collection"} ELSE {})
                     \cup (IF turned /\ ~ok THEN {OfflineKind} ELSE {})
       IN  /\ fails' = n
           /\ \E refresh \in SUBSET raised :
                 /\ Cardinality(refresh) = (IF Failed(n) /\ raised # {} THEN 1 ELSE 0)
                 /\ thr' = [thr EXCEPT ![p] =
                      [@ EXCEPT !.pc = "loaded", !.seen = status, !.new = Probed(p),
                                !.open = open, !.close = ToClose(n, turned, ok),
                                !.refresh = refresh]]
    /\ UNCHANGED <<answers, rule, status, alerts, lone, moves>>

\* The flush of a work order without its number has broken the session; or an
\* alert that the poll updates is gone.
Broken(p) == \/ rule = "ticket" /\ "offline" \in thr[p].open
             \/ Deleted(Rows(p))

\* The rows after a poll has written them, its new alerts placed by f.
Written(p, f) ==
    [a \in Alerts |->
        LET kinds == {k \in thr[p].open : f[k] = a}
        IN  IF kinds # {}
              THEN [kind |-> CHOOSE k \in kinds : TRUE, status |-> "active", reopened |-> FALSE]
            ELSE IF a \in thr[p].close THEN [alerts[a] EXCEPT !.status = "closed"]
            ELSE alerts[a]]

Finish(t) == thr' = [thr EXCEPT ![t] = Idle]
Flush(t)  == IF thr[t].new = thr[t].seen THEN status ELSE thr[t].new

\* One commit for the status and the alerts.
PollCommit(p) ==
    /\ thr[p].pc = "loaded"
    /\ Placings(thr[p].open) # {}
    /\ IF Broken(p) THEN UNCHANGED <<status, alerts>>
       ELSE /\ status' = Flush(p)
            /\ alerts' = Written(p, CHOOSE f \in Placings(thr[p].open) : TRUE)
    /\ Finish(p)
    /\ UNCHANGED <<answers, rule, fails, lone, moves>>

\* Mutant of PollRefused: the alerts have a transaction of their own.
PollRefusedAlertsKept(p) ==
    /\ thr[p].pc = "loaded"
    /\ Placings(thr[p].open) # {}
    /\ alerts' = Written(p, CHOOSE f \in Placings(thr[p].open) : TRUE)
    /\ Finish(p)
    /\ UNCHANGED <<answers, rule, status, fails, lone, moves>>

\* The database refuses the commit: all of it is rolled back.
PollRefused(p) ==
    /\ thr[p].pc = "loaded"
    /\ Finish(p)
    /\ UNCHANGED <<answers, rule, status, fails, alerts, lone, moves>>

-----------------------------------------------------------------------------
(* Everybody else                                                          *)

\* apply_device_event, which believes what the message says; a ping request,
\* which has probed the device; a form, with any status it offers ("unknown").
WriteLoad(t) ==
    /\ thr[t].pc = "idle" /\ Move
    /\ \E st \in Status \ {status} :
          thr' = [thr EXCEPT ![t] = [Idle EXCEPT !.pc = "status", !.seen = status, !.new = st]]
    /\ UNCHANGED <<answers, rule, status, fails, alerts, lone>>

WriteCommit(t) ==
    /\ thr[t].pc = "status"
    /\ status' = Flush(t)
    /\ lone' = (lone /\ thr[t].new = thr[t].seen)
    /\ Finish(t)
    /\ UNCHANGED <<answers, rule, fails, alerts, moves>>

\* Mutant of Decisions: a status that nothing else knows.
DecisionsIgnore(st) == {"suppressed", "ignored"}

\* What an operator may make of an alert: acknowledge, resolve, reopen, suppress,
\* delete.
Decisions(st) ==
    {"suppressed", "deleted"}
      \cup (IF st = "active" THEN {"acknowledged"} ELSE {})
      \cup (IF st \in {"active", "acknowledged"} THEN {"resolved"} ELSE {})
      \cup (IF st \in {"acknowledged", "resolved", "closed"} THEN {"active"} ELSE {})

\* The alerts that a decision would turn.
Turns(to) == {a \in Alerts : /\ alerts[a].status \notin {"none", "deleted", to}
                            /\ to \in Decisions(alerts[a].status)}

\* One alert, or all that were selected in the list; no list suppresses.
DecideLoad(t) ==
    /\ thr[t].pc = "idle" /\ Move
    /\ \E to \in UNION {Decisions(st) : st \in AlertStatus} : \E S \in (SUBSET Turns(to)) \ {{}} :
          /\ to = "suppressed" => \A a, b \in S : a = b
          /\ thr' = [thr EXCEPT ![t] = [Idle EXCEPT !.pc = "alert", !.refresh = S, !.to = to]]
    /\ UNCHANGED <<answers, rule, status, fails, alerts, lone>>

\* All or nothing: an alert that is gone fails the update of the others, though
\* not their deletion.
DecideCommit(t) ==
    /\ thr[t].pc = "alert"
    /\ IF thr[t].to # "deleted" /\ Deleted(thr[t].refresh) THEN UNCHANGED alerts
       ELSE alerts' = [a \in Alerts |->
                         IF a \in thr[t].refresh
                           THEN [alerts[a] EXCEPT !.status = thr[t].to,
                                                  !.reopened = @ \/ thr[t].to = "active"]
                           ELSE alerts[a]]
    /\ Finish(t)
    /\ UNCHANGED <<answers, rule, status, fails, lone, moves>>

\* The device, or one of its services, goes down or comes back.
Flip ==
    /\ Move
    /\ answers' \in (SUBSET Methods) \ {answers}
    /\ UNCHANGED <<rule, status, fails, alerts, thr, lone>>

\* The process stops and starts: sessions and the dictionary are gone.
Restart ==
    /\ Move
    /\ fails' = 0
    /\ thr' = [t \in Polls \cup Others |-> Idle]
    /\ UNCHANGED <<answers, rule, status, alerts, lone>>

Poll(p) == PollProbe(p) \/ PollLoad(p)
Other(t) == WriteCommit(t) \/ DecideCommit(t)

Next ==
    \/ \E p \in Polls : Poll(p) \/ PollCommit(p) \/ PollRefused(p)
    \/ \E t \in Others : WriteLoad(t) \/ DecideLoad(t) \/ Other(t)
    \/ Flip \/ Restart

Spec == Init /\ [][Next]_vars

\* The scheduler goes on polling, a request that has begun ends, and the database
\* does not refuse for ever.
FairSpec == /\ Spec
            /\ \A p \in Polls : WF_vars(Poll(p)) /\ SF_vars(PollCommit(p))
            /\ \A t \in Others : WF_vars(Other(t))
-----------------------------------------------------------------------------
(* Properties                                                              *)

TypeOK ==
    /\ answers \subseteq Methods /\ lone \in BOOLEAN
    /\ rule \in Rules
    /\ status \in Status
    /\ fails \in 0 .. Limit
    /\ alerts \in [Alerts -> Alert]
    /\ thr \in [Polls \cup Others -> ThreadState]
    /\ moves \in 0 .. MaxMoves

\* Once the device, the network and the operators come to rest, the status is
\* what the probes say, whichever stale probe, trap, form, failed commit or
\* restart came before.  (A device that answers some methods only is set online
\* and offline in turn, as they are due.)
StatusConverges ==
    <>[](/\ answers = Methods => status = "online"
         /\ answers = {} => status = "offline")

Alarm == Of("collection", {"active"}) # {}

\* And the collection alert is active exactly if the device does not answer,
\* though its count was lost by restarts, was ahead of a failed commit, and
\* operators acknowledged, resolved, suppressed or deleted the alert.
AlarmConverges ==
    <>[](/\ answers = Methods => ~Alarm
         /\ answers = {} => Alarm)

\* Offline alerts that polls have opened and nobody has decided about.
ActiveOffline == {a \in Of("offline", {"active"}) : ~alerts[a].reopened}

\* As long as only single polls write the status and no rule changes titles:
\* a device that polls have put offline has an alert of it that the system has
\* not closed, and at most one is active; any other device has none, but for
\* alerts that an operator reopened.
OutageHasOneAlert ==
    lone /\ rule = "none" =>
        IF status = "offline"
          THEN /\ Of("offline", AlertStatus \ {"none", "closed"}) # {}
               /\ \A a, b \in ActiveOffline : a = b
          ELSE ActiveOffline = {}

\* Alerts are raised and closed in the step that turns the status, and a device
\* whose status only single polls write has one alert for each outage: polling
\* implements OutageLedger.
Outages == INSTANCE OutageLedger WITH Statuses <- Status, standing <- ActiveOffline,
                                      calm <- (lone /\ rule = "none")
OutageSpec == Outages!Spec
=============================================================================
