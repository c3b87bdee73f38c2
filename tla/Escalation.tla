----------------------------- MODULE Escalation -----------------------------
(***************************************************************************)
(* The escalation of alerts (services/escalation_service.py): every minute *)
(* a job of the scheduler, and whenever somebody asks for it a request,    *)
(* goes through the policies and escalates the alerts that have stayed     *)
(* active for too long: it sends messages, raises the severity, opens a    *)
(* work order and writes a log, and commits once, at the end.              *)
(*                                                                         *)
(* A run reads the database as it was when its transaction began; what it  *)
(* has sent is sent, whatever becomes of the transaction.                  *)
(***************************************************************************)
EXTENDS Naturals, FiniteSets

CONSTANTS
    Alerts,
    NPolicies,    \* policies that are enabled and have a starting severity
    Groups,       \* correlation groups
    Runs,         \* the scheduler's job (max_instances=1) and the request threads
    Severity,
    Scope,        \* policy -> alerts of its metric_type
    From,         \* policy -> original_severity
    Target,       \* policy -> target_severity
    Most,         \* policy -> max_escalations
    Repeats,      \* policies with a repeat_interval
    AutoOrder,    \* policies with auto_create_work_order
    GroupOf,      \* alert -> its group
    Rated,        \* alerts that polls or correlation rules rate as well
    MaxFaults     \* bound on failing policies and commits and on crashes

Policies == 1 .. NPolicies     \* in the order of the query

ASSUME PoliciesAssumption ==
    /\ NPolicies \in Nat
    /\ Scope \in [Policies -> SUBSET Alerts]
    /\ From \in [Policies -> Severity] /\ Target \in [Policies -> Severity]
    /\ Most \in [Policies -> Nat \ {0}]
    /\ GroupOf \in [Alerts -> Groups]
ASSUME RunsAssumption == IsFiniteSet(Runs) /\ MaxFaults \in Nat

VARIABLES
    open,      \* the alerts that are 'active'
    sev,       \* AlertEvent.severity
    ripe,      \* <<alert, policy>> that have waited as long as the policy says
    level,     \* number of AlertEscalationLog rows of an alert and a policy
    linked,    \* alerts with a work_order_id
    orders,    \* open automatic work orders of a group
    sent,      \* how often a message of a policy about an alert reached a channel
    run,       \* what each run has read and not yet committed
    faults,    \* failures so far
    lone       \* no two runs have overlapped so far

vars == <<open, sev, ripe, level, linked, orders, sent, run, faults, lone>>
alertVars == <<open, sev, ripe, linked>>
logVars   == <<level, orders>>

-----------------------------------------------------------------------------
Pairs == {x \in Alerts \X Policies : x[1] \in Scope[x[2]]}

\* next: the policy that comes next; due: the pairs that were due at the start.
\* The rest is the session: what it has read (of the alerts that are due), with
\* what it has changed since; has and makes are groups with an open order.
Session == [active : {TRUE}, next : 1 .. NPolicies + 1, due : SUBSET Pairs,
            open : SUBSET Alerts, sev : [Alerts -> Severity], wrote : SUBSET Alerts,
            logs : SUBSET Pairs, linked : SUBSET Alerts,
            has : SUBSET Groups, makes : SUBSET Groups]

Idle == [active |-> FALSE]
Active == {r \in Runs : run[r].active}

\* Mutant of Read: the levels are not looked at.
ReadAnyLevel(next, due) ==
    [active |-> TRUE, next |-> next, due |-> due,
     open |-> open \cap {x[1] : x \in due}, sev |-> sev, wrote |-> {}, logs |-> {},
     linked |-> linked, has |-> {g \in Groups : orders[g] > 0}, makes |-> {}]

\* A transaction that begins now.
Read(next, due) ==
    [active |-> TRUE, next |-> next,
     due |-> {x \in due : level[x] < Most[x[2]]},
     open |-> open \cap {x[1] : x \in due}, sev |-> sev, wrote |-> {}, logs |-> {},
     linked |-> linked, has |-> {g \in Groups : orders[g] > 0}, makes |-> {}]

Init ==
    /\ open = Alerts /\ sev \in [Alerts -> Severity]
    /\ ripe = {} /\ level = [x \in Pairs |-> 0]
    /\ linked = {} /\ orders = [g \in Groups |-> 0]
    /\ sent = [x \in Pairs |-> 0]
    /\ run = [r \in Runs |-> Idle]
    /\ faults = 0 /\ lone = TRUE

-----------------------------------------------------------------------------
(* Alerts and work orders, as operators and time change them.              *)

\* escalate_after since the alert appeared, or repeat_interval since the last log.
Ripen(x) ==
    /\ x \notin ripe
    /\ level[x] = 0 \/ x[2] \in Repeats
    /\ ripe' = ripe \cup {x}
    /\ UNCHANGED <<open, sev, linked, logVars, sent, run, faults, lone>>

\* api_acknowledge_alert, api_resolve_alert
Settle(a) ==
    /\ a \in open
    /\ open' = open \ {a}
    /\ UNCHANGED <<sev, ripe, linked, logVars, sent, run, faults, lone>>

\* api_reopen_alert: the logs of the alert stay.
Reopen(a) ==
    /\ a \notin open
    /\ open' = open \cup {a}
    /\ UNCHANGED <<sev, ripe, linked, logVars, sent, run, faults, lone>>

\* Polling, the OOB poll and the correlation rules rate an alert as well.
Rate(a) ==
    /\ a \in Rated
    /\ \E s \in Severity \ {sev[a]} : sev' = [sev EXCEPT ![a] = s]
    /\ UNCHANGED <<open, ripe, linked, logVars, sent, run, faults, lone>>

\* A work order of the group is resolved, closed or cancelled.
CloseOrder(g) ==
    /\ orders[g] > 0
    /\ orders' = [orders EXCEPT ![g] = @ - 1]
    /\ UNCHANGED <<alertVars, level, sent, run, faults, lone>>

-----------------------------------------------------------------------------
(* Runs.                                                                   *)

\* The policies and the severities of the active alerts are read; what is due
\* under a policy depends on them and on the logs. (A run that finds nothing due
\* changes nothing.)
Start(r) ==
    /\ ~run[r].active
    /\ run' = [run EXCEPT ![r] = Read(1,
                 {x \in ripe : level[x] > 0 \/ (x[1] \in open /\ sev[x[1]] = From[x[2]])})]
    /\ run'[r].due # {}
    /\ lone' = (lone /\ Active = {})
    /\ UNCHANGED <<alertVars, logVars, sent, faults>>

Candidates(r, p) == {a \in Alerts : <<a, p>> \in run[r].due /\ a \in run[r].open}

\* Nothing tells the run which messages were delivered: a channel that refuses
\* one is ignored, and a policy may have no channel.
Sends(p, alerts) ==
    \E heard \in SUBSET alerts :
        sent' = [x \in Pairs |-> IF x[2] = p /\ x[1] \in heard THEN sent[x] + 1 ELSE sent[x]]

\* Mutant of Order: every alert gets an order of its own.
OrderOwn(s, alerts) ==
    LET fresh  == alerts \ s.linked
        groups == {GroupOf[a] : a \in fresh}
    IN  [s EXCEPT !.linked = @ \cup fresh, !.has = @ \cup groups, !.makes = @ \cup groups]

\* The work orders of the alerts for which the savepoint was released.
Order(s, alerts) ==
    LET fresh  == alerts \ s.linked
        groups == {GroupOf[a] : a \in fresh} \ s.has
    IN  [s EXCEPT !.linked = @ \cup fresh, !.has = @ \cup groups, !.makes = @ \cup groups]

\* Mutant of Escalate: the log is written with the work order, or not at all.
EscalateOrdered(r, p) ==
    LET s   == run[r]
        due == Candidates(r, p)
    IN  /\ s.active /\ s.next = p
        /\ Sends(p, due)
        /\ \E ordered \in SUBSET (IF p \in AutoOrder THEN due ELSE {}) :
             run' = [run EXCEPT ![r] =
               Order([s EXCEPT !.next  = @ + 1,
                               !.sev   = [a \in Alerts |-> IF a \in due THEN Target[p] ELSE @[a]],
                               !.wrote = @ \cup {a \in due : s.sev[a] # Target[p]},
                               !.logs  = @ \cup {<<a, p>> : a \in ordered}],
                     ordered)]
        /\ UNCHANGED <<alertVars, logVars, faults, lone>>

\* One policy, with all the alerts it finds.
Escalate(r, p) ==
    LET s   == run[r]
        due == Candidates(r, p)
    IN  /\ s.active /\ s.next = p
        /\ Sends(p, due)
        /\ \E ordered \in SUBSET (IF p \in AutoOrder THEN due ELSE {}) :
             run' = [run EXCEPT ![r] =
               Order([s EXCEPT !.next  = @ + 1,
                               !.sev   = [a \in Alerts |-> IF a \in due THEN Target[p] ELSE @[a]],
                               !.wrote = @ \cup {a \in due : s.sev[a] # Target[p]},
                               !.logs  = @ \cup {<<a, p>> : a \in due}],
                     ordered)]
        /\ UNCHANGED <<alertVars, logVars, faults, lone>>

\* Mutant of PolicyFails: the next policy is skipped as well.
PolicyFailsSkips(r, p) ==
    LET s == run[r]
    IN  /\ s.active /\ s.next = p /\ faults < MaxFaults
        /\ Sends(p, Candidates(r, p))
        /\ run' = [run EXCEPT ![r] = Read(p + 2, s.due \cap ripe)]
        /\ faults' = faults + 1
        /\ UNCHANGED <<alertVars, logVars, lone>>

\* Mutant of PolicyFails: the rollback does not reach the severities.
PolicyFailsHalfway(r, p) ==
    LET s == run[r]
    IN  /\ s.active /\ s.next = p /\ faults < MaxFaults
        /\ Sends(p, Candidates(r, p))
        /\ run' = [run EXCEPT ![r] = [Read(p + 1, s.due \cap ripe)
                                        EXCEPT !.sev = s.sev, !.wrote = s.wrote]]
        /\ faults' = faults + 1
        /\ UNCHANGED <<alertVars, logVars, lone>>

\* A policy raises after some of its messages: all that the run has not yet
\* committed is rolled back, and the next policy reads the database anew.
PolicyFails(r, p) ==
    LET s == run[r]
    IN  /\ s.active /\ s.next = p /\ faults < MaxFaults
        /\ Sends(p, Candidates(r, p))
        /\ run' = [run EXCEPT ![r] = Read(p + 1, s.due \cap ripe)]
        /\ faults' = faults + 1
        /\ UNCHANGED <<alertVars, logVars, lone>>

Commit(r) ==
    LET s == run[r]
    IN  /\ s.active /\ s.next > NPolicies
        /\ level'  = [x \in Pairs |-> IF x \in s.logs THEN level[x] + 1 ELSE level[x]]
        /\ ripe'   = ripe \ s.logs
        /\ sev'    = [a \in Alerts |-> IF a \in s.wrote THEN s.sev[a] ELSE sev[a]]
        /\ linked' = linked \cup s.linked
        /\ orders' = [g \in Groups |-> IF g \in s.makes THEN orders[g] + 1 ELSE orders[g]]
        /\ run'    = [run EXCEPT ![r] = Idle]
        /\ UNCHANGED <<open, sent, faults, lone>>

CommitFails(r) ==
    /\ run[r].active /\ run[r].next > NPolicies /\ faults < MaxFaults
    /\ run' = [run EXCEPT ![r] = Idle]
    /\ faults' = faults + 1
    /\ UNCHANGED <<alertVars, logVars, sent, lone>>

\* The process dies, with all runs.
Crash ==
    /\ Active # {} /\ faults < MaxFaults
    /\ run' = [r \in Runs |-> Idle]
    /\ faults' = faults + 1
    /\ UNCHANGED <<alertVars, logVars, sent, lone>>

-----------------------------------------------------------------------------
Step(r) ==
    \/ \E p \in Policies : Escalate(r, p) \/ PolicyFails(r, p)
    \/ Commit(r) \/ CommitFails(r)

Next ==
    \/ \E x \in Pairs : Ripen(x)
    \/ \E a \in Alerts : Settle(a) \/ Reopen(a) \/ Rate(a)
    \/ \E g \in Groups : CloseOrder(g)
    \/ \E r \in Runs : Start(r) \/ Step(r)
    \/ Crash

Spec == Init /\ [][Next]_vars

-----------------------------------------------------------------------------
(* Properties                                                              *)

TypeOK ==
    /\ open \subseteq Alerts /\ sev \in [Alerts -> Severity]
    /\ ripe \subseteq Pairs /\ level \in [Pairs -> Nat]
    /\ linked \subseteq Alerts /\ orders \in [Groups -> Nat]
    /\ sent \in [Pairs -> Nat]
    /\ run \in [Runs -> Session \cup {Idle}]
    /\ faults \in Nat /\ lone \in BOOLEAN

Pending(x) == {r \in Runs : run[r].active /\ x \in run[r].logs}

\* No message of a policy is delivered twice for one level, whatever runs overlap:
\* apart from the faults, each of which loses at most one level of a pair in every
\* run in flight.
MessagesAccounted ==
    \A x \in Pairs :
        sent[x] <= level[x] + Cardinality(Pending(x)) + faults * Cardinality(Runs)

\* max_escalations holds as long as runs do not overlap; runs that do each add
\* a level to the ones they have not seen.
LevelsBounded ==
    \A x \in Pairs :
        level[x] <= Most[x[2]] + (IF lone THEN 0 ELSE Cardinality(Runs) - 1)

\* The alerts of a group share one open automatic work order; runs that overlap
\* may each open one, but no more than that remain open at a time.
OrdersBounded ==
    \A g \in Groups : orders[g] <= (IF lone THEN 1 ELSE Cardinality(Runs))

\* A severity that a run writes is that of a level which the same commit logs,
\* though a policy that fails takes some of the changes of the run back and others
\* rate the alert meanwhile.
SeverityHasLog ==
    [][\A a \in Alerts : sev'[a] # sev[a] /\ run' # run =>
          \E p \in Policies : /\ <<a, p>> \in Pairs /\ sev'[a] = Target[p]
                             /\ level'[<<a, p>>] = level[<<a, p>>] + 1]_vars

=============================================================================
