-------------------------- MODULE EscalationProofs ---------------------------
(***************************************************************************)
(* Proofs about Escalation, for any number of alerts, policies, groups and *)
(* overlapping runs: type correctness, the account of the messages, the    *)
(* bounds on the levels and on the open work orders of a group, and that   *)
(* no run raises a severity without its log.                               *)
(***************************************************************************)
EXTENDS Escalation, FiniteSetTheorems, TLAPS

-----------------------------------------------------------------------------
(* The inductive invariant                                                 *)

\* A run logs policies that it has gone through, and each pair once.
LogsBehind ==
    \A r \in Runs : run[r].active => \A x \in run[r].logs : x[2] < run[r].next

\* Runs that may still add a level to a pair.
Adding(x) == {r \in Runs : run[r].active /\ (x \in run[r].due \/ x \in run[r].logs)}

\* A run reads a level below the maximum; those that read it while others were
\* at work may add one each.
LevelsAhead ==
    \A x \in Pairs : level[x] + Cardinality(Adding(x)) <= Most[x[2]] + Cardinality(Runs) - 1

\* Runs that may still open a work order for a group: those that do, and those
\* that read that there was none.
Making(g) == {r \in Runs : run[r].active /\ (g \notin run[r].has \/ g \in run[r].makes)}

OrdersAhead ==
    \A g \in Groups : orders[g] + Cardinality(Making(g)) <= Cardinality(Runs)

\* What a run has raised it has logged, and the rollback of a policy takes both.
WroteLogged ==
    \A r \in Runs : run[r].active => \A a \in run[r].wrote :
        \E p \in Policies : <<a, p>> \in run[r].logs /\ run[r].sev[a] = Target[p]

\* As long as no runs have overlapped, what the only one has read still holds.
LoneRun ==
    lone =>
        /\ \A r, q \in Runs : run[r].active /\ run[q].active => r = q
        /\ \A x \in Pairs : level[x] <= Most[x[2]]
        /\ \A g \in Groups : orders[g] <= 1
        /\ \A r \in Runs : run[r].active =>
              /\ \A x \in run[r].due \cup run[r].logs : level[x] < Most[x[2]]
              /\ \A g \in Groups : g \notin run[r].has \/ g \in run[r].makes => orders[g] = 0

IInv ==
    /\ TypeOK /\ LogsBehind /\ MessagesAccounted /\ LevelsAhead /\ LoneRun
    /\ OrdersAhead /\ WroteLogged

-----------------------------------------------------------------------------
(* Runs are finitely many                                                  *)

LEMMA RunsCounted ==
    ASSUME NEW S, S \subseteq Runs
    PROVE  /\ IsFiniteSet(S) /\ Cardinality(S) \in Nat /\ Cardinality(Runs) \in Nat
           /\ Cardinality(S) <= Cardinality(Runs)
BY RunsAssumption, FS_Subset, FS_CardinalityType

LEMMA RemoveRun ==
    ASSUME NEW S, S \subseteq Runs, NEW r \in S
    PROVE  Cardinality(S \ {r}) = Cardinality(S) - 1
BY RunsCounted, FS_RemoveElement

LEMMA AddRun ==
    ASSUME NEW S, S \subseteq Runs, NEW r \in Runs \ S
    PROVE  Cardinality(S \cup {r}) = Cardinality(S) + 1
BY RunsCounted, FS_AddElement

LEMMA FewerRuns ==
    ASSUME NEW S, NEW T, T \subseteq S, S \subseteq Runs
    PROVE  Cardinality(T) <= Cardinality(S)
BY RunsCounted, FS_Subset

LEMMA SomeRun ==
    ASSUME NEW r \in Runs
    PROVE  Cardinality(Runs) >= 1
BY RunsAssumption, FS_EmptySet, FS_CardinalityType

LEMMA NoRuns == Cardinality({}) = 0
BY FS_EmptySet

-----------------------------------------------------------------------------
(* Sessions                                                                *)

LEMMA IdleRun == ~Idle.active /\ Idle \notin Session
BY DEF Idle, Session

LEMMA RunType ==
    ASSUME TypeOK, NEW r \in Runs, run[r].active
    PROVE  /\ run[r] \in Session
           /\ run[r].next \in 1 .. NPolicies + 1 /\ run[r].due \subseteq Pairs
           /\ run[r].logs \subseteq Pairs /\ run[r].wrote \subseteq Alerts
           /\ run[r].sev \in [Alerts -> Severity] /\ run[r].linked \subseteq Alerts
           /\ run[r].open \subseteq Alerts
           /\ run[r].has \subseteq Groups /\ run[r].makes \subseteq Groups
<1>1. run[r] \in Session
  BY IdleRun DEF TypeOK
<1> QED  BY <1>1 DEF Session

LEMMA ReadType ==
    ASSUME TypeOK, NEW next \in 1 .. NPolicies + 1, NEW due, due \subseteq Pairs
    PROVE  LET s == Read(next, due)
           IN  /\ s \in Session /\ s.active /\ s.next = next /\ s.logs = {} /\ s.makes = {}
               /\ s.due = {x \in due : level[x] < Most[x[2]]}
               /\ s.has = {g \in Groups : orders[g] > 0}
<1>1. /\ {x \in due : level[x] < Most[x[2]]} \subseteq Pairs
      /\ open \cap {x[1] : x \in due} \subseteq Alerts
      /\ {g \in Groups : orders[g] > 0} \subseteq Groups
      /\ sev \in [Alerts -> Severity] /\ linked \subseteq Alerts
  BY DEF TypeOK
<1>2. Read(next, due) \in Session
  BY <1>1 DEF Read, Session
<1> QED  BY <1>2 DEF Read

\* What Order changes.
LEMMA OrderType ==
    ASSUME NEW s \in Session, NEW alerts, alerts \subseteq Alerts
    PROVE  LET n == Order(s, alerts)
           IN  /\ n \in Session /\ n.active /\ n.next = s.next /\ n.due = s.due
               /\ n.logs = s.logs
               /\ s.has \subseteq n.has
               /\ \A g \in n.makes : g \in s.makes \/ g \notin s.has
<1> DEFINE fresh  == alerts \ s.linked
           groups == {GroupOf[a] : a \in fresh} \ s.has
           n == [s EXCEPT !.linked = @ \cup fresh, !.has = @ \cup groups, !.makes = @ \cup groups]
<1>1. fresh \subseteq Alerts /\ groups \subseteq Groups /\ groups \cap s.has = {}
  BY PoliciesAssumption
<1> HIDE DEF fresh, groups
<1>2. /\ n.linked = s.linked \cup fresh /\ n.has = s.has \cup groups
      /\ n.makes = s.makes \cup groups
      /\ n.active = s.active /\ n.next = s.next /\ n.due = s.due /\ n.logs = s.logs
  BY DEF Session
<1>3. n \in Session
  BY <1>1 DEF Session
<1>4. Order(s, alerts) = n
  BY DEF Order, fresh, groups
<1>5. n.active
  BY <1>2 DEF Session
<1> HIDE DEF n
<1> QED  BY <1>1, <1>2, <1>3, <1>4, <1>5

Under(p, alerts) == {<<a, p>> : a \in alerts}

\* What a policy makes of the session.
EscalateSession(s, p, due, ordered) ==
    Order([s EXCEPT !.next  = @ + 1,
                    !.sev   = [a \in Alerts |-> IF a \in due THEN Target[p] ELSE @[a]],
                    !.wrote = @ \cup {a \in due : s.sev[a] # Target[p]},
                    !.logs  = @ \cup {<<a, p>> : a \in due}],
          ordered)

LEMMA EscalateType ==
    ASSUME NEW s \in Session, NEW p \in Policies, s.next = p,
           NEW due, due \subseteq Alerts, \A a \in due : <<a, p>> \in s.due,
           NEW ordered, ordered \subseteq due,
           NEW n, n = EscalateSession(s, p, due, ordered)
    PROVE  /\ n \in Session /\ n.active /\ n.next = s.next + 1 /\ n.due = s.due
           /\ n.logs = s.logs \cup Under(p, due)
           /\ s.has \subseteq n.has
           /\ \A g \in n.makes : g \in s.makes \/ g \notin s.has
<1> DEFINE sv == [a \in Alerts |-> IF a \in due THEN Target[p] ELSE s.sev[a]]
           wr == s.wrote \cup {a \in due : s.sev[a] # Target[p]}
           lg == s.logs \cup {<<a, p>> : a \in due}
           m  == [s EXCEPT !.next = @ + 1, !.sev = sv, !.wrote = wr, !.logs = lg]
<1>1. /\ s.due \subseteq Pairs /\ s.logs \subseteq Pairs /\ s.wrote \subseteq Alerts
      /\ s.sev \in [Alerts -> Severity]
  BY DEF Session
<1>2. lg \subseteq Pairs
  BY <1>1
<1>3. wr \subseteq Alerts
  BY <1>1
<1>4. sv \in [Alerts -> Severity]
  BY <1>1, PoliciesAssumption
<1>5. s.next + 1 \in 1 .. NPolicies + 1
  BY PoliciesAssumption DEF Policies
<1>6. EscalateSession(s, p, due, ordered) = Order(m, ordered)
  BY DEF EscalateSession
<1> HIDE DEF sv, wr, lg
<1>7. /\ m \in Session /\ m.next = s.next + 1 /\ m.logs = lg
      /\ m.due = s.due /\ m.has = s.has /\ m.makes = s.makes
  BY <1>2, <1>3, <1>4, <1>5 DEF Session
<1> HIDE DEF m
<1>8. ordered \subseteq Alerts
  OBVIOUS
<1> QED  BY <1>6, <1>7, <1>8, OrderType DEF lg, Under

-----------------------------------------------------------------------------
(* What the actions make of the runs                                       *)

LEMMA StartRun ==
    ASSUME TypeOK, NEW r \in Runs, Start(r)
    PROVE  /\ run' \in [Runs -> Session \cup {Idle}] /\ ~run[r].active
           /\ run'[r].active /\ run'[r].next = 1 /\ run'[r].logs = {} /\ run'[r].makes = {}
           /\ \A x \in run'[r].due : x \in Pairs /\ level[x] < Most[x[2]]
           /\ run'[r].has = {g \in Groups : orders[g] > 0}
           /\ \A q \in Runs \ {r} : run'[q] = run[q]
<1> DEFINE D == {x \in ripe : level[x] > 0 \/ (x[1] \in open /\ sev[x[1]] = From[x[2]])}
<1>1. D \subseteq Pairs /\ 1 \in 1 .. NPolicies + 1
  BY PoliciesAssumption DEF TypeOK
<1>2. run' = [run EXCEPT ![r] = Read(1, D)] /\ ~run[r].active
  BY DEF Start
<1> HIDE DEF D
<1> QED  BY <1>1, <1>2, ReadType DEF TypeOK

LEMMA EscalateRun ==
    ASSUME TypeOK, NEW r \in Runs, NEW p \in Policies, Escalate(r, p)
    PROVE  /\ run' \in [Runs -> Session \cup {Idle}]
           /\ run[r].active /\ run[r].next = p
           /\ run'[r].active /\ run'[r].next = p + 1 /\ run'[r].due = run[r].due
           /\ run'[r].logs = run[r].logs \cup Under(p, Candidates(r, p))
           /\ run[r].has \subseteq run'[r].has
           /\ \A g \in run'[r].makes : g \in run[r].makes \/ g \notin run[r].has
           /\ \A q \in Runs \ {r} : run'[q] = run[q]
<1> DEFINE due == Candidates(r, p)
<1>1. run[r].active /\ run[r].next = p
  BY DEF Escalate
<1>2. run[r] \in Session
  BY <1>1, RunType
<1>3. due \subseteq Alerts /\ \A a \in due : <<a, p>> \in run[r].due
  BY DEF Candidates
<1>4. PICK ordered \in SUBSET (IF p \in AutoOrder THEN due ELSE {}) :
        run' = [run EXCEPT ![r] = EscalateSession(run[r], p, due, ordered)]
  BY DEF Escalate, EscalateSession
<1>5. ordered \subseteq due
  OBVIOUS
<1> DEFINE s == run[r]
           n == EscalateSession(s, p, due, ordered)
<1> HIDE DEF due, n
<1>6. /\ n \in Session /\ n.active /\ n.next = run[r].next + 1 /\ n.due = run[r].due
      /\ n.logs = run[r].logs \cup Under(p, due)
      /\ run[r].has \subseteq n.has
      /\ \A g \in n.makes : g \in run[r].makes \/ g \notin run[r].has
  <2>1. s \in Session /\ s.next = p /\ \A a \in due : <<a, p>> \in s.due
    BY <1>1, <1>2, <1>3
  <2>2. n = EscalateSession(s, p, due, ordered)
    BY DEF n
  <2> HIDE DEF s
  <2>3. n \in Session /\ n.active
    BY <1>3, <1>5, <2>1, <2>2, EscalateType
  <2>4. n.next = s.next + 1 /\ n.due = s.due
    <3>1. due \subseteq Alerts /\ \A a \in due : <<a, p>> \in s.due
      BY <1>3, <2>1
    <3> QED  BY <1>5, <2>1, <2>2, <3>1, EscalateType, ZenonT(60)
  <2>5. n.logs = s.logs \cup Under(p, due)
    <3>1. \A a \in due : <<a, p>> \in s.due
      BY <2>1
    <3>2. due \subseteq Alerts
      BY <1>3
    <3> QED  BY <1>5, <2>1, <2>2, <3>1, <3>2, EscalateType, ZenonT(60)
  <2>6. s.has \subseteq n.has
    BY <1>3, <1>5, <2>1, <2>2, EscalateType
  <2>7. \A g \in n.makes : g \in s.makes \/ g \notin s.has
    BY <1>3, <1>5, <2>1, <2>2, EscalateType
  <2> QED  BY <2>3, <2>4, <2>5, <2>6, <2>7 DEF s
<1>7. run' = [run EXCEPT ![r] = n]
  BY <1>4 DEF n
<1> QED  BY <1>1, <1>6, <1>7 DEF TypeOK, due

LEMMA PolicyFailsRun ==
    ASSUME TypeOK, NEW r \in Runs, NEW p \in Policies, PolicyFails(r, p)
    PROVE  /\ run' \in [Runs -> Session \cup {Idle}]
           /\ run[r].active /\ run[r].next = p
           /\ run'[r].active /\ run'[r].next = p + 1 /\ run'[r].logs = {} /\ run'[r].makes = {}
           /\ \A x \in run'[r].due : x \in run[r].due /\ level[x] < Most[x[2]]
           /\ run'[r].has = {g \in Groups : orders[g] > 0}
           /\ \A q \in Runs \ {r} : run'[q] = run[q]
<1>1. run[r].active /\ run[r].next = p /\ run' = [run EXCEPT ![r] = Read(p + 1, run[r].due \cap ripe)]
  BY DEF PolicyFails
<1>2. run[r].due \cap ripe \subseteq Pairs /\ p + 1 \in 1 .. NPolicies + 1
  BY <1>1, RunType, PoliciesAssumption DEF Policies
<1> QED  BY <1>1, <1>2, ReadType DEF TypeOK

\* A run ends.
LEMMA EndRun ==
    ASSUME TypeOK, NEW r \in Runs, Commit(r) \/ CommitFails(r)
    PROVE  /\ run' \in [Runs -> Session \cup {Idle}] /\ run[r].active /\ ~run'[r].active
           /\ \A q \in Runs \ {r} : run'[q] = run[q]
<1>1. run' = [run EXCEPT ![r] = Idle] /\ run[r].active
  BY DEF Commit, CommitFails
<1> QED  BY <1>1, IdleRun DEF TypeOK

\* Operators and time leave runs, messages and levels alone.
Outside ==
    \/ \E x \in Pairs : Ripen(x)
    \/ \E a \in Alerts : Settle(a) \/ Reopen(a) \/ Rate(a)
    \/ \E g \in Groups : CloseOrder(g)
    \/ UNCHANGED vars

LEMMA OutsideRuns ==
    ASSUME TypeOK, Outside
    PROVE  /\ UNCHANGED <<level, sent, run, faults, lone>>
           /\ orders' \in [Groups -> Nat] /\ \A g \in Groups : orders'[g] <= orders[g]
<1>1. CASE \E g \in Groups : CloseOrder(g)
  <2>1. PICK g \in Groups : CloseOrder(g)
    BY <1>1
  <2>2. orders[g] > 0 /\ orders' = [orders EXCEPT ![g] = @ - 1]
        /\ UNCHANGED <<level, sent, run, faults, lone>>
    BY <2>1 DEF CloseOrder
  <2>3. \A h \in Groups : orders[h] \in Nat
    BY DEF TypeOK
  <2> QED  BY <2>2, <2>3 DEF TypeOK
<1>2. CASE UNCHANGED orders /\ UNCHANGED <<level, sent, run, faults, lone>>
  BY <1>2 DEF TypeOK
<1> QED  BY <1>1, <1>2 DEF Outside, Ripen, Settle, Reopen, Rate, logVars, vars

-----------------------------------------------------------------------------
(* Every step keeps each part of the invariant.                            *)

\* The cases of Next.
LEMMA NextCases ==
    ASSUME [Next]_vars, NEW P,
           Outside => P,
           \A r \in Runs : Start(r) => P,
           \A r \in Runs, p \in Policies : Escalate(r, p) => P,
           \A r \in Runs, p \in Policies : PolicyFails(r, p) => P,
           \A r \in Runs : Commit(r) => P,
           \A r \in Runs : CommitFails(r) => P,
           Crash => P
    PROVE  P
BY DEF Next, Step, Outside

LEMMA TypeStep == TypeOK /\ [Next]_vars => TypeOK'
<1> SUFFICES ASSUME TypeOK, [Next]_vars PROVE TypeOK'
  OBVIOUS
<1>1. Outside => TypeOK'
  <2> SUFFICES ASSUME Outside PROVE TypeOK'
    OBVIOUS
  <2>1. UNCHANGED <<level, sent, run, faults, lone>> /\ orders' \in [Groups -> Nat]
    BY OutsideRuns
  <2>2. open' \subseteq Alerts /\ UNCHANGED linked /\ ripe' \subseteq Pairs
    BY DEF Outside, Ripen, Settle, Reopen, Rate, CloseOrder, alertVars, vars, TypeOK
  <2>3. sev' \in [Alerts -> Severity]
    BY DEF Outside, Ripen, Settle, Reopen, Rate, CloseOrder, alertVars, vars, TypeOK
  <2> QED  BY <2>1, <2>2, <2>3 DEF TypeOK
<1>2. \A r \in Runs : Start(r) => TypeOK'
  <2> SUFFICES ASSUME NEW r \in Runs, Start(r) PROVE TypeOK'
    OBVIOUS
  <2>1. run' \in [Runs -> Session \cup {Idle}]
    BY StartRun
  <2> QED  BY <2>1 DEF Start, alertVars, logVars, TypeOK
<1>3. \A r \in Runs, p \in Policies : Escalate(r, p) \/ PolicyFails(r, p) => TypeOK'
  <2> SUFFICES ASSUME NEW r \in Runs, NEW p \in Policies, Escalate(r, p) \/ PolicyFails(r, p)
               PROVE  TypeOK'
    OBVIOUS
  <2>1. run' \in [Runs -> Session \cup {Idle}]
    BY EscalateRun, PolicyFailsRun
  <2>2. PICK done : Sends(p, done)
    BY DEF Escalate, PolicyFails
  <2>3. sent' \in [Pairs -> Nat]
    BY <2>2 DEF Sends, TypeOK
  <2>4. UNCHANGED <<alertVars, logVars, lone>> /\ faults' \in Nat
    <3>1. CASE Escalate(r, p)
      BY <3>1, Zenon DEF Escalate, TypeOK
    <3>2. CASE PolicyFails(r, p)
      BY <3>2 DEF PolicyFails, TypeOK
    <3> QED  BY <3>1, <3>2
  <2> QED  BY <2>1, <2>3, <2>4 DEF alertVars, logVars, TypeOK
<1>4. \A r \in Runs : Commit(r) => TypeOK'
  <2> SUFFICES ASSUME NEW r \in Runs, Commit(r) PROVE TypeOK'
    OBVIOUS
  <2>1. /\ run[r] \in Session /\ run[r].sev \in [Alerts -> Severity]
        /\ run[r].linked \subseteq Alerts
    BY RunType DEF Commit
  <2>2. level' \in [Pairs -> Nat]
    BY DEF Commit, TypeOK
  <2>3. orders' \in [Groups -> Nat]
    BY DEF Commit, TypeOK
  <2>4. sev' \in [Alerts -> Severity]
    BY <2>1 DEF Commit, TypeOK
  <2>5. ripe' \subseteq Pairs /\ linked' \subseteq Alerts
    BY <2>1 DEF Commit, TypeOK
  <2>6. run' \in [Runs -> Session \cup {Idle}]
    BY EndRun
  <2> QED  BY <2>2, <2>3, <2>4, <2>5, <2>6 DEF Commit, TypeOK
<1>5. \A r \in Runs : CommitFails(r) => TypeOK'
  BY EndRun DEF CommitFails, alertVars, logVars, TypeOK
<1>6. Crash => TypeOK'
  BY DEF Crash, alertVars, logVars, TypeOK
<1> QED  BY <1>1, <1>2, <1>3, <1>4, <1>5, <1>6, NextCases

LEMMA BehindStep == IInv /\ [Next]_vars => LogsBehind'
<1> SUFFICES ASSUME IInv, [Next]_vars PROVE LogsBehind'
  OBVIOUS
<1>1. TypeOK /\ LogsBehind
  BY DEF IInv
<1>2. Outside => LogsBehind'
  BY <1>1, OutsideRuns DEF LogsBehind
<1>3. \A r \in Runs : Start(r) => LogsBehind'
  BY <1>1, StartRun DEF LogsBehind
<1>4. \A r \in Runs, p \in Policies : Escalate(r, p) => LogsBehind'
  <2> SUFFICES ASSUME NEW r \in Runs, NEW p \in Policies, Escalate(r, p),
                      NEW q \in Runs, run'[q].active, NEW x \in run'[q].logs
               PROVE  x[2] < run'[q].next
    BY DEF LogsBehind
  <2>1. CASE q = r
    <3>1. run'[r].next = p + 1 /\ run[r].next = p /\ run[r].active /\ p \in Nat
          /\ (x \in run[r].logs \/ x[2] = p)
      BY <1>1, <2>1, EscalateRun, PoliciesAssumption DEF Policies, Under
    <3>2. run[r].logs \subseteq Pairs
      BY <1>1, <3>1, RunType
    <3>3. x \in run[r].logs => x[2] < p /\ x[2] \in Nat
      BY <1>1, <3>1, <3>2, PoliciesAssumption DEF LogsBehind, Pairs, Policies
    <3> QED  BY <2>1, <3>1, <3>3
  <2>2. CASE q # r
    BY <1>1, <2>2, EscalateRun DEF LogsBehind
  <2> QED  BY <2>1, <2>2
<1>5. \A r \in Runs, p \in Policies : PolicyFails(r, p) => LogsBehind'
  BY <1>1, PolicyFailsRun DEF LogsBehind
<1>6. \A r \in Runs : Commit(r) => LogsBehind'
  BY <1>1, EndRun DEF LogsBehind
<1>7. \A r \in Runs : CommitFails(r) => LogsBehind'
  BY <1>1, EndRun DEF LogsBehind
<1>8. Crash => LogsBehind'
  BY IdleRun DEF Crash, LogsBehind
<1> QED  BY <1>2, <1>3, <1>4, <1>5, <1>6, <1>7, <1>8, NextCases

-----------------------------------------------------------------------------
(* The account of the messages                                             *)

\* MessagesAccounted of one pair: l levels, q runs that have it in hand, m
\* messages, f faults and n runs.
Balanced(l, q, m, f, n) == m <= l + q + f * n

LEMMA Balance ==
    ASSUME NEW l \in Nat, NEW q \in Nat, NEW m \in Nat, NEW f \in Nat, NEW n \in Nat,
           Balanced(l, q, m, f, n)
    PROVE  /\ Balanced(l, q + 1, m, f, n) /\ Balanced(l, q + 1, m + 1, f, n)
           /\ q >= 1 => Balanced(l + 1, q - 1, m, f, n)
           /\ \A p \in Nat, k \in Nat : p <= q /\ q + k <= p + n
                  => Balanced(l, p, m + k, f + 1, n)
<1>1. f * n \in Nat /\ (f + 1) * n = f * n + n
  OBVIOUS
<1> DEFINE fn == f * n
<1>2. fn \in Nat /\ (f + 1) * n = fn + n /\ m <= l + q + fn
  BY <1>1 DEF Balanced
<1> HIDE DEF fn
<1>3. m <= l + (q + 1) + fn /\ m + 1 <= l + (q + 1) + fn
  BY <1>2
<1>4. q >= 1 => m <= l + 1 + (q - 1) + fn
  BY <1>2
<1>5. ASSUME NEW p \in Nat, NEW k \in Nat, p <= q, q + k <= p + n
      PROVE  m + k <= l + p + (fn + n)
  BY <1>2, <1>5
<1> QED  BY <1>2, <1>3, <1>4, <1>5 DEF Balanced, fn

Account(x) == Balanced(level[x], Cardinality(Pending(x)), sent[x], faults, Cardinality(Runs))

LEMMA AccountForm ==
    MessagesAccounted <=> \A x \in Pairs : Account(x)
BY DEF MessagesAccounted, Account, Balanced

LEMMA AccountTypes ==
    ASSUME TypeOK, NEW x \in Pairs
    PROVE  /\ level[x] \in Nat /\ sent[x] \in Nat /\ faults \in Nat /\ Cardinality(Runs) \in Nat
           /\ Pending(x) \subseteq Runs /\ Cardinality(Pending(x)) \in Nat
           /\ Cardinality(Pending(x)) <= Cardinality(Runs)
<1>1. Pending(x) \subseteq Runs
  BY DEF Pending
<1> QED  BY <1>1, RunsCounted DEF TypeOK

LEMMA AccountStep == IInv /\ [Next]_vars => MessagesAccounted'
<1> SUFFICES ASSUME IInv, [Next]_vars, NEW x \in Pairs
             PROVE  Account(x)'
  BY DEF MessagesAccounted, Account, Balanced
<1>1. TypeOK /\ LogsBehind /\ Account(x)
  BY AccountForm DEF IInv
<1> DEFINE n == Cardinality(Runs)
           q == Cardinality(Pending(x))
<1>2. /\ level[x] \in Nat /\ sent[x] \in Nat /\ faults \in Nat /\ n \in Nat
      /\ Pending(x) \subseteq Runs /\ q \in Nat /\ q <= n
  BY <1>1, AccountTypes
<1>3. Balanced(level[x], q, sent[x], faults, n)
  BY <1>1 DEF Account
<1> HIDE DEF n, q
<1>4. /\ Balanced(level[x], q + 1, sent[x], faults, n)
      /\ Balanced(level[x], q + 1, sent[x] + 1, faults, n)
      /\ q >= 1 => Balanced(level[x] + 1, q - 1, sent[x], faults, n)
  BY <1>2, <1>3, Balance
<1>5. \A p \in Nat, k \in Nat : p <= q /\ q + k <= p + n
         => Balanced(level[x], p, sent[x] + k, faults + 1, n)
  BY <1>2, <1>3, Balance
<1>6. Outside => Account(x)'
  <2> SUFFICES ASSUME Outside PROVE Account(x)'
    OBVIOUS
  <2>1. UNCHANGED <<level, sent, run, faults, lone>>
    BY <1>1, OutsideRuns
  <2> QED  BY <1>1, <2>1 DEF Account, Pending
<1>7. \A r \in Runs : Start(r) => Account(x)'
  <2> SUFFICES ASSUME NEW r \in Runs, Start(r) PROVE Account(x)'
    OBVIOUS
  <2>1. Pending(x)' = Pending(x)
    BY <1>1, StartRun DEF Pending
  <2>2. UNCHANGED <<level, sent, faults>>
    BY DEF Start, logVars
  <2> QED  BY <1>3, <2>1, <2>2 DEF Account, n, q
<1>8. \A r \in Runs, p \in Policies : Escalate(r, p) => Account(x)'
  <2> SUFFICES ASSUME NEW r \in Runs, NEW p \in Policies, Escalate(r, p) PROVE Account(x)'
    OBVIOUS
  <2>1. /\ run[r].active /\ run[r].next = p /\ run'[r].active
        /\ run'[r].logs = run[r].logs \cup Under(p, Candidates(r, p))
        /\ \A v \in Runs \ {r} : run'[v] = run[v]
    BY <1>1, EscalateRun
  <2>2. UNCHANGED <<level, faults>> /\ Sends(p, Candidates(r, p))
    BY Zenon DEF Escalate, logVars
  <2>3. x = <<x[1], x[2]>>
    BY DEF Pairs
  <2>4. CASE x[2] = p /\ x[1] \in Candidates(r, p)
    <3>1. x \in run'[r].logs
      BY <2>1, <2>3, <2>4 DEF Under
    <3>2. x \notin run[r].logs
      BY <1>1, <2>1, <2>4, PoliciesAssumption DEF LogsBehind, Policies
    <3>3. r \notin Pending(x) /\ Pending(x)' = Pending(x) \cup {r}
      BY <2>1, <3>1, <3>2 DEF Pending
    <3>4. Cardinality(Pending(x)') = q + 1
      BY <1>2, <3>3, AddRun DEF q
    <3>5. sent'[x] \in {sent[x], sent[x] + 1}
      BY <2>2 DEF Sends
    <3> QED  BY <1>4, <2>2, <3>4, <3>5 DEF Account, n
  <2>5. CASE ~(x[2] = p /\ x[1] \in Candidates(r, p))
    <3>1. x \notin Under(p, Candidates(r, p))
      BY <2>3, <2>5 DEF Under
    <3>2. Pending(x)' = Pending(x)
      BY <2>1, <3>1 DEF Pending
    <3>3. sent'[x] = sent[x]
      BY <2>2, <2>5 DEF Sends
    <3> QED  BY <1>3, <2>2, <3>2, <3>3 DEF Account, n, q
  <2> QED  BY <2>4, <2>5
<1>9. \A r \in Runs, p \in Policies : PolicyFails(r, p) => Account(x)'
  <2> SUFFICES ASSUME NEW r \in Runs, NEW p \in Policies, PolicyFails(r, p) PROVE Account(x)'
    OBVIOUS
  <2>1. /\ run[r].active /\ run[r].next = p /\ run'[r].logs = {}
        /\ \A v \in Runs \ {r} : run'[v] = run[v]
    BY <1>1, PolicyFailsRun
  <2>2. UNCHANGED level /\ faults' = faults + 1 /\ Sends(p, Candidates(r, p))
    BY DEF PolicyFails, logVars
  <2>3. Pending(x)' = Pending(x) \ {r}
    BY <2>1 DEF Pending
  <2>4. n >= 1
    BY SomeRun DEF n
  <2>5. CASE x \in run[r].logs
    <3>1. r \in Pending(x)
      BY <2>1, <2>5 DEF Pending
    <3>2. Cardinality(Pending(x)') = q - 1 /\ q >= 1
      <4>1. Cardinality(Pending(x) \ {r}) = q - 1
        BY <1>2, <3>1, RemoveRun DEF q
      <4>2. Cardinality(Pending(x) \ {r}) \in Nat
        BY <1>2, RunsCounted
      <4> QED  BY <1>2, <2>3, <4>1, <4>2
    <3>3. x[2] # p
      BY <1>1, <2>1, <2>5, PoliciesAssumption DEF LogsBehind, Policies
    <3>4. sent'[x] = sent[x]
      BY <2>2, <3>3 DEF Sends
    <3>5. Balanced(level[x], q - 1, sent[x] + 0, faults + 1, n)
      BY <1>2, <1>5, <2>4, <3>2
    <3> QED  BY <1>2, <2>2, <3>2, <3>4, <3>5 DEF Account, n
  <2>6. CASE x \notin run[r].logs
    <3>1. Pending(x)' = Pending(x)
      BY <2>3, <2>6 DEF Pending
    <3>2. PICK k \in {0, 1} : sent'[x] = sent[x] + k
      BY <1>2, <2>2 DEF Sends
    <3>3. Balanced(level[x], q, sent[x] + k, faults + 1, n)
      BY <1>2, <1>5, <2>4
    <3> QED  BY <2>2, <3>1, <3>2, <3>3 DEF Account, n, q
  <2> QED  BY <2>5, <2>6
<1>10. \A r \in Runs : Commit(r) => Account(x)'
  <2> SUFFICES ASSUME NEW r \in Runs, Commit(r) PROVE Account(x)'
    OBVIOUS
  <2>1. run[r].active /\ ~run'[r].active /\ \A v \in Runs \ {r} : run'[v] = run[v]
    BY <1>1, EndRun
  <2>2. Pending(x)' = Pending(x) \ {r}
    BY <2>1 DEF Pending
  <2>3. UNCHANGED <<sent, faults>>
        /\ level'[x] = IF x \in run[r].logs THEN level[x] + 1 ELSE level[x]
    BY DEF Commit
  <2>4. CASE x \in run[r].logs
    <3>1. r \in Pending(x)
      BY <2>1, <2>4 DEF Pending
    <3>2. Cardinality(Pending(x)') = q - 1 /\ q >= 1
      <4>1. Cardinality(Pending(x) \ {r}) = q - 1
        BY <1>2, <3>1, RemoveRun DEF q
      <4>2. Cardinality(Pending(x) \ {r}) \in Nat
        BY <1>2, RunsCounted
      <4> QED  BY <1>2, <2>2, <4>1, <4>2
    <3> QED  BY <1>4, <2>3, <2>4, <3>2 DEF Account, n
  <2>5. CASE x \notin run[r].logs
    <3>1. Pending(x)' = Pending(x)
      BY <2>2, <2>5 DEF Pending
    <3> QED  BY <1>3, <2>3, <2>5, <3>1 DEF Account, n, q
  <2> QED  BY <2>4, <2>5
<1>11. ASSUME Pending(x)' \subseteq Pending(x), faults' = faults + 1, UNCHANGED <<level, sent>>
       PROVE  Account(x)'
  <2>1. Cardinality(Pending(x)') \in Nat /\ Cardinality(Pending(x)') <= q
    BY <1>2, <1>11, FewerRuns, RunsCounted DEF q
  <2>2. Balanced(level[x], Cardinality(Pending(x)'), sent[x] + 0, faults + 1, n)
    BY <1>2, <1>5, <2>1
  <2> QED  BY <1>2, <1>11, <2>2 DEF Account, n
<1>12. \A r \in Runs : CommitFails(r) => Account(x)'
  <2> SUFFICES ASSUME NEW r \in Runs, CommitFails(r) PROVE Account(x)'
    OBVIOUS
  <2>1. Pending(x)' \subseteq Pending(x)
    BY <1>1, EndRun DEF Pending
  <2> QED  BY <1>11, <2>1 DEF CommitFails, logVars
<1>13. Crash => Account(x)'
  <2> SUFFICES ASSUME Crash PROVE Account(x)'
    OBVIOUS
  <2>1. Pending(x)' \subseteq Pending(x)
    BY IdleRun DEF Crash, Pending
  <2> QED  BY <1>11, <2>1 DEF Crash, logVars
<1> QED  BY <1>6, <1>7, <1>8, <1>9, <1>10, <1>12, <1>13, NextCases

-----------------------------------------------------------------------------
(* The bound on the levels                                                 *)

LEMMA AddingRuns ==
    ASSUME TypeOK, NEW x \in Pairs
    PROVE  /\ Adding(x) \subseteq Runs /\ Cardinality(Adding(x)) \in Nat
           /\ Cardinality(Runs) \in Nat /\ Cardinality(Adding(x)) <= Cardinality(Runs)
           /\ level[x] \in Nat /\ Most[x[2]] \in Nat \ {0} /\ x[2] \in Policies
<1>1. Adding(x) \subseteq Runs
  BY DEF Adding
<1>2. x[2] \in Policies
  BY DEF Pairs
<1> QED  BY <1>1, <1>2, RunsCounted, PoliciesAssumption DEF TypeOK

\* A step that adds no run to those that may add a level.
LEMMA NoMoreAdding ==
    ASSUME IInv, NEW x \in Pairs, Adding(x)' \subseteq Adding(x), level'[x] = level[x]
    PROVE  level'[x] + Cardinality(Adding(x)') <= Most[x[2]] + Cardinality(Runs) - 1
<1>1. /\ level[x] \in Nat /\ Cardinality(Adding(x)) \in Nat /\ Adding(x) \subseteq Runs
      /\ Cardinality(Runs) \in Nat /\ Most[x[2]] \in Nat
      /\ level[x] + Cardinality(Adding(x)) <= Most[x[2]] + Cardinality(Runs) - 1
  BY AddingRuns DEF IInv, LevelsAhead
<1>2. Cardinality(Adding(x)') <= Cardinality(Adding(x)) /\ Cardinality(Adding(x)') \in Nat
  BY <1>1, FewerRuns, RunsCounted
<1> QED  BY <1>1, <1>2

LEMMA AheadStep == IInv /\ [Next]_vars => LevelsAhead'
<1> SUFFICES ASSUME IInv, [Next]_vars, NEW x \in Pairs
             PROVE  level'[x] + Cardinality(Adding(x)') <= Most[x[2]] + Cardinality(Runs) - 1
  BY DEF LevelsAhead
<1> DEFINE P == level'[x] + Cardinality(Adding(x)') <= Most[x[2]] + Cardinality(Runs) - 1
<1>1. TypeOK
  BY DEF IInv
<1>2. /\ Adding(x) \subseteq Runs /\ Cardinality(Adding(x)) \in Nat /\ Cardinality(Runs) \in Nat
      /\ level[x] \in Nat /\ Most[x[2]] \in Nat \ {0} /\ x[2] \in Policies
      /\ level[x] + Cardinality(Adding(x)) <= Most[x[2]] + Cardinality(Runs) - 1
  BY <1>1, AddingRuns DEF IInv, LevelsAhead
<1>3. Outside => P
  <2> SUFFICES ASSUME Outside PROVE P
    OBVIOUS
  <2>1. UNCHANGED <<level, run>>
    BY <1>1, OutsideRuns
  <2> QED  BY <2>1, NoMoreAdding DEF Adding
<1>4. \A r \in Runs : Start(r) => P
  <2> SUFFICES ASSUME NEW r \in Runs, Start(r) PROVE P
    OBVIOUS
  <2>1. /\ run'[r].logs = {} /\ \A y \in run'[r].due : level[y] < Most[y[2]]
        /\ \A q \in Runs \ {r} : run'[q] = run[q]
    BY <1>1, StartRun
  <2>2. level' = level
    BY DEF Start, logVars
  <2>3. CASE x \in run'[r].due
    <3>1. Adding(x)' \subseteq Runs
      BY DEF Adding
    <3>2. Cardinality(Adding(x)') \in Nat /\ Cardinality(Adding(x)') <= Cardinality(Runs)
      BY <3>1, RunsCounted
    <3> QED  BY <1>2, <2>1, <2>2, <2>3, <3>2
  <2>4. CASE x \notin run'[r].due
    <3>1. Adding(x)' \subseteq Adding(x)
      BY <2>1, <2>4 DEF Adding
    <3> QED  BY <2>2, <3>1, NoMoreAdding
  <2> QED  BY <2>3, <2>4
<1>5. \A r \in Runs, p \in Policies : Escalate(r, p) => P
  <2> SUFFICES ASSUME NEW r \in Runs, NEW p \in Policies, Escalate(r, p) PROVE P
    OBVIOUS
  <2>1. /\ run[r].active /\ run'[r].due = run[r].due
        /\ run'[r].logs = run[r].logs \cup Under(p, Candidates(r, p))
        /\ \A q \in Runs \ {r} : run'[q] = run[q]
    BY <1>1, EscalateRun
  <2>2. level' = level
    BY Zenon DEF Escalate, logVars
  <2>3. Under(p, Candidates(r, p)) \subseteq run[r].due
    BY DEF Under, Candidates
  <2>4. Adding(x)' \subseteq Adding(x)
    BY <2>1, <2>3 DEF Adding
  <2> QED  BY <2>2, <2>4, NoMoreAdding
<1>6. \A r \in Runs, p \in Policies : PolicyFails(r, p) => P
  <2> SUFFICES ASSUME NEW r \in Runs, NEW p \in Policies, PolicyFails(r, p) PROVE P
    OBVIOUS
  <2>1. level' = level
    BY DEF PolicyFails, logVars
  <2>2. Adding(x)' \subseteq Adding(x)
    BY <1>1, PolicyFailsRun DEF Adding
  <2> QED  BY <2>1, <2>2, NoMoreAdding
<1>7. \A r \in Runs : Commit(r) => P
  <2> SUFFICES ASSUME NEW r \in Runs, Commit(r) PROVE P
    OBVIOUS
  <2>1. run[r].active /\ ~run'[r].active /\ \A q \in Runs \ {r} : run'[q] = run[q]
    BY <1>1, EndRun
  <2>2. level'[x] = IF x \in run[r].logs THEN level[x] + 1 ELSE level[x]
    BY DEF Commit
  <2>3. Adding(x)' = Adding(x) \ {r}
    BY <2>1 DEF Adding
  <2>4. CASE x \in run[r].logs
    <3>1. r \in Adding(x)
      BY <2>1, <2>4 DEF Adding
    <3>2. Cardinality(Adding(x)') = Cardinality(Adding(x)) - 1
      BY <1>2, <2>3, <3>1, RemoveRun
    <3> QED  BY <1>2, <2>2, <2>4, <3>2
  <2>5. CASE x \notin run[r].logs
    BY <2>2, <2>3, <2>5, NoMoreAdding
  <2> QED  BY <2>4, <2>5
<1>8. \A r \in Runs : CommitFails(r) => P
  <2> SUFFICES ASSUME NEW r \in Runs, CommitFails(r) PROVE P
    OBVIOUS
  <2>1. Adding(x)' \subseteq Adding(x)
    BY <1>1, EndRun DEF Adding
  <2> QED  BY <2>1, NoMoreAdding DEF CommitFails, logVars
<1>9. Crash => P
  <2> SUFFICES ASSUME Crash PROVE P
    OBVIOUS
  <2>1. Adding(x)' \subseteq Adding(x)
    BY IdleRun DEF Crash, Adding
  <2> QED  BY <2>1, NoMoreAdding DEF Crash, logVars
<1> HIDE DEF P
<1>10. P
  BY <1>3, <1>4, <1>5, <1>6, <1>7, <1>8, <1>9, NextCases
<1> QED  BY <1>10 DEF P

-----------------------------------------------------------------------------
(* One run at a time                                                       *)

LEMMA NextLone == TypeOK /\ [Next]_vars /\ lone' => lone
<1> SUFFICES ASSUME TypeOK, [Next]_vars, lone' PROVE lone
  OBVIOUS
<1>1. Outside => lone
  BY OutsideRuns
<1>2. \A r \in Runs, p \in Policies : Escalate(r, p) => lone
  BY Zenon DEF Escalate
<1>3. \A r \in Runs, p \in Policies : PolicyFails(r, p) => lone
  BY DEF PolicyFails
<1> QED  BY <1>1, <1>2, <1>3, NextCases DEF Start, Commit, CommitFails, Crash

\* What the only run knows, as long as no runs have overlapped.
LEMMA LoneStep == IInv /\ [Next]_vars => LoneRun'
<1> SUFFICES ASSUME IInv, [Next]_vars, lone' PROVE LoneRun'
  BY DEF LoneRun
<1>1. TypeOK /\ lone
  BY NextLone DEF IInv
<1>2. /\ \A r, q \in Runs : run[r].active /\ run[q].active => r = q
      /\ \A x \in Pairs : level[x] <= Most[x[2]]
      /\ \A g \in Groups : orders[g] <= 1
      /\ \A r \in Runs : run[r].active =>
            /\ \A x \in run[r].due \cup run[r].logs : level[x] < Most[x[2]]
            /\ \A g \in Groups : g \notin run[r].has \/ g \in run[r].makes => orders[g] = 0
  BY <1>1 DEF IInv, LoneRun
<1>3. \A g \in Groups : orders[g] \in Nat
  BY <1>1 DEF TypeOK
<1>4. Outside => LoneRun'
  <2> SUFFICES ASSUME Outside PROVE LoneRun'
    OBVIOUS
  <2>1. UNCHANGED <<level, run>> /\ orders' \in [Groups -> Nat]
        /\ \A g \in Groups : orders'[g] <= orders[g]
    BY <1>1, OutsideRuns
  <2>2. \A g \in Groups : orders'[g] \in Nat /\ (orders[g] <= 1 => orders'[g] <= 1)
                          /\ (orders[g] = 0 => orders'[g] = 0)
    BY <1>3, <2>1
  <2> QED  BY <1>2, <2>1, <2>2 DEF LoneRun
<1>5. \A r \in Runs : Start(r) => LoneRun'
  <2> SUFFICES ASSUME NEW r \in Runs, Start(r) PROVE LoneRun'
    OBVIOUS
  <2>1. /\ run'[r].logs = {} /\ run'[r].makes = {}
        /\ \A x \in run'[r].due : level[x] < Most[x[2]]
        /\ run'[r].has = {g \in Groups : orders[g] > 0}
        /\ \A q \in Runs \ {r} : run'[q] = run[q]
    BY <1>1, StartRun
  <2>2. UNCHANGED <<level, orders>> /\ \A q \in Runs : ~run[q].active
    BY DEF Start, logVars, Active
  <2>3. \A g \in Groups : g \notin run'[r].has => orders[g] = 0
    BY <1>3, <2>1
  <2> QED  BY <1>2, <2>1, <2>2, <2>3 DEF LoneRun
<1>6. \A r \in Runs, p \in Policies : Escalate(r, p) => LoneRun'
  <2> SUFFICES ASSUME NEW r \in Runs, NEW p \in Policies, Escalate(r, p) PROVE LoneRun'
    OBVIOUS
  <2>1. /\ run[r].active /\ run'[r].due = run[r].due
        /\ run'[r].logs = run[r].logs \cup Under(p, Candidates(r, p))
        /\ run[r].has \subseteq run'[r].has
        /\ \A g \in run'[r].makes : g \in run[r].makes \/ g \notin run[r].has
        /\ \A q \in Runs \ {r} : run'[q] = run[q]
    BY <1>1, EscalateRun
  <2>2. UNCHANGED <<level, orders>>
    BY Zenon DEF Escalate, logVars
  <2>3. Under(p, Candidates(r, p)) \subseteq run[r].due
    BY DEF Under, Candidates
  <2>4. \A x \in run'[r].due \cup run'[r].logs : level[x] < Most[x[2]]
    BY <1>2, <2>1, <2>3
  <2>5. \A g \in Groups : g \notin run'[r].has \/ g \in run'[r].makes => orders[g] = 0
    BY <1>2, <2>1
  <2> QED  BY <1>2, <2>1, <2>2, <2>4, <2>5 DEF LoneRun
<1>7. \A r \in Runs, p \in Policies : PolicyFails(r, p) => LoneRun'
  <2> SUFFICES ASSUME NEW r \in Runs, NEW p \in Policies, PolicyFails(r, p) PROVE LoneRun'
    OBVIOUS
  <2>1. /\ run[r].active /\ run'[r].logs = {} /\ run'[r].makes = {}
        /\ \A x \in run'[r].due : level[x] < Most[x[2]]
        /\ run'[r].has = {g \in Groups : orders[g] > 0}
        /\ \A q \in Runs \ {r} : run'[q] = run[q]
    BY <1>1, PolicyFailsRun
  <2>2. UNCHANGED <<level, orders>>
    BY DEF PolicyFails, logVars
  <2>3. \A g \in Groups : g \notin run'[r].has => orders[g] = 0
    BY <1>3, <2>1
  <2> QED  BY <1>2, <2>1, <2>2, <2>3 DEF LoneRun
<1>8. \A r \in Runs : Commit(r) => LoneRun'
  <2> SUFFICES ASSUME NEW r \in Runs, Commit(r) PROVE LoneRun'
    OBVIOUS
  <2>1. run[r].active /\ ~run'[r].active /\ \A q \in Runs \ {r} : run'[q] = run[q]
    BY <1>1, EndRun
  <2>2. \A q \in Runs : ~run'[q].active
    BY <1>2, <2>1
  <2>3. ASSUME NEW x \in Pairs PROVE level'[x] <= Most[x[2]]
    <3>1. level'[x] = IF x \in run[r].logs THEN level[x] + 1 ELSE level[x]
      BY DEF Commit
    <3>2. x \in run[r].logs => level[x] < Most[x[2]]
      BY <1>2, <2>1
    <3>3. level[x] \in Nat /\ Most[x[2]] \in Nat
      BY <1>1, AddingRuns
    <3> QED  BY <1>2, <3>1, <3>2, <3>3
  <2>4. ASSUME NEW g \in Groups PROVE orders'[g] <= 1
    <3>1. orders'[g] = IF g \in run[r].makes THEN orders[g] + 1 ELSE orders[g]
      BY DEF Commit
    <3> QED  BY <1>2, <2>1, <3>1
  <2> QED  BY <2>2, <2>3, <2>4 DEF LoneRun
<1>9. \A r \in Runs : CommitFails(r) => LoneRun'
  <2> SUFFICES ASSUME NEW r \in Runs, CommitFails(r) PROVE LoneRun'
    OBVIOUS
  <2>1. run[r].active /\ ~run'[r].active /\ \A q \in Runs \ {r} : run'[q] = run[q]
    BY <1>1, EndRun
  <2>2. UNCHANGED <<level, orders>> /\ \A q \in Runs : ~run'[q].active
    BY <1>2, <2>1 DEF CommitFails, logVars
  <2> QED  BY <1>2, <2>2 DEF LoneRun
<1>10. Crash => LoneRun'
  BY <1>2, IdleRun DEF Crash, logVars, LoneRun
<1> QED  BY <1>4, <1>5, <1>6, <1>7, <1>8, <1>9, <1>10, NextCases

-----------------------------------------------------------------------------
(* The bound on the work orders                                            *)

LEMMA MakingRuns ==
    ASSUME TypeOK, NEW g \in Groups
    PROVE  /\ Making(g) \subseteq Runs /\ Cardinality(Making(g)) \in Nat
           /\ Cardinality(Runs) \in Nat /\ Cardinality(Making(g)) <= Cardinality(Runs)
           /\ orders[g] \in Nat
<1>1. Making(g) \subseteq Runs
  BY DEF Making
<1> QED  BY <1>1, RunsCounted DEF TypeOK

\* A step after which no more runs may open an order, and no more are open.
LEMMA NoMoreMaking ==
    ASSUME IInv, NEW g \in Groups, Making(g)' \subseteq Making(g),
           orders'[g] \in Nat, orders'[g] <= orders[g]
    PROVE  orders'[g] + Cardinality(Making(g)') <= Cardinality(Runs)
<1>1. /\ orders[g] \in Nat /\ Cardinality(Making(g)) \in Nat /\ Making(g) \subseteq Runs
      /\ Cardinality(Runs) \in Nat
      /\ orders[g] + Cardinality(Making(g)) <= Cardinality(Runs)
  BY MakingRuns DEF IInv, OrdersAhead
<1>2. Cardinality(Making(g)') <= Cardinality(Making(g)) /\ Cardinality(Making(g)') \in Nat
  BY <1>1, FewerRuns, RunsCounted
<1> QED  BY <1>1, <1>2

\* A run reads the orders anew.
LEMMA ReadsOrders ==
    ASSUME IInv, NEW g \in Groups, NEW r \in Runs,
           run'[r].active, run'[r].makes = {}, run'[r].has = {h \in Groups : orders[h] > 0},
           \A q \in Runs \ {r} : run'[q] = run[q], orders' = orders
    PROVE  orders'[g] + Cardinality(Making(g)') <= Cardinality(Runs)
<1>1. TypeOK /\ orders[g] \in Nat
  BY DEF IInv, TypeOK
<1>2. CASE orders[g] = 0
  <2>1. Making(g)' \subseteq Runs
    BY DEF Making
  <2>2. Cardinality(Making(g)') \in Nat /\ Cardinality(Making(g)') <= Cardinality(Runs)
    BY <2>1, RunsCounted
  <2> QED  BY <1>2, <2>2
<1>3. CASE orders[g] > 0
  <2>1. Making(g)' \subseteq Making(g)
    BY <1>3 DEF Making
  <2> QED  BY <1>1, <2>1, NoMoreMaking
<1> QED  BY <1>1, <1>2, <1>3

LEMMA OrdersStep == IInv /\ [Next]_vars => OrdersAhead'
<1> SUFFICES ASSUME IInv, [Next]_vars, NEW g \in Groups
             PROVE  orders'[g] + Cardinality(Making(g)') <= Cardinality(Runs)
  BY DEF OrdersAhead
<1> DEFINE P == orders'[g] + Cardinality(Making(g)') <= Cardinality(Runs)
<1>1. TypeOK
  BY DEF IInv
<1>2. /\ Making(g) \subseteq Runs /\ Cardinality(Making(g)) \in Nat /\ Cardinality(Runs) \in Nat
      /\ orders[g] \in Nat /\ orders[g] + Cardinality(Making(g)) <= Cardinality(Runs)
  BY <1>1, MakingRuns DEF IInv, OrdersAhead
<1>3. Outside => P
  <2> SUFFICES ASSUME Outside PROVE P
    OBVIOUS
  <2>1. run' = run /\ orders'[g] \in Nat /\ orders'[g] <= orders[g]
    BY <1>1, OutsideRuns
  <2> QED  BY <2>1, NoMoreMaking DEF Making
<1>4. \A r \in Runs : Start(r) => P
  <2> SUFFICES ASSUME NEW r \in Runs, Start(r) PROVE P
    OBVIOUS
  <2>1. orders' = orders
    BY DEF Start, logVars
  <2> QED  BY <1>1, <2>1, StartRun, ReadsOrders
<1>5. \A r \in Runs, p \in Policies : Escalate(r, p) => P
  <2> SUFFICES ASSUME NEW r \in Runs, NEW p \in Policies, Escalate(r, p) PROVE P
    OBVIOUS
  <2>1. /\ run[r].active /\ run[r].has \subseteq run'[r].has
        /\ \A h \in run'[r].makes : h \in run[r].makes \/ h \notin run[r].has
        /\ \A q \in Runs \ {r} : run'[q] = run[q]
    BY <1>1, EscalateRun
  <2>2. orders' = orders
    BY Zenon DEF Escalate, logVars
  <2>3. Making(g)' \subseteq Making(g)
    BY <2>1 DEF Making
  <2> QED  BY <1>2, <2>2, <2>3, NoMoreMaking
<1>6. \A r \in Runs, p \in Policies : PolicyFails(r, p) => P
  <2> SUFFICES ASSUME NEW r \in Runs, NEW p \in Policies, PolicyFails(r, p) PROVE P
    OBVIOUS
  <2>1. orders' = orders
    BY DEF PolicyFails, logVars
  <2> QED  BY <1>1, <2>1, PolicyFailsRun, ReadsOrders
<1>7. \A r \in Runs : Commit(r) => P
  <2> SUFFICES ASSUME NEW r \in Runs, Commit(r) PROVE P
    OBVIOUS
  <2>1. run[r].active /\ ~run'[r].active /\ \A q \in Runs \ {r} : run'[q] = run[q]
    BY <1>1, EndRun
  <2>2. orders'[g] = IF g \in run[r].makes THEN orders[g] + 1 ELSE orders[g]
    BY DEF Commit
  <2>3. Making(g)' = Making(g) \ {r}
    BY <2>1 DEF Making
  <2>4. CASE g \in run[r].makes
    <3>1. r \in Making(g)
      BY <2>1, <2>4 DEF Making
    <3>2. Cardinality(Making(g)') = Cardinality(Making(g)) - 1
      BY <1>2, <2>3, <3>1, RemoveRun
    <3> QED  BY <1>2, <2>2, <2>4, <3>2
  <2>5. CASE g \notin run[r].makes
    <3>1. Making(g)' \subseteq Making(g)
      BY <2>3
    <3>2. orders'[g] \in Nat /\ orders'[g] <= orders[g]
      BY <1>2, <2>2, <2>5
    <3> QED  BY <3>1, <3>2, NoMoreMaking
  <2> QED  BY <2>4, <2>5
<1>8. \A r \in Runs : CommitFails(r) => P
  <2> SUFFICES ASSUME NEW r \in Runs, CommitFails(r) PROVE P
    OBVIOUS
  <2>1. Making(g)' \subseteq Making(g)
    BY <1>1, EndRun DEF Making
  <2> QED  BY <1>2, <2>1, NoMoreMaking DEF CommitFails, logVars
<1>9. Crash => P
  <2> SUFFICES ASSUME Crash PROVE P
    OBVIOUS
  <2>1. Making(g)' \subseteq Making(g)
    BY IdleRun DEF Crash, Making
  <2> QED  BY <1>2, <2>1, NoMoreMaking DEF Crash, logVars
<1> HIDE DEF P
<1>10. P
  BY <1>3, <1>4, <1>5, <1>6, <1>7, <1>8, <1>9, NextCases
<1> QED  BY <1>10 DEF P

-----------------------------------------------------------------------------
(* Severities and logs                                                     *)

Raised(s, a) == \E p \in Policies : <<a, p>> \in s.logs /\ s.sev[a] = Target[p]

LEMMA WroteForm ==
    WroteLogged <=> \A r \in Runs : run[r].active => \A a \in run[r].wrote : Raised(run[r], a)
BY DEF WroteLogged, Raised

LEMMA ReadWrote ==
    ASSUME TypeOK, NEW r \in Runs, NEW next, NEW due,
           run' = [run EXCEPT ![r] = Read(next, due)]
    PROVE  run'[r].wrote = {} /\ \A q \in Runs \ {r} : run'[q] = run[q]
BY DEF TypeOK, Read

LEMMA EscalateWrote ==
    ASSUME NEW s \in Session, NEW p \in Policies, NEW due, due \subseteq Alerts, NEW ordered,
           \A a \in s.wrote : Raised(s, a)
    PROVE  LET n == EscalateSession(s, p, due, ordered) IN \A a \in n.wrote : Raised(n, a)
<1> DEFINE sv == [a \in Alerts |-> IF a \in due THEN Target[p] ELSE s.sev[a]]
           wr == s.wrote \cup {a \in due : s.sev[a] # Target[p]}
           lg == s.logs \cup {<<a, p>> : a \in due}
           n  == EscalateSession(s, p, due, ordered)
<1>1. s.wrote \subseteq Alerts
  BY DEF Session
<1>2. n.sev = sv /\ n.wrote = wr /\ n.logs = lg
  BY DEF EscalateSession, Order, Session
<1> HIDE DEF n
<1> SUFFICES ASSUME NEW a \in n.wrote PROVE Raised(n, a)
  BY DEF n
<1>3. a \in Alerts /\ (a \in due \/ a \in s.wrote)
  BY <1>1, <1>2
<1>4. CASE a \in due
  BY <1>2, <1>3, <1>4 DEF Raised
<1>5. CASE a \notin due
  BY <1>2, <1>3, <1>5 DEF Raised
<1> QED  BY <1>4, <1>5

LEMMA WroteStep == IInv /\ [Next]_vars => WroteLogged'
<1> SUFFICES ASSUME IInv, [Next]_vars PROVE WroteLogged'
  OBVIOUS
<1>1. TypeOK /\ \A r \in Runs : run[r].active => \A a \in run[r].wrote : Raised(run[r], a)
  BY WroteForm DEF IInv
<1>2. ASSUME NEW r \in Runs, \A q \in Runs \ {r} : run'[q] = run[q],
             run'[r].active => \A a \in run'[r].wrote : Raised(run'[r], a)
      PROVE  WroteLogged'
  <2>1. \A q \in Runs : run'[q].active => \A a \in run'[q].wrote : Raised(run'[q], a)
    BY <1>1, <1>2
  <2> QED  BY <2>1 DEF WroteLogged, Raised
<1>3. Outside => WroteLogged'
  BY <1>1, OutsideRuns DEF WroteLogged, Raised
<1>4. \A r \in Runs : Start(r) => WroteLogged'
  <2> SUFFICES ASSUME NEW r \in Runs, Start(r) PROVE WroteLogged'
    OBVIOUS
  <2> DEFINE D == {x \in ripe : level[x] > 0 \/ (x[1] \in open /\ sev[x[1]] = From[x[2]])}
  <2>1. run' = [run EXCEPT ![r] = Read(1, D)]
    BY DEF Start
  <2> HIDE DEF D
  <2> QED  BY <1>1, <1>2, <2>1, ReadWrote
<1>5. \A r \in Runs, p \in Policies : Escalate(r, p) => WroteLogged'
  <2> SUFFICES ASSUME NEW r \in Runs, NEW p \in Policies, Escalate(r, p) PROVE WroteLogged'
    OBVIOUS
  <2>1. run[r].active
    BY DEF Escalate
  <2>2. run[r] \in Session /\ Candidates(r, p) \subseteq Alerts
    BY <1>1, <2>1, RunType DEF Candidates
  <2>3. PICK ordered \in SUBSET (IF p \in AutoOrder THEN Candidates(r, p) ELSE {}) :
          run' = [run EXCEPT ![r] = EscalateSession(run[r], p, Candidates(r, p), ordered)]
    BY DEF Escalate, EscalateSession
  <2> DEFINE n == EscalateSession(run[r], p, Candidates(r, p), ordered)
  <2>4. \A a \in n.wrote : Raised(n, a)
    BY <1>1, <2>1, <2>2, EscalateWrote
  <2> HIDE DEF n
  <2>5. run' = [run EXCEPT ![r] = n]
    BY <2>3 DEF n
  <2> QED  BY <1>1, <1>2, <2>4, <2>5 DEF TypeOK
<1>6. \A r \in Runs, p \in Policies : PolicyFails(r, p) => WroteLogged'
  BY <1>1, <1>2, ReadWrote DEF PolicyFails
<1>7. \A r \in Runs : Commit(r) \/ CommitFails(r) => WroteLogged'
  BY <1>1, <1>2, EndRun
<1>8. Crash => WroteLogged'
  BY IdleRun DEF Crash, WroteLogged
<1> QED  BY <1>3, <1>4, <1>5, <1>6, <1>7, <1>8, NextCases

\* Of the steps of runs only a commit changes severities, and those it changes it
\* has logged.
LEMMA SeverityStep ==
    ASSUME IInv, [Next]_vars, NEW a \in Alerts, sev'[a] # sev[a], run' # run
    PROVE  \E p \in Policies : /\ <<a, p>> \in Pairs /\ sev'[a] = Target[p]
                              /\ level'[<<a, p>>] = level[<<a, p>>] + 1
<1> DEFINE P == \E p \in Policies : /\ <<a, p>> \in Pairs /\ sev'[a] = Target[p]
                                   /\ level'[<<a, p>>] = level[<<a, p>>] + 1
<1>1. TypeOK
  BY DEF IInv
<1>2. Outside => P
  BY <1>1, OutsideRuns
<1>3. \A r \in Runs : Start(r) => P
  BY DEF Start, alertVars
<1>4. \A r \in Runs, p \in Policies : Escalate(r, p) => P
  <2>1. \A r \in Runs, p \in Policies : Escalate(r, p) => UNCHANGED alertVars
    BY Zenon DEF Escalate
  <2> QED  BY <2>1 DEF alertVars
<1>5. \A r \in Runs, p \in Policies : PolicyFails(r, p) => P
  BY DEF PolicyFails, alertVars
<1>6. \A r \in Runs : Commit(r) => P
  <2> SUFFICES ASSUME NEW r \in Runs, Commit(r) PROVE P
    OBVIOUS
  <2>1. run[r].active /\ a \in run[r].wrote /\ sev'[a] = run[r].sev[a]
    BY DEF Commit
  <2>2. PICK p \in Policies : <<a, p>> \in run[r].logs /\ run[r].sev[a] = Target[p]
    BY <2>1 DEF IInv, WroteLogged
  <2>3. <<a, p>> \in Pairs
    BY <1>1, <2>1, <2>2, RunType
  <2>4. level'[<<a, p>>] = level[<<a, p>>] + 1
    BY <2>2, <2>3 DEF Commit
  <2> QED  BY <2>1, <2>2, <2>3, <2>4
<1>7. \A r \in Runs : CommitFails(r) => P
  BY DEF CommitFails, alertVars
<1>8. Crash => P
  BY DEF Crash, alertVars
<1> HIDE DEF P
<1>9. P
  BY <1>2, <1>3, <1>4, <1>5, <1>6, <1>7, <1>8, NextCases
<1> QED  BY <1>9 DEF P

-----------------------------------------------------------------------------
LEMMA InitIInv == Init => IInv
<1> SUFFICES ASSUME Init PROVE IInv
  OBVIOUS
<1>1. /\ \A r \in Runs : ~run[r].active
      /\ \A x \in Pairs : level[x] = 0 /\ sent[x] = 0
      /\ \A g \in Groups : orders[g] = 0
      /\ faults = 0 /\ lone
  BY IdleRun DEF Init
<1>2. TypeOK
  BY DEF Init, TypeOK
<1>3. \A x \in Pairs : Pending(x) = {} /\ Adding(x) = {}
  BY <1>1 DEF Pending, Adding
<1>4. \A x \in Pairs : Most[x[2]] \in Nat \ {0}
  BY <1>2, AddingRuns
<1>5. Cardinality(Runs) \in Nat
  BY RunsAssumption, FS_CardinalityType
<1>6. MessagesAccounted
  <2> SUFFICES ASSUME NEW x \in Pairs PROVE Account(x)
    BY AccountForm
  <2>1. 0 * Cardinality(Runs) = 0
    BY <1>5
  <2> QED  BY <1>1, <1>3, <2>1, NoRuns DEF Account, Balanced
<1>7. LevelsAhead
  <2> SUFFICES ASSUME NEW x \in Pairs
               PROVE  level[x] + Cardinality(Adding(x)) <= Most[x[2]] + Cardinality(Runs) - 1
    BY DEF LevelsAhead
  <2>1. level[x] = 0 /\ Cardinality(Adding(x)) = 0
    BY <1>1, <1>3, NoRuns
  <2> QED  BY <1>4, <1>5, <2>1
<1>8. LoneRun /\ LogsBehind /\ WroteLogged
  BY <1>1, <1>4 DEF LoneRun, LogsBehind, WroteLogged
<1>9. OrdersAhead
  <2>1. \A g \in Groups : Making(g) = {}
    BY <1>1 DEF Making
  <2> QED  BY <1>1, <1>5, <2>1, NoRuns DEF OrdersAhead
<1> QED  BY <1>2, <1>6, <1>7, <1>8, <1>9 DEF IInv

LEMMA NextIInv == IInv /\ [Next]_vars => IInv'
BY TypeStep, BehindStep, AccountStep, AheadStep, LoneStep, OrdersStep, WroteStep DEF IInv

LEMMA Invariant == Spec => []IInv
BY InitIInv, NextIInv, PTL DEF Spec

-----------------------------------------------------------------------------
\* Alerts, logs, work orders, messages and what every run has read stay in
\* their types.
THEOREM EscalationTypeCorrect == Spec => []TypeOK
<1>1. IInv => TypeOK
  BY DEF IInv
<1> QED  BY Invariant, <1>1, PTL

\* However many runs overlap, and whichever channels refuse, no level is told
\* twice, apart from one per run and fault (escalation_service.py:238-316).
THEOREM NoMessageRepeated == Spec => []MessagesAccounted
<1>1. IInv => MessagesAccounted
  BY DEF IInv
<1> QED  BY Invariant, <1>1, PTL

\* No pair gets more levels than max_escalations while runs do not overlap, and
\* at most one more for every run beside the first if they do.
THEOREM LevelsStayBounded == Spec => []LevelsBounded
<1>1. IInv => LevelsBounded
  <2> SUFFICES ASSUME IInv, NEW x \in Pairs
               PROVE  level[x] <= Most[x[2]] + (IF lone THEN 0 ELSE Cardinality(Runs) - 1)
    BY DEF LevelsBounded
  <2>1. /\ level[x] \in Nat /\ Most[x[2]] \in Nat /\ Cardinality(Adding(x)) \in Nat
        /\ Cardinality(Runs) \in Nat
        /\ level[x] + Cardinality(Adding(x)) <= Most[x[2]] + Cardinality(Runs) - 1
    BY AddingRuns DEF IInv, LevelsAhead
  <2>2. CASE lone
    BY <2>1, <2>2 DEF IInv, LoneRun
  <2>3. CASE ~lone
    BY <2>1, <2>3
  <2> QED  BY <2>2, <2>3
<1> QED  BY Invariant, <1>1, PTL

\* A group has at most one open automatic work order while runs do not overlap,
\* and never more than there are runs (create_work_order_from_alert,
\* escalation_service.py:134-194).
THEOREM OrdersStayBounded == Spec => []OrdersBounded
<1>1. IInv => OrdersBounded
  <2> SUFFICES ASSUME IInv, NEW g \in Groups
               PROVE  orders[g] <= (IF lone THEN 1 ELSE Cardinality(Runs))
    BY DEF OrdersBounded
  <2>1. /\ orders[g] \in Nat /\ Cardinality(Making(g)) \in Nat /\ Cardinality(Runs) \in Nat
        /\ orders[g] + Cardinality(Making(g)) <= Cardinality(Runs)
    BY MakingRuns DEF IInv, OrdersAhead
  <2>2. CASE lone
    BY <2>2 DEF IInv, LoneRun
  <2>3. CASE ~lone
    BY <2>1, <2>3
  <2> QED  BY <2>2, <2>3
<1> QED  BY Invariant, <1>1, PTL

\* A severity that a run writes is that of a level which the same commit logs,
\* whatever the failing policies of the run took back and whoever else rates the
\* alert meanwhile (escalation_service.py:238-316).
THEOREM SeverityIsLogged == Spec => SeverityHasLog
<1>1. IInv /\ [Next]_vars => [\A a \in Alerts : sev'[a] # sev[a] /\ run' # run =>
          \E p \in Policies : /\ <<a, p>> \in Pairs /\ sev'[a] = Target[p]
                             /\ level'[<<a, p>>] = level[<<a, p>>] + 1]_vars
  BY SeverityStep
<1> QED  BY Invariant, <1>1, PTL DEF Spec, SeverityHasLog

=============================================================================
