------------------------ MODULE DeviceAlertsProofs -------------------------
(***************************************************************************)
(* Proofs about DeviceAlerts, for any number of polls, other threads and   *)
(* alerts and any limit: type correctness, one alert per outage, and that  *)
(* polling implements the abstract OutageLedger.                           *)
(***************************************************************************)
EXTENDS DeviceAlerts, TLAPS

LEMMA InitType == Init => TypeOK
<1> SUFFICES ASSUME Init PROVE TypeOK
  OBVIOUS
<1>1. Unused \in Alert
  BY DEF Unused, Alert, Kind, AlertStatus
<1>2. Idle \in ThreadState
  BY DEF Idle, ThreadState, PC, Status, AlertStatus
<1>3. fails \in 0 .. Limit /\ moves \in 0 .. MaxMoves /\ lone \in BOOLEAN
  BY LimitAssumption DEF Init
<1> QED
  BY <1>1, <1>2, <1>3 DEF Init, TypeOK

LEMMA MoveType == ASSUME TypeOK, Move PROVE moves' \in 0 .. MaxMoves
BY LimitAssumption DEF TypeOK, Move

\* A probe moves one poll, a load one other thread.
LEMMA ProbeThread ==
    ASSUME TypeOK, NEW p \in Polls, PollProbe(p)
    PROVE  thr'[p].pc = "probed" /\ \A u \in (Polls \cup Others) \ {p} : thr'[u] = thr[u]
<1>1. PICK due : thr' = [thr EXCEPT ![p] = [Idle EXCEPT !.pc = "probed",
                                                       !.ok = (due \cap answers # {})]]
  BY DEF PollProbe
<1> QED  BY <1>1 DEF TypeOK, Idle

LEMMA LoadThread ==
    ASSUME TypeOK, NEW t \in Others, WriteLoad(t) \/ DecideLoad(t)
    PROVE  \A u \in (Polls \cup Others) \ {t} : thr'[u] = thr[u]
<1>1. PICK new : thr' = [thr EXCEPT ![t] = new]
  BY DEF WriteLoad, DecideLoad
<1> QED  BY <1>1 DEF TypeOK

\* What a thread finishes, and what it means to do, has its type.
LEMMA IdleType == Idle \in ThreadState
BY DEF Idle, ThreadState, PC, Status, AlertStatus

LEMMA FinishType ==
    ASSUME TypeOK, NEW t \in Polls \cup Others, Finish(t)
    PROVE  thr' \in [Polls \cup Others -> ThreadState]
BY IdleType DEF TypeOK, Finish

LEMMA FlushType ==
    ASSUME TypeOK, NEW t \in Polls \cup Others PROVE Flush(t) \in Status
BY DEF TypeOK, Flush, ThreadState

LEMMA WrittenType ==
    ASSUME TypeOK, NEW p \in Polls, NEW f
    PROVE  Written(p, f) \in [Alerts -> Alert]
<1> SUFFICES ASSUME NEW a \in Alerts PROVE Written(p, f)[a] \in Alert
  BY DEF Written
<1> DEFINE kinds == {k \in thr[p].open : f[k] = a}
<1>1. alerts[a] \in Alert /\ thr[p].open \subseteq Kind
  BY DEF TypeOK, ThreadState
<1>2. ASSUME kinds # {}
      PROVE  [kind |-> CHOOSE k \in kinds : TRUE, status |-> "active", reopened |-> FALSE] \in Alert
  <2>1. (CHOOSE k \in kinds : TRUE) \in Kind
    BY <1>1, <1>2
  <2> QED  BY <2>1 DEF Alert, AlertStatus
<1>3. [alerts[a] EXCEPT !.status = "closed"] \in Alert
  BY <1>1 DEF Alert, AlertStatus
<1> QED  BY <1>1, <1>2, <1>3 DEF Written

LEMMA LoadType ==
    ASSUME TypeOK, NEW p \in Polls, PollLoad(p)
    PROVE  /\ fails' \in 0 .. Limit
           /\ thr' \in [Polls \cup Others -> ThreadState]
<1> DEFINE ok     == thr[p].ok
           n      == IF ok THEN 0 ELSE IF fails < Limit THEN fails + 1 ELSE Limit
           turned == Probed(p) # status
           raised == Of("collection", {"active"})
           open   == (IF Failed(n) /\ raised = {} THEN {"collection"} ELSE {})
                     \cup (IF turned /\ ~ok THEN {OfflineKind} ELSE {})
<1>1. n \in 0 .. Limit
  BY LimitAssumption DEF TypeOK
<1>2. open \subseteq Kind
  BY DEF OfflineKind, Kind
<1>3. ToClose(n, turned, ok) \subseteq Alerts /\ raised \subseteq Alerts
  BY DEF ToClose, Of
<1>4. Probed(p) \in Status /\ status \in Status
  BY DEF Probed, Status, TypeOK
<1>5. PICK refresh \in SUBSET raised :
        thr' = [thr EXCEPT ![p] =
                  [@ EXCEPT !.pc = "loaded", !.seen = status, !.new = Probed(p),
                            !.open = open, !.close = ToClose(n, turned, ok),
                            !.refresh = refresh]]
  BY DEF PollLoad
<1>6. refresh \subseteq Alerts
  BY <1>3
<1> HIDE DEF turned, raised, open, n
<1>7. [thr[p] EXCEPT !.pc = "loaded", !.seen = status, !.new = Probed(p),
                     !.open = open, !.close = ToClose(n, turned, ok),
                     !.refresh = refresh] \in ThreadState
  BY <1>2, <1>3, <1>4, <1>6 DEF TypeOK, ThreadState, PC
<1>8. thr' \in [Polls \cup Others -> ThreadState]
  BY <1>5, <1>7 DEF TypeOK
<1>9. fails' = n
  BY DEF PollLoad, n
<1> QED  BY <1>1, <1>8, <1>9

LEMMA NextType == TypeOK /\ [Next]_vars => TypeOK'
<1> SUFFICES ASSUME TypeOK, [Next]_vars PROVE TypeOK'
  OBVIOUS
<1>1. ASSUME NEW p \in Polls, PollProbe(p) PROVE TypeOK'
  <2>1. PICK due \in SUBSET Methods :
          thr' = [thr EXCEPT ![p] = [Idle EXCEPT !.pc = "probed", !.ok = (due \cap answers # {})]]
    BY <1>1 DEF PollProbe
  <2>2. [Idle EXCEPT !.pc = "probed", !.ok = (due \cap answers # {})] \in ThreadState
    BY DEF Idle, ThreadState, PC, Status, AlertStatus
  <2> QED  BY <1>1, <2>1, <2>2 DEF PollProbe, TypeOK
<1>2. ASSUME NEW p \in Polls, PollLoad(p) PROVE TypeOK'
  BY <1>2, LoadType DEF PollLoad, TypeOK
<1>3. ASSUME NEW p \in Polls, PollCommit(p) PROVE TypeOK'
  <2>1. status' \in Status /\ alerts' \in [Alerts -> Alert]
    BY <1>3, FlushType, WrittenType DEF PollCommit, TypeOK
  <2>2. thr' \in [Polls \cup Others -> ThreadState]
    BY <1>3, FinishType DEF PollCommit
  <2> QED  BY <1>3, <2>1, <2>2 DEF PollCommit, TypeOK
<1>4. ASSUME NEW p \in Polls, PollRefused(p) PROVE TypeOK'
  <2>1. thr' \in [Polls \cup Others -> ThreadState]
    BY <1>4, FinishType DEF PollRefused
  <2> QED  BY <1>4, <2>1 DEF PollRefused, TypeOK
<1>5. ASSUME NEW t \in Others, WriteLoad(t) PROVE TypeOK'
  <2>1. PICK st \in Status : thr' = [thr EXCEPT ![t] =
            [Idle EXCEPT !.pc = "status", !.seen = status, !.new = st]]
    BY <1>5 DEF WriteLoad
  <2>2. [Idle EXCEPT !.pc = "status", !.seen = status, !.new = st] \in ThreadState
    BY DEF Idle, ThreadState, PC, AlertStatus, TypeOK
  <2> QED  BY <1>5, <2>1, <2>2, MoveType DEF WriteLoad, TypeOK
<1>6. ASSUME NEW t \in Others, WriteCommit(t) PROVE TypeOK'
  <2>1. status' \in Status /\ thr' \in [Polls \cup Others -> ThreadState] /\ lone' \in BOOLEAN
    BY <1>6, FlushType, FinishType DEF WriteCommit, TypeOK
  <2> QED  BY <1>6, <2>1 DEF WriteCommit, TypeOK
<1>7. ASSUME NEW t \in Others, DecideLoad(t) PROVE TypeOK'
  <2>1. PICK to \in AlertStatus, S \in SUBSET Alerts :
          thr' = [thr EXCEPT ![t] = [Idle EXCEPT !.pc = "alert", !.refresh = S, !.to = to]]
    <3>1. UNION {Decisions(st) : st \in AlertStatus} \subseteq AlertStatus
      BY DEF Decisions, AlertStatus
    <3>2. \A to : Turns(to) \subseteq Alerts
      BY DEF Turns
    <3>3. PICK to \in UNION {Decisions(st) : st \in AlertStatus} :
            \E S \in SUBSET Turns(to) :
               thr' = [thr EXCEPT ![t] = [Idle EXCEPT !.pc = "alert", !.refresh = S, !.to = to]]
      BY <1>7 DEF DecideLoad
    <3>4. to \in AlertStatus /\ \A S \in SUBSET Turns(to) : S \in SUBSET Alerts
      BY <3>1, <3>2
    <3> QED  BY <3>3, <3>4
  <2>2. [Idle EXCEPT !.pc = "alert", !.refresh = S, !.to = to] \in ThreadState
    BY DEF Idle, ThreadState, PC, Status
  <2> QED  BY <1>7, <2>1, <2>2, MoveType DEF DecideLoad, TypeOK
<1>8. ASSUME NEW t \in Others, DecideCommit(t) PROVE TypeOK'
  <2>1. ASSUME NEW a \in Alerts
        PROVE  [alerts[a] EXCEPT !.status = thr[t].to,
                                 !.reopened = @ \/ thr[t].to = "active"] \in Alert
    <3>1. alerts[a] \in Alert /\ thr[t].to \in AlertStatus
      BY DEF TypeOK, ThreadState
    <3>2. (alerts[a].reopened \/ thr[t].to = "active") \in BOOLEAN
      OBVIOUS
    <3> QED  BY <3>1, <3>2 DEF Alert
  <2>2. alerts' \in [Alerts -> Alert]
    <3>1. CASE UNCHANGED alerts
      BY <3>1 DEF TypeOK
    <3>2. CASE alerts' = [a \in Alerts |->
                            IF a \in thr[t].refresh
                              THEN [alerts[a] EXCEPT !.status = thr[t].to,
                                                     !.reopened = @ \/ thr[t].to = "active"]
                              ELSE alerts[a]]
      BY <2>1, <3>2 DEF TypeOK
    <3> QED  BY <1>8, <3>1, <3>2 DEF DecideCommit
  <2>3. thr' \in [Polls \cup Others -> ThreadState]
    BY <1>8, FinishType DEF DecideCommit
  <2> QED  BY <1>8, <2>2, <2>3 DEF DecideCommit, TypeOK
<1>9. CASE Flip
  BY <1>9, MoveType DEF Flip, TypeOK
<1>10. CASE Restart
  BY <1>10, MoveType, IdleType, LimitAssumption DEF Restart, TypeOK
<1>11. CASE UNCHANGED vars
  BY <1>11 DEF vars, TypeOK
<1> QED
  BY <1>1, <1>2, <1>3, <1>4, <1>5, <1>6, <1>7, <1>8, <1>9, <1>10, <1>11
     DEF Next, Poll, Other

\* The status, the alerts, the sessions and the counter stay in their types.
THEOREM DeviceTypeCorrect == Spec => []TypeOK
<1> QED  BY InitType, NextType, PTL DEF Spec

-----------------------------------------------------------------------------
\* As long as OutageHasOneAlert has something to say.
Calm == lone /\ rule = "none"

\* Then at most one poll is under way ...
OnePoll == \A p, q \in Polls : thr[p].pc # "idle" /\ thr[q].pc # "idle" => p = q

\* ... the status is still the one it read, what it closes is no offline alert
\* or all of them, and it opens one exactly if it turns the device offline.
Prepared(p) ==
    LET turned == thr[p].new # thr[p].seen
    IN  /\ thr[p].seen = status
        /\ "renamed" \notin thr[p].open
        /\ "offline" \in thr[p].open <=> turned /\ thr[p].new = "offline"
        /\ ~turned => \A a \in thr[p].close : alerts[a].kind # "offline"
        /\ turned /\ thr[p].new # "offline" => ActiveOffline \subseteq thr[p].close

OutageInv ==
    /\ TypeOK
    /\ Calm => OnePoll
    /\ Calm => \A p \in Polls : thr[p].pc = "loaded" => Prepared(p)
    /\ OutageHasOneAlert

LEMMA InitOutage == Init => OutageInv
<1> SUFFICES ASSUME Init PROVE OutageInv
  OBVIOUS
<1>1. \A a \in Alerts : alerts[a].status = "none"
  BY DEF Init, Unused
<1>2. ActiveOffline = {}
  BY <1>1 DEF ActiveOffline, Of
<1>3. OutageHasOneAlert
  BY <1>2 DEF Init, OutageHasOneAlert
<1>4. \A p \in Polls : thr[p].pc = "idle"
  BY DEF Init, Idle
<1> QED  BY <1>3, <1>4, InitType DEF OutageInv, OnePoll

\* A step that neither opens nor closes: alerts keep their kind, none becomes
\* active unless it counts as reopened, none leaves the unclosed ones.
LEMMA AlertsKept ==
    ASSUME OutageInv, TypeOK', Calm' => Calm, status' = status,
           \A a \in Alerts : /\ alerts'[a].kind = alerts[a].kind
                             /\ alerts[a].reopened => alerts'[a].reopened
                             /\ alerts'[a].status = "active" =>
                                  alerts[a].status = "active" \/ alerts'[a].reopened
                             /\ alerts[a].status \notin {"none", "closed"} =>
                                  alerts'[a].status \notin {"none", "closed"}
    PROVE  ActiveOffline' \subseteq ActiveOffline /\ OutageHasOneAlert'
<1>1. ActiveOffline' \subseteq ActiveOffline
  BY DEF ActiveOffline, Of
<1>2. Of("offline", AlertStatus \ {"none", "closed"})
        \subseteq Of("offline", AlertStatus \ {"none", "closed"})'
  BY DEF Of, TypeOK, Alert
<1> QED  BY <1>1, <1>2 DEF OutageInv, OutageHasOneAlert, Calm

\* What a poll has prepared stays so, as long as the poll waits.
LEMMA PreparedKept ==
    ASSUME OutageInv, TypeOK', NEW p \in Polls, Prepared(p),
           thr'[p] = thr[p], status' = status, ActiveOffline' \subseteq ActiveOffline,
           \A a \in Alerts : alerts'[a].kind = alerts[a].kind
    PROVE  Prepared(p)'
<1>1. thr[p].close \subseteq Alerts
  BY DEF OutageInv, TypeOK, ThreadState
<1> QED  BY <1>1 DEF Prepared

\* A step of a thread that is no poll, or that leaves a poll idle or probing.
LEMMA OtherStep ==
    ASSUME OutageInv, TypeOK', Calm' => Calm, status' = status,
           \A p \in Polls : thr'[p] = thr[p] \/ thr'[p].pc = "idle",
           \A a \in Alerts : /\ alerts'[a].kind = alerts[a].kind
                             /\ alerts[a].reopened => alerts'[a].reopened
                             /\ alerts'[a].status = "active" =>
                                  alerts[a].status = "active" \/ alerts'[a].reopened
                             /\ alerts[a].status \notin {"none", "closed"} =>
                                  alerts'[a].status \notin {"none", "closed"}
    PROVE  OutageInv'
<1>1. ActiveOffline' \subseteq ActiveOffline /\ OutageHasOneAlert'
  BY AlertsKept
<1>2. Calm' => OnePoll'
  BY DEF OutageInv, OnePoll
<1>3. ASSUME Calm', NEW p \in Polls, thr'[p].pc = "loaded" PROVE Prepared(p)'
  <2>1. thr'[p] = thr[p] /\ Prepared(p)
    BY <1>3 DEF OutageInv
  <2> QED  BY <1>1, <2>1, PreparedKept
<1> QED  BY <1>1, <1>2, <1>3 DEF OutageInv

LEMMA ProbeStep ==
    ASSUME OutageInv, TypeOK', NEW p \in Polls, PollProbe(p) PROVE OutageInv'
<1>1. /\ thr'[p].pc = "probed" /\ \A q \in Polls \ {p} : thr'[q] = thr[q]
      /\ UNCHANGED <<rule, status, alerts>>
  BY ProbeThread DEF PollProbe, OutageInv
<1>2. Calm' => Calm /\ \A q \in Polls : thr[q].pc = "idle"
  BY DEF PollProbe, Calm
<1>3. ActiveOffline' \subseteq ActiveOffline /\ OutageHasOneAlert'
  BY <1>1, <1>2, AlertsKept DEF Calm
<1>4. Calm' => OnePoll'
  BY <1>1, <1>2 DEF OnePoll
<1>5. Calm' => \A q \in Polls : thr'[q].pc # "loaded"
  BY <1>1, <1>2
<1> QED  BY <1>3, <1>4, <1>5 DEF OutageInv

LEMMA LoadStep ==
    ASSUME OutageInv, TypeOK', NEW p \in Polls, PollLoad(p) PROVE OutageInv'
<1> DEFINE ok     == thr[p].ok
           n      == IF ok THEN 0 ELSE IF fails < Limit THEN fails + 1 ELSE Limit
           turned == Probed(p) # status
           raised == Of("collection", {"active"})
           open   == (IF Failed(n) /\ raised = {} THEN {"collection"} ELSE {})
                     \cup (IF turned /\ ~ok THEN {OfflineKind} ELSE {})
           close  == ToClose(n, turned, ok)
<1>1. /\ UNCHANGED <<rule, status, alerts, lone>> /\ thr[p].pc = "probed"
  BY DEF PollLoad
<1>2. PICK refresh : thr' = [thr EXCEPT ![p] =
                  [@ EXCEPT !.pc = "loaded", !.seen = status, !.new = Probed(p),
                            !.open = open, !.close = close, !.refresh = refresh]]
  BY DEF PollLoad
<1>3. Of("offline", {"active"}) \subseteq Of("offline", {"active", "suppressed"})
  BY DEF Of
<1>4. /\ ~turned => \A a \in close : alerts[a].kind # "offline"
      /\ turned /\ ok => ActiveOffline \subseteq close
  BY <1>3 DEF ToClose, Of, ActiveOffline
<1>5. Probed(p) = "offline" <=> ~ok
  BY DEF Probed
<1>6. Calm => "renamed" \notin open /\ ("offline" \in open <=> turned /\ ~ok)
  BY DEF OfflineKind, Calm
<1> HIDE DEF open, close
<1>7. /\ thr'[p].pc = "loaded" /\ thr'[p].seen = status /\ thr'[p].new = Probed(p)
      /\ thr'[p].open = open /\ thr'[p].close = close
      /\ \A q \in Polls \ {p} : thr'[q] = thr[q]
  BY <1>2 DEF OutageInv, TypeOK, ThreadState
<1>8. ActiveOffline' = ActiveOffline
  BY <1>1 DEF ActiveOffline, Of
<1>9. Calm' <=> Calm
  BY <1>1 DEF Calm
<1>10. Calm => Prepared(p)'
  BY <1>1, <1>4, <1>5, <1>6, <1>7, <1>8 DEF Prepared
<1>11. Calm => \A q \in Polls \ {p} : thr'[q].pc = "idle"
  BY <1>1, <1>7 DEF OutageInv, OnePoll
<1>12. OutageHasOneAlert'
  BY <1>1, <1>8, <1>9 DEF OutageInv, OutageHasOneAlert, Of
<1>13. Calm' => OnePoll'
  BY <1>9, <1>11 DEF OnePoll
<1> QED  BY <1>9, <1>10, <1>11, <1>12, <1>13 DEF OutageInv

\* What a poll writes into one row, its new alerts placed by f: a row in use is
\* left or closed, and a row that gets a new alert gets one that f puts there.
LEMMA RowWritten ==
    ASSUME TypeOK, NEW p \in Polls, NEW f \in Placings(thr[p].open), NEW a \in Alerts
    PROVE  \/ /\ a \notin Free \/ \A k \in thr[p].open : f[k] # a
              /\ Written(p, f)[a] = IF a \in thr[p].close
                                      THEN [alerts[a] EXCEPT !.status = "closed"]
                                      ELSE alerts[a]
           \/ \E k \in thr[p].open :
                 /\ f[k] = a /\ a \in Free
                 /\ Written(p, f)[a] = [kind |-> k, status |-> "active", reopened |-> FALSE]
<1> DEFINE kinds == {k \in thr[p].open : f[k] = a}
<1>1. f \in [thr[p].open -> Free]
  BY DEF Placings
<1>2. CASE kinds = {}
  BY <1>2 DEF Written
<1>3. CASE kinds # {}
  <2>1. (CHOOSE k \in kinds : TRUE) \in kinds
    BY <1>3
  <2> QED  BY <1>1, <1>3, <2>1 DEF Written
<1> QED  BY <1>2, <1>3

\* A commit that goes through.
LEMMA CommitOutage ==
    ASSUME OutageInv, TypeOK', NEW p \in Polls, Prepared(p),
           NEW f \in Placings(thr[p].open),
           status' = Flush(p), alerts' = Written(p, f),
           Calm
    PROVE  OutageHasOneAlert'
<1> DEFINE open  == thr[p].open
           close == thr[p].close
<1>1. /\ open \subseteq Kind /\ close \subseteq Alerts
      /\ thr[p].new \in Status /\ thr[p].seen = status
  BY DEF OutageInv, TypeOK, ThreadState, Prepared
<1>2. \A a \in Alerts : alerts[a] \in Alert
  BY DEF OutageInv, TypeOK
<1>3. \A a \in Free : alerts[a].status \in {"none", "closed"} \/ alerts[a].kind = "renamed"
  BY DEF Free
<1>4. ASSUME NEW a \in Alerts, alerts'[a].kind = "offline", alerts'[a].status = "active",
             ~alerts'[a].reopened
      PROVE  \/ a \in ActiveOffline /\ a \notin close
             \/ "offline" \in open /\ a = f["offline"]
  <2>1. CASE alerts'[a] = IF a \in close THEN [alerts[a] EXCEPT !.status = "closed"]
                          ELSE alerts[a]
    BY <1>2, <1>4, <2>1 DEF ActiveOffline, Of, Alert
  <2>2. CASE \E k \in open : f[k] = a /\ alerts'[a] = [kind |-> k, status |-> "active",
                                                       reopened |-> FALSE]
    BY <1>4, <2>2
  <2> QED  BY <2>1, <2>2, RowWritten, SMTT(30) DEF OutageInv
<1>5. CASE thr[p].new = thr[p].seen
  <2>1. "offline" \notin open /\ status' = status
    BY <1>5 DEF Prepared, Flush
  <2>2. ActiveOffline' \subseteq ActiveOffline
    BY <1>4, <2>1 DEF ActiveOffline, Of
  <2>3. ASSUME NEW a \in Of("offline", AlertStatus \ {"none", "closed"})
        PROVE  a \in Of("offline", AlertStatus \ {"none", "closed"})'
    <3>1. a \in Alerts /\ a \notin close /\ a \notin Free
      BY <1>3, <1>5, <2>3 DEF Prepared, Of
    <3>2. alerts'[a] = alerts[a]
      BY <3>1, RowWritten DEF OutageInv
    <3> QED  BY <2>3, <3>2 DEF Of
  <2>4. OutageHasOneAlert /\ lone /\ rule = "none"
    BY DEF OutageInv, Calm
  <2>5. CASE status = "offline"
    BY <2>1, <2>2, <2>3, <2>4, <2>5 DEF OutageHasOneAlert
  <2>6. CASE status # "offline"
    BY <2>1, <2>2, <2>4, <2>6 DEF OutageHasOneAlert
  <2> QED  BY <2>5, <2>6
<1>6. CASE thr[p].new # thr[p].seen /\ thr[p].new # "offline"
  <2>1. "offline" \notin open /\ ActiveOffline \subseteq close /\ status' # "offline"
    BY <1>6 DEF Prepared, Flush
  <2>2. ActiveOffline' = {}
    BY <1>4, <2>1 DEF ActiveOffline, Of
  <2> QED  BY <2>1, <2>2 DEF OutageHasOneAlert
<1>7. CASE thr[p].new # thr[p].seen /\ thr[p].new = "offline"
  <2>1. "offline" \in open /\ status # "offline" /\ status' = "offline"
    BY <1>1, <1>7 DEF Prepared, Flush
  <2>2. ActiveOffline = {}
    BY <2>1 DEF OutageInv, OutageHasOneAlert, Calm
  <2>3. \A a, b \in ActiveOffline' : a = b
    BY <1>4, <2>2 DEF ActiveOffline, Of
  <2>4. f["offline"] \in Free /\ \A k \in open : f[k] = f["offline"] => k = "offline"
    BY <2>1 DEF Placings
  <2>5. PICK a \in Alerts : a = f["offline"] /\ a \in Free
    BY <2>4 DEF Free
  <2>6. alerts'[a] = [kind |-> "offline", status |-> "active", reopened |-> FALSE]
    <3>1. ~(a \notin Free \/ \A k \in open : f[k] # a)
      BY <2>1, <2>5
    <3>2. PICK k \in open : f[k] = a /\ alerts'[a] = [kind |-> k, status |-> "active",
                                                    reopened |-> FALSE]
      BY <3>1, RowWritten DEF OutageInv
    <3> QED  BY <2>4, <2>5, <3>2
  <2>7. a \in Of("offline", AlertStatus \ {"none", "closed"})'
    BY <2>6 DEF Of, AlertStatus
  <2> QED  BY <2>1, <2>3, <2>7 DEF OutageHasOneAlert
<1> QED  BY <1>5, <1>6, <1>7

LEMMA CommitStep ==
    ASSUME OutageInv, TypeOK', NEW p \in Polls, PollCommit(p) PROVE OutageInv'
<1>1. /\ thr'[p].pc = "idle" /\ \A q \in Polls \ {p} : thr'[q] = thr[q]
      /\ UNCHANGED <<rule, lone>> /\ thr[p].pc = "loaded" /\ (Calm' <=> Calm)
  BY DEF PollCommit, Finish, Idle, OutageInv, TypeOK, Calm
<1>2. CASE UNCHANGED <<status, alerts>>
  BY <1>1, <1>2, OtherStep
<1>3. CASE ~UNCHANGED <<status, alerts>>
  <2>1. PICK f \in Placings(thr[p].open) : status' = Flush(p) /\ alerts' = Written(p, f)
    BY <1>3 DEF PollCommit
  <2>2. ASSUME Calm PROVE OutageHasOneAlert'
    BY <1>1, <2>1, <2>2, CommitOutage DEF OutageInv
  <2>3. Calm => \A q \in Polls : thr'[q].pc = "idle"
    BY <1>1 DEF OutageInv, OnePoll
  <2>4. ~Calm' => OutageHasOneAlert'
    BY DEF Calm, OutageHasOneAlert
  <2> QED  BY <1>1, <2>2, <2>3, <2>4 DEF OutageInv, OnePoll
<1> QED  BY <1>2, <1>3

\* An operator never hands an alert back to the system.
DecisionsMade == \A t \in Others : thr[t].pc = "alert" => thr[t].to \notin {"none", "closed"}

LEMMA DecideStep ==
    ASSUME OutageInv, DecisionsMade, TypeOK', NEW t \in Others, DecideCommit(t)
    PROVE  OutageInv'
<1>1. \A p \in Polls : thr'[p] = thr[p]
  BY ThreadsAssumption DEF DecideCommit, Finish, OutageInv, TypeOK
<1>2. thr[t].to \notin {"none", "closed"}
  BY DEF DecisionsMade, DecideCommit
<1>3. UNCHANGED <<rule, status, lone>>
  BY DEF DecideCommit
<1>4. ASSUME NEW a \in Alerts
      PROVE  /\ alerts'[a].kind = alerts[a].kind
             /\ alerts[a].reopened => alerts'[a].reopened
             /\ alerts'[a].status = "active" =>
                  alerts[a].status = "active" \/ alerts'[a].reopened
             /\ alerts[a].status \notin {"none", "closed"} =>
                  alerts'[a].status \notin {"none", "closed"}
  <2>1. CASE alerts'[a] = alerts[a]
    BY <2>1
  <2>2. CASE alerts'[a] = [alerts[a] EXCEPT !.status = thr[t].to,
                                            !.reopened = @ \/ thr[t].to = "active"]
    <3>1. alerts[a] \in Alert
      BY DEF OutageInv, TypeOK
    <3>2. /\ alerts'[a].kind = alerts[a].kind
          /\ alerts'[a].status = thr[t].to
          /\ alerts'[a].reopened = (alerts[a].reopened \/ thr[t].to = "active")
      BY <2>2, <3>1 DEF Alert
    <3> QED  BY <1>2, <3>2
  <2> QED  BY <2>1, <2>2 DEF DecideCommit
<1> QED  BY <1>1, <1>3, <1>4, OtherStep DEF Calm

LEMMA NextDecisions == TypeOK /\ DecisionsMade /\ [Next]_vars => DecisionsMade'
<1> SUFFICES ASSUME TypeOK, DecisionsMade, [Next]_vars PROVE DecisionsMade'
  OBVIOUS
<1>1. ASSUME NEW t \in Polls \cup Others,
             \A u \in (Polls \cup Others) \ {t} : thr'[u] = thr[u],
             thr'[t].pc # "alert" \/ thr'[t].to \notin {"none", "closed"}
      PROVE  DecisionsMade'
  BY <1>1 DEF DecisionsMade
<1>2. ASSUME NEW p \in Polls, PollProbe(p) PROVE DecisionsMade'
  BY <1>1, <1>2, ProbeThread
<1>3. ASSUME NEW p \in Polls, PollLoad(p) PROVE DecisionsMade'
  BY <1>3, ThreadsAssumption DEF PollLoad, DecisionsMade, TypeOK
<1>4. ASSUME NEW t \in Polls \cup Others, Finish(t) PROVE DecisionsMade'
  BY <1>1, <1>4 DEF Finish, TypeOK, Idle
<1>5. ASSUME NEW t \in Others, WriteLoad(t) PROVE DecisionsMade'
  BY <1>1, <1>5 DEF WriteLoad, TypeOK, Idle
<1>6. ASSUME NEW t \in Others, DecideLoad(t) PROVE DecisionsMade'
  <2>1. PICK to \in UNION {Decisions(st) : st \in AlertStatus} : \E S \in SUBSET Turns(to) :
          thr' = [thr EXCEPT ![t] = [Idle EXCEPT !.pc = "alert", !.refresh = S, !.to = to]]
    BY <1>6 DEF DecideLoad
  <2>2. PICK S \in SUBSET Turns(to) :
          thr' = [thr EXCEPT ![t] = [Idle EXCEPT !.pc = "alert", !.refresh = S, !.to = to]]
    BY <2>1
  <2>3. to \notin {"none", "closed"}
    BY DEF Decisions
  <2>4. thr'[t].to = to /\ \A u \in (Polls \cup Others) \ {t} : thr'[u] = thr[u]
    BY <2>2 DEF TypeOK, Idle
  <2> QED  BY <1>1, <2>3, <2>4
<1>7. CASE Restart
  BY <1>7 DEF Restart, DecisionsMade, Idle
<1>8. CASE UNCHANGED thr
  BY <1>8 DEF DecisionsMade
<1> QED
  BY <1>2, <1>3, <1>4, <1>5, <1>6, <1>7, <1>8
     DEF Next, Poll, Other, PollCommit, PollRefused, WriteCommit, DecideCommit, Flip, vars

LEMMA NextOutage == OutageInv /\ DecisionsMade /\ [Next]_vars => OutageInv'
<1> SUFFICES ASSUME OutageInv, DecisionsMade, [Next]_vars PROVE OutageInv'
  OBVIOUS
<1>1. TypeOK /\ TypeOK'
  BY NextType DEF OutageInv
<1>2. ASSUME NEW p \in Polls, PollProbe(p) \/ PollLoad(p) \/ PollCommit(p) PROVE OutageInv'
  BY <1>1, <1>2, ProbeStep, LoadStep, CommitStep
<1>3. ASSUME NEW t \in Others, DecideCommit(t) PROVE OutageInv'
  BY <1>1, <1>3, DecideStep
<1>4. ASSUME NEW t \in Others, WriteCommit(t) PROVE OutageInv'
  <2>1. (\A p \in Polls : thr'[p] = thr[p]) /\ UNCHANGED <<rule, alerts>>
    BY <1>1, <1>4, ThreadsAssumption DEF WriteCommit, Finish, TypeOK
  <2>2. CASE thr[t].new = thr[t].seen
    <3>1. status' = status /\ (Calm' => Calm)
      BY <1>4, <2>2 DEF WriteCommit, Flush, Calm
    <3> QED  BY <1>1, <2>1, <3>1, OtherStep
  <2>3. CASE thr[t].new # thr[t].seen
    <3>1. ~Calm'
      BY <1>4, <2>3 DEF WriteCommit, Calm
    <3> QED  BY <1>1, <3>1 DEF OutageInv, OutageHasOneAlert, Calm
  <2> QED  BY <2>2, <2>3
<1>5. ASSUME UNCHANGED <<rule, status, alerts, lone>>,
             \A p \in Polls : thr'[p] = thr[p] \/ thr'[p].pc = "idle"
      PROVE  OutageInv'
  BY <1>1, <1>5, OtherStep DEF Calm
<1>6. ASSUME NEW p \in Polls, PollRefused(p) PROVE OutageInv'
  BY <1>1, <1>5, <1>6 DEF PollRefused, Finish, TypeOK, Idle
<1>7. ASSUME NEW t \in Others, WriteLoad(t) \/ DecideLoad(t) PROVE OutageInv'
  <2>1. \A p \in Polls : thr'[p] = thr[p]
    BY <1>1, <1>7, LoadThread, ThreadsAssumption
  <2> QED  BY <1>5, <1>7, <2>1 DEF WriteLoad, DecideLoad
<1>8. CASE Flip \/ Restart
  BY <1>5, <1>8 DEF Flip, Restart, Idle
<1>9. CASE UNCHANGED vars
  BY <1>5, <1>9 DEF vars
<1> QED
  BY <1>2, <1>3, <1>4, <1>6, <1>7, <1>8, <1>9 DEF Next, Poll, Other

LEMMA AlwaysOutage == Spec => [](OutageInv /\ DecisionsMade)
<1>1. Init => DecisionsMade
  BY DEF Init, DecisionsMade, Idle
<1>2. OutageInv => TypeOK
  BY DEF OutageInv
<1> QED  BY <1>1, <1>2, InitOutage, NextDecisions, NextOutage, PTL DEF Spec

\* However probes, failed commits, restarts and decisions of operators
\* interleave, an outage has its alert and no second active one.
THEOREM OutageAlerted == Spec => []OutageHasOneAlert
<1>1. OutageInv => OutageHasOneAlert
  BY DEF OutageInv
<1> QED  BY <1>1, AlwaysOutage, PTL

-----------------------------------------------------------------------------
(* Polling implements OutageLedger.                                        *)

\* What a loaded poll means to do about offline alerts, disturbed or not: it
\* opens one if it turns the device offline, and closes some only if it turns
\* it online.
Intends(p) ==
    LET turned == thr[p].new # thr[p].seen
    IN  /\ thr[p].new \in {"online", "offline"}
        /\ turned /\ thr[p].new = "offline" => OfflineKind \in thr[p].open
        /\ ~turned \/ thr[p].new = "online" => "offline" \notin thr[p].open
        /\ \A a \in thr[p].close :
              alerts[a].kind = "offline" => turned /\ thr[p].new = "online"

PollsIntend == \A p \in Polls : thr[p].pc = "loaded" => Intends(p)

LedgerInv == OutageInv /\ DecisionsMade /\ PollsIntend

\* Which row of an alert is used again no thread is about to write.
LEMMA KindsKept ==
    ASSUME TypeOK, [Next]_vars, NEW a \in Alerts, a \notin Free
    PROVE  alerts'[a].kind = alerts[a].kind
<1>1. ASSUME NEW p \in Polls, PollCommit(p) PROVE alerts'[a].kind = alerts[a].kind
  <2>1. CASE alerts' = alerts
    BY <2>1
  <2>2. CASE alerts' # alerts
    <3>1. PICK f \in Placings(thr[p].open) : alerts' = Written(p, f)
      BY <1>1, <2>2 DEF PollCommit
    <3>2. alerts'[a] = IF a \in thr[p].close THEN [alerts[a] EXCEPT !.status = "closed"]
                       ELSE alerts[a]
      BY <3>1, RowWritten
    <3>3. alerts[a] \in Alert
      BY DEF TypeOK
    <3> QED  BY <3>2, <3>3 DEF Alert
  <2> QED  BY <2>1, <2>2
<1>2. ASSUME NEW t \in Others, DecideCommit(t) PROVE alerts'[a].kind = alerts[a].kind
  <2>1. alerts[a] \in Alert
    BY DEF TypeOK
  <2>2. \/ alerts'[a] = alerts[a]
        \/ alerts'[a] = [alerts[a] EXCEPT !.status = thr[t].to,
                                          !.reopened = @ \/ thr[t].to = "active"]
    BY <1>2 DEF DecideCommit
  <2> QED  BY <2>1, <2>2 DEF Alert
<1>3. CASE UNCHANGED alerts
  BY <1>3
<1> QED
  BY <1>1, <1>2, <1>3 DEF Next, Poll, Other, PollProbe, PollLoad, PollRefused, WriteLoad,
     WriteCommit, DecideLoad, Flip, Restart, vars

\* How a thread gets where it is.
LEMMA PollMoves ==
    ASSUME TypeOK, [Next]_vars, NEW p \in Polls
    PROVE  /\ rule' = rule
           /\ thr'[p] = thr[p] \/ thr'[p].pc # "loaded" \/ PollLoad(p)
<1>1. ASSUME NEW t \in Polls \cup Others, Finish(t) PROVE thr'[p] = thr[p] \/ thr'[p].pc # "loaded"
  BY <1>1 DEF Finish, TypeOK, Idle
<1>2. ASSUME NEW q \in Polls, PollProbe(q)
      PROVE  rule' = rule /\ (thr'[p] = thr[p] \/ thr'[p].pc # "loaded")
  BY <1>2, ProbeThread DEF PollProbe
<1>3. ASSUME NEW q \in Polls, PollLoad(q)
      PROVE  rule' = rule /\ (thr'[p] = thr[p] \/ PollLoad(p))
  BY <1>3 DEF PollLoad, TypeOK
<1>4. ASSUME NEW t \in Others, WriteLoad(t) \/ DecideLoad(t)
      PROVE  rule' = rule /\ thr'[p] = thr[p]
  BY <1>4, LoadThread, ThreadsAssumption DEF WriteLoad, DecideLoad
<1>5. CASE Flip \/ Restart \/ UNCHANGED vars
  BY <1>5 DEF Flip, Restart, vars, Idle
<1>6. ASSUME NEW q \in Polls, PollCommit(q) \/ PollRefused(q)
      PROVE  rule' = rule /\ (thr'[p] = thr[p] \/ thr'[p].pc # "loaded")
  BY <1>1, <1>6 DEF PollCommit, PollRefused
<1>7. ASSUME NEW t \in Others, WriteCommit(t) \/ DecideCommit(t)
      PROVE  rule' = rule /\ (thr'[p] = thr[p] \/ thr'[p].pc # "loaded")
  BY <1>1, <1>7 DEF WriteCommit, DecideCommit
<1> QED  BY <1>2, <1>3, <1>4, <1>5, <1>6, <1>7 DEF Next, Poll, Other

LEMMA LoadIntends ==
    ASSUME TypeOK, NEW p \in Polls, PollLoad(p) PROVE Intends(p)'
<1> DEFINE ok     == thr[p].ok
           n      == IF ok THEN 0 ELSE IF fails < Limit THEN fails + 1 ELSE Limit
           turned == Probed(p) # status
           raised == Of("collection", {"active"})
           open   == (IF Failed(n) /\ raised = {} THEN {"collection"} ELSE {})
                     \cup (IF turned /\ ~ok THEN {OfflineKind} ELSE {})
           close  == ToClose(n, turned, ok)
<1>1. UNCHANGED <<rule, alerts>>
  BY DEF PollLoad
<1>2. PICK refresh : thr' = [thr EXCEPT ![p] =
                  [@ EXCEPT !.pc = "loaded", !.seen = status, !.new = Probed(p),
                            !.open = open, !.close = close, !.refresh = refresh]]
  BY DEF PollLoad
<1>3. Probed(p) = IF ok THEN "online" ELSE "offline"
  BY DEF Probed
<1>4. /\ turned /\ ~ok => OfflineKind \in open
      /\ ~turned \/ ok => "offline" \notin open
  OBVIOUS
<1>5. \A a \in close : alerts[a].kind = "offline" => turned /\ ok
  BY DEF ToClose, Of
<1> HIDE DEF open, close
<1>6. /\ thr'[p].seen = status /\ thr'[p].new = Probed(p)
      /\ thr'[p].open = open /\ thr'[p].close = close
  BY <1>2 DEF TypeOK, ThreadState
<1>7. OfflineKind' = OfflineKind
  BY <1>1 DEF OfflineKind
<1> QED  BY <1>1, <1>3, <1>4, <1>5, <1>6, <1>7 DEF Intends

LEMMA NextIntends == TypeOK /\ PollsIntend /\ [Next]_vars => PollsIntend'
<1> SUFFICES ASSUME TypeOK, PollsIntend, [Next]_vars, NEW p \in Polls, thr'[p].pc = "loaded"
             PROVE  Intends(p)'
  BY DEF PollsIntend
<1>1. CASE PollLoad(p)
  BY <1>1, LoadIntends
<1>2. CASE thr'[p] = thr[p]
  <2>1. Intends(p) /\ thr[p].close \subseteq Alerts
    BY <1>2 DEF PollsIntend, TypeOK, ThreadState
  <2>2. \A a \in thr[p].close : a \notin Free
    BY DEF Free, Rows
  <2>3. \A a \in thr[p].close : alerts'[a].kind = alerts[a].kind
    BY <2>1, <2>2, KindsKept
  <2>4. OfflineKind' = OfflineKind
    BY PollMoves DEF OfflineKind
  <2> QED  BY <1>2, <2>1, <2>3, <2>4 DEF Intends
<1> QED  BY <1>1, <1>2, PollMoves

LEMMA AlwaysLedger == Spec => []LedgerInv
<1>1. Init => PollsIntend
  BY DEF Init, PollsIntend, Idle
<1>2. OutageInv => TypeOK
  BY DEF OutageInv
<1>3. OutageInv /\ DecisionsMade /\ PollsIntend <=> LedgerInv
  BY DEF LedgerInv
<1> QED  BY <1>1, <1>2, <1>3, AlwaysOutage, NextIntends, PTL DEF Spec

\* The offline alerts after a commit: a poll adds the one that it opens, and
\* takes away those that it closes.
LEMMA StandingWritten ==
    ASSUME TypeOK, NEW p \in Polls, NEW f \in Placings(thr[p].open), alerts' = Written(p, f),
           NEW a \in Alerts
    PROVE  a \in ActiveOffline' <=> \/ a \in ActiveOffline /\ a \notin thr[p].close
                                    \/ "offline" \in thr[p].open /\ a = f["offline"]
<1>1. alerts[a] \in Alert /\ f \in [thr[p].open -> Free]
  BY DEF TypeOK, Placings
<1>2. \A k, l \in thr[p].open : f[k] = f[l] => k = l
  BY DEF Placings
<1>3. a \in ActiveOffline => a \notin Free
  BY DEF ActiveOffline, Of, Free
<1>4. \A k \in thr[p].open : f[k] \in Free
  BY <1>1
<1>5. CASE /\ a \notin Free \/ \A k \in thr[p].open : f[k] # a
           /\ alerts'[a] = IF a \in thr[p].close THEN [alerts[a] EXCEPT !.status = "closed"]
                           ELSE alerts[a]
  <2>1. ~("offline" \in thr[p].open /\ a = f["offline"])
    BY <1>4, <1>5
  <2>2. CASE a \in thr[p].close
    BY <1>1, <1>5, <2>1, <2>2 DEF ActiveOffline, Of, Alert
  <2>3. CASE a \notin thr[p].close
    BY <1>5, <2>1, <2>3 DEF ActiveOffline, Of
  <2> QED  BY <2>2, <2>3
<1>6. CASE \E k \in thr[p].open :
              /\ f[k] = a /\ a \in Free
              /\ alerts'[a] = [kind |-> k, status |-> "active", reopened |-> FALSE]
  <2>1. PICK k \in thr[p].open :
              /\ f[k] = a /\ a \in Free
              /\ alerts'[a] = [kind |-> k, status |-> "active", reopened |-> FALSE]
    BY <1>6
  <2>2. a \in ActiveOffline' <=> k = "offline"
    BY <2>1 DEF ActiveOffline, Of
  <2>3. k = "offline" <=> "offline" \in thr[p].open /\ a = f["offline"]
    BY <1>2, <2>1
  <2> QED  BY <1>3, <2>1, <2>2, <2>3
<1>7. \/ /\ a \notin Free \/ \A k \in thr[p].open : f[k] # a
         /\ alerts'[a] = IF a \in thr[p].close THEN [alerts[a] EXCEPT !.status = "closed"]
                         ELSE alerts[a]
      \/ \E k \in thr[p].open :
            /\ f[k] = a /\ a \in Free
            /\ alerts'[a] = [kind |-> k, status |-> "active", reopened |-> FALSE]
  BY RowWritten
<1> QED  BY <1>5, <1>6, <1>7

LEMMA StandingRows == ActiveOffline \subseteq Alerts /\ ActiveOffline' \subseteq Alerts
BY DEF ActiveOffline, Of

\* A commit turns the device, with its alerts, or does nothing to either.
LEMMA CommitLedger ==
    ASSUME LedgerInv, LedgerInv', NEW p \in Polls, PollCommit(p)
    PROVE  [Outages!Next]_(Outages!ledger)
<1> USE DEF Outages!ledger
<1>1. /\ TypeOK /\ thr[p].pc = "loaded" /\ Intends(p)
      /\ UNCHANGED <<rule, lone>> /\ (Calm' <=> Calm)
  BY DEF LedgerInv, OutageInv, PollsIntend, PollCommit, Calm
<1>2. CASE UNCHANGED <<status, alerts>>
  BY <1>1, <1>2 DEF ActiveOffline, Of
<1>3. CASE ~UNCHANGED <<status, alerts>>
  <2>1. PICK f \in Placings(thr[p].open) : status' = Flush(p) /\ alerts' = Written(p, f)
    BY <1>3 DEF PollCommit
  <2>2. \A a \in Alerts : a \in ActiveOffline' <=>
            \/ a \in ActiveOffline /\ a \notin thr[p].close
            \/ "offline" \in thr[p].open /\ a = f["offline"]
    BY <1>1, <2>1, StandingWritten
  <2>3. \A a \in ActiveOffline : alerts[a].kind = "offline"
    BY DEF ActiveOffline, Of
  <2>4. /\ Calm => thr[p].seen = status
        /\ Calm' /\ status' # "offline" => ActiveOffline' = {}
        /\ Calm /\ status # "offline" => ActiveOffline = {}
    BY <1>1 DEF LedgerInv, OutageInv, Prepared, OutageHasOneAlert, Calm
  <2>5. CASE thr[p].new = thr[p].seen
    <3>1. status' = status /\ "offline" \notin thr[p].open
      BY <1>1, <2>1, <2>5 DEF Flush, Intends
    <3>2. ActiveOffline' = ActiveOffline
      BY <1>1, <2>2, <2>3, <2>5, <3>1, StandingRows DEF Intends
    <3> QED  BY <1>1, <3>1, <3>2
  <2>6. CASE thr[p].new # thr[p].seen /\ thr[p].new = "online"
    <3>1. status' = "online" /\ "offline" \notin thr[p].open
      BY <1>1, <2>1, <2>6 DEF Flush, Intends
    <3>2. ActiveOffline' \subseteq ActiveOffline
      BY <2>2, <3>1, StandingRows
    <3>3. Calm => status # "online" /\ ActiveOffline' = {}
      BY <1>1, <2>4, <2>6, <3>1
    <3>4. Outages!GoOnline
      BY <1>1, <3>1, <3>2, <3>3 DEF Outages!GoOnline, Calm
    <3> QED  BY <3>4 DEF Outages!Next
  <2>7. CASE thr[p].new # thr[p].seen /\ thr[p].new = "offline"
    <3>1. status' = "offline" /\ OfflineKind \in thr[p].open
          /\ (ActiveOffline \cap thr[p].close = {})
      BY <1>1, <2>1, <2>3, <2>7 DEF Flush, Intends
    <3>2. CASE "offline" \in thr[p].open
      <4>1. PICK a \in Free : a = f["offline"]
        BY <3>2 DEF Placings
      <4>2. a \in Alerts /\ a \notin ActiveOffline
        BY DEF Free, ActiveOffline, Of
      <4>3. ActiveOffline' = ActiveOffline \cup {a}
        BY <2>2, <3>1, <3>2, <4>1, <4>2, StandingRows
      <4>4. Calm => status # "offline" /\ ActiveOffline = {}
        BY <2>4, <2>7
      <4>5. Outages!GoOffline(a)
        BY <1>1, <3>1, <4>2, <4>3, <4>4 DEF Outages!GoOffline, Calm
      <4> QED  BY <4>2, <4>5 DEF Outages!Next
    <3>3. CASE "offline" \notin thr[p].open
      <4>1. ActiveOffline' = ActiveOffline
        BY <2>2, <3>1, <3>3, StandingRows
      <4>2. ~Calm'
        BY <1>1, <3>1, <3>3 DEF OfflineKind, Calm
      <4>3. Outages!Disturb
        BY <3>1, <4>1, <4>2 DEF Outages!Disturb, Status, Calm
      <4> QED  BY <4>3 DEF Outages!Next
    <3> QED  BY <3>2, <3>3
  <2> QED  BY <1>1, <2>5, <2>6, <2>7 DEF Intends
<1> QED  BY <1>2, <1>3

\* An operator takes away the alerts that he decides about, and makes none.
LEMMA DecideLedger ==
    ASSUME LedgerInv, NEW t \in Others, DecideCommit(t)
    PROVE  [Outages!Next]_(Outages!ledger)
<1> USE DEF Outages!ledger
<1>1. UNCHANGED <<rule, status, lone>> /\ thr[t].pc = "alert" /\ TypeOK
  BY DEF DecideCommit, LedgerInv, OutageInv
<1>2. thr[t].refresh \subseteq Alerts
  BY <1>1 DEF TypeOK, ThreadState
<1>3. CASE UNCHANGED alerts
  BY <1>1, <1>3 DEF ActiveOffline, Of
<1>4. CASE ~UNCHANGED alerts
  <2>1. \A a \in Alerts :
          alerts'[a] = IF a \in thr[t].refresh
                         THEN [alerts[a] EXCEPT !.status = thr[t].to,
                                                !.reopened = @ \/ thr[t].to = "active"]
                         ELSE alerts[a]
    BY <1>4 DEF DecideCommit
  <2>2. ASSUME NEW a \in thr[t].refresh PROVE a \notin ActiveOffline'
    <3>1. a \in Alerts /\ alerts[a] \in Alert
      BY <1>1, <1>2 DEF TypeOK
    <3>2. alerts'[a].status = thr[t].to
          /\ alerts'[a].reopened = (alerts[a].reopened \/ thr[t].to = "active")
      BY <2>1, <3>1 DEF Alert
    <3> QED  BY <3>2 DEF ActiveOffline, Of
  <2>3. ASSUME NEW a \in Alerts \ thr[t].refresh PROVE a \in ActiveOffline' <=> a \in ActiveOffline
    BY <2>1 DEF ActiveOffline, Of
  <2>4. ActiveOffline' = ActiveOffline \ thr[t].refresh
    BY <2>2, <2>3, StandingRows
  <2>5. Outages!Decide(thr[t].refresh)
    BY <1>1, <2>4 DEF Outages!Decide
  <2> QED  BY <1>2, <2>5 DEF Outages!Next
<1> QED  BY <1>3, <1>4

LEMMA LedgerStep == LedgerInv /\ LedgerInv' /\ [Next]_vars => [Outages!Next]_(Outages!ledger)
<1> SUFFICES ASSUME LedgerInv, LedgerInv', [Next]_vars PROVE [Outages!Next]_(Outages!ledger)
  OBVIOUS
<1>1. ASSUME UNCHANGED <<rule, status, alerts, lone>> PROVE UNCHANGED Outages!ledger
  BY <1>1 DEF Outages!ledger, ActiveOffline, Of
<1>2. ASSUME UNCHANGED <<rule, alerts>>, status' \in Status, ~lone'
      PROVE  Outages!Next
  <2>1. ActiveOffline' = ActiveOffline
    BY <1>2 DEF ActiveOffline, Of
  <2>2. Outages!Disturb
    BY <1>2, <2>1 DEF Outages!Disturb
  <2> QED  BY <2>2 DEF Outages!Next
<1>3. status \in Status /\ status' \in Status /\ lone \in BOOLEAN /\ TypeOK
  BY DEF LedgerInv, OutageInv, TypeOK
<1>4. ASSUME NEW p \in Polls, PollProbe(p) PROVE [Outages!Next]_(Outages!ledger)
  <2>1. CASE lone' = lone
    BY <1>1, <1>4, <2>1 DEF PollProbe
  <2>2. CASE lone' # lone
    BY <1>2, <1>3, <1>4, <2>2 DEF PollProbe
  <2> QED  BY <2>1, <2>2
<1>5. ASSUME NEW t \in Others, WriteCommit(t) PROVE [Outages!Next]_(Outages!ledger)
  <2>1. CASE thr[t].new = thr[t].seen
    BY <1>1, <1>3, <1>5, <2>1 DEF WriteCommit, Flush
  <2>2. CASE thr[t].new # thr[t].seen
    BY <1>2, <1>3, <1>5, <2>2 DEF WriteCommit
  <2> QED  BY <2>1, <2>2
<1>6. ASSUME NEW p \in Polls, PollCommit(p) PROVE [Outages!Next]_(Outages!ledger)
  BY <1>6, CommitLedger
<1>7. ASSUME NEW t \in Others, DecideCommit(t) PROVE [Outages!Next]_(Outages!ledger)
  BY <1>7, DecideLedger
<1> QED
  BY <1>1, <1>4, <1>5, <1>6, <1>7
     DEF Next, Poll, Other, PollLoad, PollRefused, WriteLoad, DecideLoad, Flip, Restart, vars

\* Every step of the program is a step of OutageLedger, or none: an offline alert
\* is raised or closed only by the poll that turns the status, one per outage
\* while only single polls write the status (_apply_device_status in
\* tasks/monitor.py:262-375).
THEOREM OutagesImplemented == Spec => OutageSpec
<1>1. Init => Outages!Init
  <2> SUFFICES ASSUME Init PROVE Outages!Init
    OBVIOUS
  <2>1. \A a \in Alerts : alerts[a].status = "none"
    BY DEF Init, Unused
  <2>2. ActiveOffline = {}
    BY <2>1 DEF ActiveOffline, Of
  <2> QED  BY <2>2 DEF Init, Outages!Init
<1> QED  BY AlwaysLedger, LedgerStep, <1>1, PTL DEF Spec, OutageSpec, Outages!Spec

\* OutageLedger's own promise, for the program: an outage has at most one alert
\* that stands, and without an outage none does.
THEOREM OneAlertStands == Spec => []Outages!OneStands
<1>1. Outages!Init => Outages!OneStands
  BY DEF Outages!Init, Outages!OneStands
<1>2. Outages!OneStands /\ [Outages!Next]_(Outages!ledger) => Outages!OneStands'
  <2> SUFFICES ASSUME Outages!OneStands, [Outages!Next]_(Outages!ledger) PROVE Outages!OneStands'
    OBVIOUS
  <2>1. CASE \E a \in Alerts : Outages!GoOffline(a)
    BY <2>1 DEF Outages!GoOffline, Outages!OneStands
  <2>2. CASE \E S \in SUBSET Alerts : Outages!Decide(S)
    BY <2>2 DEF Outages!Decide, Outages!OneStands
  <2>3. CASE Outages!GoOnline
    BY <2>3 DEF Outages!GoOnline, Outages!OneStands
  <2>4. CASE Outages!Disturb
    BY <2>4 DEF Outages!Disturb, Outages!OneStands
  <2>5. CASE UNCHANGED Outages!ledger
    BY <2>5 DEF Outages!ledger, Outages!OneStands
  <2> QED  BY <2>1, <2>2, <2>3, <2>4, <2>5 DEF Outages!Next
<1> QED  BY <1>1, <1>2, OutagesImplemented, PTL DEF OutageSpec, Outages!Spec
=============================================================================
