--------------------------- MODULE DiscoveryProofs ---------------------------
(***************************************************************************)
(* Proofs about Discovery, for any number of requests, executor threads    *)
(* and Events: type correctness; that a task in 'running' has somebody who *)
(* will take it out; that a registered Event has somebody who will remove  *)
(* it; that a stop is obeyed as long as runs do not overlap; and that no   *)
(* run forgets that it was told to stop.                                   *)
(***************************************************************************)
EXTENDS Discovery, TLAPS

-----------------------------------------------------------------------------
(* The inductive invariant                                                 *)

Starting == {"start", "register", "submit"}
Deciding == {"begin", "work", "check"}     \* a run that will look at its Event

\* Flags are those of Events that somebody holds.
EventsHeld ==
    /\ \A e \in isSet : e = reg \/ \E w \in Workers : wk[w].ev = e
    /\ \A w \in Workers : wk[w].pc \in {"idle", "load", "event", "finally"} => wk[w].ev = NoEvent
    /\ \A w \in Workers : wk[w].pc \in {"store", "begin"} => wk[w].ev \in Events

\* Outside a crowd there is one request and one start or run at a time.
OneAtATime ==
    watch # "crowded" =>
        /\ \A t, u \in Threads : thr[t] # "idle" /\ thr[u] # "idle" => t = u
        /\ \A t \in Threads : thr[t] \in Starting => queued = 0
        /\ \A t \in Threads, w \in Workers : thr[t] \in Starting => wk[w].pc = "idle"
        /\ queued <= 1
        /\ \A w \in Workers : queued > 0 => wk[w].pc = "idle"
        /\ \A v, w \in Workers : wk[v].pc # "idle" /\ wk[w].pc # "idle" => v = w

Signal  == reg # NoEvent /\ (reg \in isSet <=> watch = "halted")
Unheard == /\ reg = NoEvent /\ watch = "clear" /\ row # "running"
           /\ \A t \in Threads : thr[t] = "idle"

\* Outside a crowd the flag of the registered Event tells whether a stop was
\* sent, from the moment a stop can be sent at all.
FlagTellsStop ==
    watch # "crowded" =>
        /\ \A t \in Threads : thr[t] \in Starting => watch = "clear"
        /\ ~stale =>
              /\ \A t \in Threads : thr[t] = "submit" => Signal
              /\ queued > 0 => Signal
              /\ \A w \in Workers : wk[w].pc \in {"load", "event"} => Signal \/ Unheard
              /\ \A w \in Workers : wk[w].pc = "store" =>
                    \/ Signal /\ wk[w].ev = reg
                    \/ Unheard /\ wk[w].ev \notin isSet
              /\ \A w \in Workers : wk[w].pc \in Deciding => Signal /\ wk[w].ev = reg

IInv == /\ TypeOK /\ EventsHeld /\ OneAtATime /\ FlagTellsStop
        /\ RunningHasRun /\ EventHasRun

-----------------------------------------------------------------------------
(* Events and runs                                                         *)

LEMMA NewEventType ==
    Unheld # {} => NewEvent \in Events /\ NewEvent # NoEvent /\ NewEvent \notin Held
BY NamesAssumption DEF NewEvent, Unheld

LEMMA FreeType == Free \in Run /\ Free.pc = "idle" /\ Free.ev = NoEvent
BY DEF Free, Run, Place, Final

\* What a run that loads the row, and one that leaves, becomes.
LEMMA LoadWorkers ==
    ASSUME TypeOK, NEW w \in Workers, Load(w)
    PROVE  /\ wk' \in [Workers -> Run] /\ \A v \in Workers \ {w} : wk'[v] = wk[v]
           /\ row = "gone" => wk'[w] = Free
           /\ row # "gone" => wk'[w].pc = "event" /\ wk'[w].ev = wk[w].ev
<1> DEFINE s == IF row = "gone" THEN Free
                ELSE [wk[w] EXCEPT !.pc = "event", !.seen = Seen({"running"})]
<1>1. Seen({"running"}) \in {"running", "other"}
  BY DEF Seen
<1>2. s \in Run
  BY <1>1, FreeType DEF TypeOK, Run, Place
<1>3. wk' = [wk EXCEPT ![w] = s]
  BY DEF Load
<1>4. row # "gone" => s.pc = "event" /\ s.ev = wk[w].ev
  BY DEF TypeOK, Run
<1>5. row = "gone" => s = Free
  OBVIOUS
<1> HIDE DEF s
<1> QED  BY <1>2, <1>3, <1>4, <1>5 DEF TypeOK

LEMMA LeaveWorkers ==
    ASSUME TypeOK, NEW w \in Workers, NEW label \in Place, Leave(w, label)
    PROVE  /\ wk' \in [Workers -> Run] /\ \A v \in Workers \ {w} : wk'[v] = wk[v]
           /\ wk'[w].pc = label /\ wk'[w].ev = NoEvent /\ isSet' \subseteq isSet
<1> DEFINE s == [Free EXCEPT !.pc = label]
<1>1. s \in Run /\ s.pc = label /\ s.ev = NoEvent
  BY FreeType DEF Run
<1>2. wk' = [wk EXCEPT ![w] = s] /\ isSet' \subseteq isSet
  BY DEF Leave
<1> HIDE DEF s
<1> QED  BY <1>1, <1>2 DEF TypeOK

LEMMA TypeStep ==
    ASSUME TypeOK, [Next]_vars
    PROVE  TypeOK'
<1> USE DEF TypeOK, Status, Request, Run, Place, Final, Workers
<1>1. ASSUME NEW t \in Threads, StartLoad(t) PROVE TypeOK'
  BY <1>1 DEF StartLoad, To
<1>2. ASSUME NEW t \in Threads, StartCommit(t) PROVE TypeOK'
  BY <1>2 DEF StartCommit, To, Write
<1>3. ASSUME NEW t \in Threads, Register(t) PROVE TypeOK'
  BY <1>3, NewEventType DEF Register, To
<1>4. ASSUME NEW t \in Threads, RegisterFails(t) PROVE TypeOK'
  BY <1>4 DEF RegisterFails, To
<1>5. ASSUME NEW t \in Threads, Submit(t) PROVE TypeOK'
  BY <1>5 DEF Submit, To
<1>6. ASSUME NEW t \in Threads, StopLoad(t) PROVE TypeOK'
  BY <1>6 DEF StopLoad, To
<1>7. ASSUME NEW t \in Threads, StopSignal(t) PROVE TypeOK'
  BY <1>7 DEF StopSignal, To
<1>8. ASSUME NEW t \in Threads, StopCommit(t) PROVE TypeOK'
  BY <1>8 DEF StopCommit, To, Write
<1>9. ASSUME NEW t \in Threads, Delete(t) PROVE TypeOK'
  BY <1>9 DEF Delete, Write
<1>10. ASSUME Fire PROVE TypeOK'
  BY <1>10 DEF Fire, Goto
<1>11. ASSUME NEW w \in Workers, Take(w) PROVE TypeOK'
  BY <1>11 DEF Take, Goto
<1>12. ASSUME NEW w \in Workers, Load(w) PROVE TypeOK'
  BY <1>12, LoadWorkers DEF Load, TypeOK
<1>13. ASSUME NEW w \in Workers, GetEvent(w) PROVE TypeOK'
  BY <1>13, NewEventType DEF GetEvent
<1>14. ASSUME NEW w \in Workers, StoreEvent(w) PROVE TypeOK'
  BY <1>14 DEF StoreEvent, Goto
<1>15. ASSUME NEW w \in Workers, Begin(w) PROVE TypeOK'
  BY <1>15 DEF Begin, Write
<1>16. ASSUME NEW w \in Workers, SaveFails(w) PROVE TypeOK'
  BY <1>16 DEF SaveFails, Seen
<1>17. ASSUME NEW w \in Workers, GiveUp(w) PROVE TypeOK'
  BY <1>17 DEF GiveUp, Write
<1>18. ASSUME NEW w \in Workers, Check(w) PROVE TypeOK'
  BY <1>18 DEF Check
<1>19. ASSUME NEW w \in Workers, Raise(w) PROVE TypeOK'
  BY <1>19 DEF Raise
<1>20. ASSUME NEW w \in Workers, Finish(w) PROVE TypeOK'
  BY <1>20 DEF Finish, Leave, Write, Free
<1>21. ASSUME NEW w \in Workers, Breaks(w) PROVE TypeOK'
  <2>1. PICK label \in {"idle", "finally"} : Leave(w, label)
    BY <1>21 DEF Breaks
  <2>2. wk' \in [Workers -> Run] /\ isSet' \subseteq isSet
    BY <2>1, LeaveWorkers DEF Place
  <2>3. stale' \in BOOLEAN /\ stranded' \in BOOLEAN
    BY <1>21 DEF Breaks, TypeOK
  <2> QED  BY <1>21, <2>2, <2>3 DEF Breaks, TypeOK
<1>22. ASSUME NEW w \in Workers, Finally(w) PROVE TypeOK'
  BY <1>22 DEF Finally, Free
<1>23. ASSUME Crash PROVE TypeOK'
  BY <1>23 DEF Crash, Free
<1>24. CASE UNCHANGED vars
  BY <1>24 DEF vars
<1> QED  BY <1>1, <1>2, <1>3, <1>4, <1>5, <1>6, <1>7, <1>8, <1>9, <1>10, <1>11, <1>12,
             <1>13, <1>14, <1>15, <1>16, <1>17, <1>18, <1>19, <1>20, <1>21, <1>22, <1>23, <1>24 DEF
             Next, RequestStep, Ends

LEMMA HeldStep ==
    ASSUME TypeOK, EventsHeld, [Next]_vars
    PROVE  EventsHeld'
<1> USE DEF EventsHeld, TypeOK, Held, Unheld, NewEvent, Run, Workers, Place
<1>1. ASSUME NEW t \in Threads, StartLoad(t) PROVE EventsHeld'
  BY <1>1 DEF StartLoad, To
<1>2. ASSUME NEW t \in Threads, StartCommit(t) PROVE EventsHeld'
  BY <1>2 DEF StartCommit, To, Write
<1>3. ASSUME NEW t \in Threads, Register(t) PROVE EventsHeld'
  BY <1>3 DEF Register, To
<1>4. ASSUME NEW t \in Threads, RegisterFails(t) PROVE EventsHeld'
  BY <1>4 DEF RegisterFails, To
<1>5. ASSUME NEW t \in Threads, Submit(t) PROVE EventsHeld'
  BY <1>5 DEF Submit, To
<1>6. ASSUME NEW t \in Threads, StopLoad(t) PROVE EventsHeld'
  BY <1>6 DEF StopLoad, To
<1>7. ASSUME NEW t \in Threads, StopSignal(t) PROVE EventsHeld'
  BY <1>7 DEF StopSignal, To
<1>8. ASSUME NEW t \in Threads, StopCommit(t) PROVE EventsHeld'
  BY <1>8 DEF StopCommit, To, Write
<1>9. ASSUME NEW t \in Threads, Delete(t) PROVE EventsHeld'
  BY <1>9 DEF Delete, Write
<1>10. ASSUME Fire PROVE EventsHeld'
  BY <1>10 DEF Fire, Goto
<1>11. ASSUME NEW w \in Workers, Take(w) PROVE EventsHeld'
  BY <1>11 DEF Take, Goto
<1>12. ASSUME NEW w \in Workers, Load(w) PROVE EventsHeld'
  BY <1>12 DEF Load, Seen, Free
<1>13. ASSUME NEW w \in Workers, GetEvent(w) PROVE EventsHeld'
  BY <1>13 DEF GetEvent
<1>14. ASSUME NEW w \in Workers, StoreEvent(w) PROVE EventsHeld'
  BY <1>14 DEF StoreEvent, Goto
<1>15. ASSUME NEW w \in Workers, Begin(w) PROVE EventsHeld'
  BY <1>15 DEF Begin, Write
<1>16. ASSUME NEW w \in Workers, SaveFails(w) PROVE EventsHeld'
  BY <1>16 DEF SaveFails, Seen
<1>17. ASSUME NEW w \in Workers, GiveUp(w) PROVE EventsHeld'
  BY <1>17 DEF GiveUp, Write
<1>18. ASSUME NEW w \in Workers, Check(w) PROVE EventsHeld'
  BY <1>18 DEF Check
<1>19. ASSUME NEW w \in Workers, Raise(w) PROVE EventsHeld'
  BY <1>19 DEF Raise
<1>20. ASSUME NEW w \in Workers, Finish(w) PROVE EventsHeld'
  BY <1>20 DEF Finish, Leave, Write, Free
<1>21. ASSUME NEW w \in Workers, Breaks(w) PROVE EventsHeld'
  BY <1>21 DEF Breaks, Leave, Free
<1>22. ASSUME NEW w \in Workers, Finally(w) PROVE EventsHeld'
  BY <1>22 DEF Finally, Free
<1>23. ASSUME Crash PROVE EventsHeld'
  BY <1>23 DEF Crash, Free
<1>24. CASE UNCHANGED vars
  BY <1>24 DEF vars
<1> QED  BY <1>1, <1>2, <1>3, <1>4, <1>5, <1>6, <1>7, <1>8, <1>9, <1>10, <1>11, <1>12,
             <1>13, <1>14, <1>15, <1>16, <1>17, <1>18, <1>19, <1>20, <1>21, <1>22, <1>23, <1>24 DEF
             Next, RequestStep, Ends

LEMMA RunningStep ==
    ASSUME TypeOK, RunningHasRun, [Next]_vars
    PROVE  RunningHasRun'
<1> USE DEF RunningHasRun, TypeOK, Responsible, Run, Workers, Final
<1>1. ASSUME NEW t \in Threads, StartLoad(t) PROVE RunningHasRun'
  BY <1>1 DEF StartLoad, To
<1>2. ASSUME NEW t \in Threads, StartCommit(t) PROVE RunningHasRun'
  BY <1>2 DEF StartCommit, To, Write
<1>3. ASSUME NEW t \in Threads, Register(t) PROVE RunningHasRun'
  BY <1>3 DEF Register, To
<1>4. ASSUME NEW t \in Threads, RegisterFails(t) PROVE RunningHasRun'
  BY <1>4 DEF RegisterFails, To
<1>5. ASSUME NEW t \in Threads, Submit(t) PROVE RunningHasRun'
  BY <1>5 DEF Submit, To
<1>6. ASSUME NEW t \in Threads, StopLoad(t) PROVE RunningHasRun'
  BY <1>6 DEF StopLoad, To
<1>7. ASSUME NEW t \in Threads, StopSignal(t) PROVE RunningHasRun'
  BY <1>7 DEF StopSignal, To
<1>8. ASSUME NEW t \in Threads, StopCommit(t) PROVE RunningHasRun'
  BY <1>8 DEF StopCommit, To, Write
<1>9. ASSUME NEW t \in Threads, Delete(t) PROVE RunningHasRun'
  BY <1>9 DEF Delete, Write
<1>10. ASSUME Fire PROVE RunningHasRun'
  BY <1>10 DEF Fire, Goto
<1>11. ASSUME NEW w \in Workers, Take(w) PROVE RunningHasRun'
  BY <1>11 DEF Take, Goto
<1>12. ASSUME NEW w \in Workers, Load(w) PROVE RunningHasRun'
  BY <1>12 DEF Load, Seen, Free
<1>13. ASSUME NEW w \in Workers, GetEvent(w) PROVE RunningHasRun'
  BY <1>13 DEF GetEvent
<1>14. ASSUME NEW w \in Workers, StoreEvent(w) PROVE RunningHasRun'
  BY <1>14 DEF StoreEvent, Goto
<1>15. ASSUME NEW w \in Workers, Begin(w) PROVE RunningHasRun'
  BY <1>15 DEF Begin, Write
<1>16. ASSUME NEW w \in Workers, SaveFails(w) PROVE RunningHasRun'
  BY <1>16 DEF SaveFails, Seen
<1>17. ASSUME NEW w \in Workers, GiveUp(w) PROVE RunningHasRun'
  BY <1>17 DEF GiveUp, Write
<1>18. ASSUME NEW w \in Workers, Check(w) PROVE RunningHasRun'
  BY <1>18 DEF Check
<1>19. ASSUME NEW w \in Workers, Raise(w) PROVE RunningHasRun'
  BY <1>19 DEF Raise
<1>20. ASSUME NEW w \in Workers, Finish(w) PROVE RunningHasRun'
  BY <1>20 DEF Finish, Leave, Write, Free
<1>21. ASSUME NEW w \in Workers, Breaks(w) PROVE RunningHasRun'
  BY <1>21 DEF Breaks, Leave, Free
<1>22. ASSUME NEW w \in Workers, Finally(w) PROVE RunningHasRun'
  BY <1>22 DEF Finally, Free
<1>23. ASSUME Crash PROVE RunningHasRun'
  BY <1>23 DEF Crash, Free
<1>24. CASE UNCHANGED vars
  BY <1>24 DEF vars
<1> QED  BY <1>1, <1>2, <1>3, <1>4, <1>5, <1>6, <1>7, <1>8, <1>9, <1>10, <1>11, <1>12,
             <1>13, <1>14, <1>15, <1>16, <1>17, <1>18, <1>19, <1>20, <1>21, <1>22, <1>23, <1>24 DEF
             Next, RequestStep, Ends

LEMMA EventStep ==
    ASSUME TypeOK, EventHasRun, [Next]_vars
    PROVE  EventHasRun'
<1> USE DEF EventHasRun, TypeOK, Run, Workers
<1>1. ASSUME NEW t \in Threads, StartLoad(t) PROVE EventHasRun'
  BY <1>1 DEF StartLoad, To
<1>2. ASSUME NEW t \in Threads, StartCommit(t) PROVE EventHasRun'
  BY <1>2 DEF StartCommit, To, Write
<1>3. ASSUME NEW t \in Threads, Register(t) PROVE EventHasRun'
  BY <1>3 DEF Register, To
<1>4. ASSUME NEW t \in Threads, RegisterFails(t) PROVE EventHasRun'
  BY <1>4 DEF RegisterFails, To
<1>5. ASSUME NEW t \in Threads, Submit(t) PROVE EventHasRun'
  BY <1>5 DEF Submit, To
<1>6. ASSUME NEW t \in Threads, StopLoad(t) PROVE EventHasRun'
  BY <1>6 DEF StopLoad, To
<1>7. ASSUME NEW t \in Threads, StopSignal(t) PROVE EventHasRun'
  BY <1>7 DEF StopSignal, To
<1>8. ASSUME NEW t \in Threads, StopCommit(t) PROVE EventHasRun'
  BY <1>8 DEF StopCommit, To, Write
<1>9. ASSUME NEW t \in Threads, Delete(t) PROVE EventHasRun'
  BY <1>9 DEF Delete, Write
<1>10. ASSUME Fire PROVE EventHasRun'
  BY <1>10 DEF Fire, Goto
<1>11. ASSUME NEW w \in Workers, Take(w) PROVE EventHasRun'
  BY <1>11 DEF Take, Goto
<1>12. ASSUME NEW w \in Workers, Load(w) PROVE EventHasRun'
  <2>1. CASE row = "gone"
    BY <1>12, <2>1 DEF Load, EventHasRun, TypeOK
  <2>2. CASE row # "gone"
    <3>1. wk'[w].pc = "event" /\ \A v \in Workers \ {w} : wk'[v] = wk[v]
      BY <1>12, <2>2, LoadWorkers
    <3> QED  BY <3>1 DEF EventHasRun
  <2> QED  BY <2>1, <2>2
<1>13. ASSUME NEW w \in Workers, GetEvent(w) PROVE EventHasRun'
  BY <1>13 DEF GetEvent
<1>14. ASSUME NEW w \in Workers, StoreEvent(w) PROVE EventHasRun'
  BY <1>14 DEF StoreEvent, Goto
<1>15. ASSUME NEW w \in Workers, Begin(w) PROVE EventHasRun'
  BY <1>15 DEF Begin, Write
<1>16. ASSUME NEW w \in Workers, SaveFails(w) PROVE EventHasRun'
  BY <1>16 DEF SaveFails, Seen
<1>17. ASSUME NEW w \in Workers, GiveUp(w) PROVE EventHasRun'
  BY <1>17 DEF GiveUp, Write
<1>18. ASSUME NEW w \in Workers, Check(w) PROVE EventHasRun'
  BY <1>18 DEF Check
<1>19. ASSUME NEW w \in Workers, Raise(w) PROVE EventHasRun'
  BY <1>19 DEF Raise
<1>20. ASSUME NEW w \in Workers, Finish(w) PROVE EventHasRun'
  BY <1>20 DEF Finish, Leave, Write, Free
<1>21. ASSUME NEW w \in Workers, Breaks(w) PROVE EventHasRun'
  <2>1. CASE stale' = (reg # NoEvent)
    BY <1>21, <2>1 DEF Breaks
  <2>2. CASE Leave(w, "finally")
    <3>1. wk'[w].pc = "finally"
      BY <2>2, LeaveWorkers DEF Place
    <3> QED  BY <3>1
  <2> QED  BY <1>21, <2>1, <2>2 DEF Breaks
<1>22. ASSUME NEW w \in Workers, Finally(w) PROVE EventHasRun'
  BY <1>22 DEF Finally, Free
<1>23. ASSUME Crash PROVE EventHasRun'
  BY <1>23 DEF Crash, Free
<1>24. CASE UNCHANGED vars
  BY <1>24 DEF vars
<1> QED  BY <1>1, <1>2, <1>3, <1>4, <1>5, <1>6, <1>7, <1>8, <1>9, <1>10, <1>11, <1>12,
             <1>13, <1>14, <1>15, <1>16, <1>17, <1>18, <1>19, <1>20, <1>21, <1>22, <1>23, <1>24 DEF
             Next, RequestStep, Ends

LEMMA OneStep ==
    ASSUME TypeOK, OneAtATime, [Next]_vars
    PROVE  OneAtATime'
<1> USE DEF OneAtATime, TypeOK, Starting, Busy, Asking, Active, Run, Workers
<1>1. ASSUME NEW t \in Threads, StartLoad(t) PROVE OneAtATime'
  BY <1>1 DEF StartLoad, To
<1>2. ASSUME NEW t \in Threads, StartCommit(t) PROVE OneAtATime'
  BY <1>2 DEF StartCommit, To, Write
<1>3. ASSUME NEW t \in Threads, Register(t) PROVE OneAtATime'
  BY <1>3 DEF Register, To
<1>4. ASSUME NEW t \in Threads, RegisterFails(t) PROVE OneAtATime'
  BY <1>4 DEF RegisterFails, To
<1>5. ASSUME NEW t \in Threads, Submit(t) PROVE OneAtATime'
  BY <1>5 DEF Submit, To
<1>6. ASSUME NEW t \in Threads, StopLoad(t) PROVE OneAtATime'
  BY <1>6 DEF StopLoad, To
<1>7. ASSUME NEW t \in Threads, StopSignal(t) PROVE OneAtATime'
  BY <1>7 DEF StopSignal, To
<1>8. ASSUME NEW t \in Threads, StopCommit(t) PROVE OneAtATime'
  BY <1>8 DEF StopCommit, To, Write
<1>9. ASSUME NEW t \in Threads, Delete(t) PROVE OneAtATime'
  BY <1>9 DEF Delete, Write
<1>10. ASSUME Fire PROVE OneAtATime'
  BY <1>10 DEF Fire, Goto
<1>11. ASSUME NEW w \in Workers, Take(w) PROVE OneAtATime'
  BY <1>11 DEF Take, Goto
<1>12. ASSUME NEW w \in Workers, Load(w) PROVE OneAtATime'
  BY <1>12 DEF Load, Seen, Free
<1>13. ASSUME NEW w \in Workers, GetEvent(w) PROVE OneAtATime'
  BY <1>13 DEF GetEvent
<1>14. ASSUME NEW w \in Workers, StoreEvent(w) PROVE OneAtATime'
  BY <1>14 DEF StoreEvent, Goto
<1>15. ASSUME NEW w \in Workers, Begin(w) PROVE OneAtATime'
  BY <1>15 DEF Begin, Write
<1>16. ASSUME NEW w \in Workers, SaveFails(w) PROVE OneAtATime'
  BY <1>16 DEF SaveFails, Seen
<1>17. ASSUME NEW w \in Workers, GiveUp(w) PROVE OneAtATime'
  BY <1>17 DEF GiveUp, Write
<1>18. ASSUME NEW w \in Workers, Check(w) PROVE OneAtATime'
  BY <1>18 DEF Check
<1>19. ASSUME NEW w \in Workers, Raise(w) PROVE OneAtATime'
  BY <1>19 DEF Raise
<1>20. ASSUME NEW w \in Workers, Finish(w) PROVE OneAtATime'
  BY <1>20 DEF Finish, Leave, Write, Free
<1>21. ASSUME NEW w \in Workers, Breaks(w) PROVE OneAtATime'
  BY <1>21 DEF Breaks, Leave, Free
<1>22. ASSUME NEW w \in Workers, Finally(w) PROVE OneAtATime'
  BY <1>22 DEF Finally, Free
<1>23. ASSUME Crash PROVE OneAtATime'
  BY <1>23 DEF Crash, Free
<1>24. CASE UNCHANGED vars
  BY <1>24 DEF vars
<1> QED  BY <1>1, <1>2, <1>3, <1>4, <1>5, <1>6, <1>7, <1>8, <1>9, <1>10, <1>11, <1>12,
             <1>13, <1>14, <1>15, <1>16, <1>17, <1>18, <1>19, <1>20, <1>21, <1>22, <1>23, <1>24 DEF
             Next, RequestStep, Ends

LEMMA FlagStep ==
    ASSUME IInv, [Next]_vars
    PROVE  FlagTellsStop'
<1> USE DEF IInv, TypeOK, FlagTellsStop, Signal, Unheard, OneAtATime, Starting,
          Deciding, Run, Workers
<1>1. ASSUME NEW t \in Threads, StartLoad(t) PROVE FlagTellsStop'
  <2>1. watch' # "crowded" => /\ watch' = "clear" /\ \A u \in Threads : thr[u] = "idle"
                              /\ queued' = 0 /\ \A w \in Workers : wk'[w].pc = "idle"
    BY <1>1 DEF StartLoad, Busy, Asking, Active, IInv, TypeOK
  <2>2. \A u \in Threads : thr'[u] = IF u = t THEN "start" ELSE thr[u]
    BY <1>1 DEF StartLoad, To, IInv, TypeOK
  <2> QED  BY <2>1, <2>2 DEF FlagTellsStop, Starting, Deciding
<1>2. ASSUME NEW t \in Threads, StartCommit(t) PROVE FlagTellsStop'
  BY <1>2 DEF StartCommit, To, Write
<1>3. ASSUME NEW t \in Threads, Register(t) PROVE FlagTellsStop'
  <2> SUFFICES ASSUME watch # "crowded"
               PROVE  FlagTellsStop'
    BY <1>3 DEF Register, FlagTellsStop
  <2>1. /\ thr[t] = "register" /\ reg' = NewEvent /\ reg' # NoEvent /\ isSet' = isSet \cap Held
        /\ NewEvent \notin Held /\ UNCHANGED <<row, queued, wk, watch>>
    BY <1>3, NewEventType DEF Register
  <2>2. \A u \in Threads : thr'[u] = IF u = t THEN "submit" ELSE thr[u]
    BY <1>3 DEF Register, To, IInv, TypeOK
  <2>3. watch = "clear" /\ queued = 0 /\ \A w \in Workers : wk[w].pc = "idle"
    BY <2>1 DEF IInv, FlagTellsStop, OneAtATime, Starting
  <2>4. Signal'
    BY <2>1, <2>3 DEF Signal
  <2>5. \A u \in Threads : thr'[u] # "idle" => watch' = "clear"
    BY <2>1, <2>3
  <2> QED  BY <2>1, <2>3, <2>4, <2>5 DEF FlagTellsStop, Signal, Starting, Deciding
<1>4. ASSUME NEW t \in Threads, RegisterFails(t) PROVE FlagTellsStop'
  BY <1>4 DEF RegisterFails, To
<1>5. ASSUME NEW t \in Threads, Submit(t) PROVE FlagTellsStop'
  BY <1>5 DEF Submit, To
<1>6. ASSUME NEW t \in Threads, StopLoad(t) PROVE FlagTellsStop'
  BY <1>6 DEF StopLoad, To
<1>7. ASSUME NEW t \in Threads, StopSignal(t) PROVE FlagTellsStop'
  BY <1>7 DEF StopSignal, To
<1>8. ASSUME NEW t \in Threads, StopCommit(t) PROVE FlagTellsStop'
  BY <1>8 DEF StopCommit, To, Write
<1>9. ASSUME NEW t \in Threads, Delete(t) PROVE FlagTellsStop'
  BY <1>9 DEF Delete, Write
<1>10. ASSUME Fire PROVE FlagTellsStop'
  <2> SUFFICES ASSUME watch' # "crowded"
               PROVE  FlagTellsStop'
    BY DEF FlagTellsStop
  <2>1. /\ watch' = "clear" /\ row # "running" /\ queued = 0
        /\ \A t \in Threads : thr[t] = "idle"
        /\ \A w \in Workers : wk[w].pc = "idle"
    BY <1>10 DEF Fire, Busy, Asking, Active, IInv, TypeOK
  <2>2. ~stale => reg = NoEvent
    BY <2>1 DEF IInv, EventHasRun
  <2>3. UNCHANGED <<row, reg, isSet, queued, thr, stale>>
    BY <1>10 DEF Fire
  <2>4. \A w \in Workers : wk'[w].pc \in {"idle", "load"}
    BY <1>10, <2>1 DEF Fire, Goto, IInv, TypeOK, Run
  <2>5. ~stale' => Unheard'
    BY <2>1, <2>2, <2>3 DEF Unheard
  <2> QED  BY <2>1, <2>3, <2>4, <2>5 DEF FlagTellsStop, Signal, Unheard, Starting, Deciding
<1>11. ASSUME NEW w \in Workers, Take(w) PROVE FlagTellsStop'
  BY <1>11 DEF Take, Goto
<1>12. ASSUME NEW w \in Workers, Load(w) PROVE FlagTellsStop'
  BY <1>12 DEF Load, Seen, Free
<1>13. ASSUME NEW w \in Workers, GetEvent(w) PROVE FlagTellsStop'
  <2> SUFFICES ASSUME watch # "crowded"
               PROVE  FlagTellsStop'
    BY <1>13 DEF GetEvent, FlagTellsStop
  <2>1. /\ wk[w].pc = "event" /\ UNCHANGED <<row, reg, isSet, queued, thr, stale, watch>>
        /\ wk'[w].pc = "store" /\ wk'[w].ev = IF reg # NoEvent THEN reg ELSE NewEvent
        /\ \A v \in Workers \ {w} : wk'[v] = wk[v]
    BY <1>13 DEF GetEvent, IInv, TypeOK, Run
  <2>2. \A v \in Workers \ {w} : wk[v].pc = "idle"
    BY <2>1 DEF IInv, OneAtATime
  <2>3. queued = 0 /\ \A t \in Threads : thr[t] \notin Starting
    BY <2>1 DEF IInv, OneAtATime, TypeOK
  <2>4. reg = NoEvent => NewEvent \notin isSet
    BY <1>13, NewEventType DEF GetEvent, IInv, EventsHeld, Held
  <2>5. ~stale => Signal \/ Unheard
    BY <2>1 DEF IInv, FlagTellsStop
  <2>6. ~stale => (Signal /\ wk'[w].ev = reg) \/ (Unheard /\ wk'[w].ev \notin isSet)
    BY <2>1, <2>4, <2>5 DEF Signal, Unheard
  <2>7. Signal' = Signal /\ Unheard' = Unheard
    BY <2>1 DEF Signal, Unheard
  <2> QED  BY <2>1, <2>2, <2>3, <2>6, <2>7 DEF FlagTellsStop, Starting, Deciding
<1>14. ASSUME NEW w \in Workers, StoreEvent(w) PROVE FlagTellsStop'
  <2> SUFFICES ASSUME watch # "crowded"
               PROVE  FlagTellsStop'
    BY <1>14 DEF StoreEvent, FlagTellsStop
  <2>1. /\ wk[w].pc = "store" /\ UNCHANGED <<row, queued, thr, stale, watch>>
        /\ wk'[w].pc = "begin" /\ wk'[w].ev = wk[w].ev
        /\ reg' = wk[w].ev /\ isSet' = isSet \cap Held
        /\ \A v \in Workers \ {w} : wk'[v] = wk[v]
    BY <1>14 DEF StoreEvent, Goto, IInv, TypeOK, Run
  <2>2. \A v \in Workers \ {w} : wk[v].pc = "idle"
    BY <2>1 DEF IInv, OneAtATime
  <2>3. queued = 0 /\ \A t \in Threads : thr[t] \notin Starting
    BY <2>1 DEF IInv, OneAtATime, TypeOK
  <2>4. wk[w].ev \in Held /\ wk[w].ev # NoEvent
    BY <2>1, NamesAssumption DEF IInv, EventsHeld, Held
  <2>5. ~stale => (Signal /\ wk[w].ev = reg) \/ (Unheard /\ wk[w].ev \notin isSet)
    BY <2>1 DEF IInv, FlagTellsStop
  <2>6. ~stale => Signal'
    BY <2>1, <2>4, <2>5 DEF Signal, Unheard
  <2> QED  BY <2>1, <2>2, <2>3, <2>6 DEF FlagTellsStop, Signal, Starting, Deciding
<1>15. ASSUME NEW w \in Workers, Begin(w) PROVE FlagTellsStop'
  BY <1>15 DEF Begin, Write
<1>16. ASSUME NEW w \in Workers, SaveFails(w) PROVE FlagTellsStop'
  BY <1>16 DEF SaveFails, Seen
<1>17. ASSUME NEW w \in Workers, GiveUp(w) PROVE FlagTellsStop'
  BY <1>17 DEF GiveUp, Write
<1>18. ASSUME NEW w \in Workers, Check(w) PROVE FlagTellsStop'
  BY <1>18 DEF Check
<1>19. ASSUME NEW w \in Workers, Raise(w) PROVE FlagTellsStop'
  BY <1>19 DEF Raise
<1>20. ASSUME NEW w \in Workers, Finish(w) PROVE FlagTellsStop'
  BY <1>20 DEF Finish, Leave, Write, Free
<1>21. ASSUME NEW w \in Workers, Breaks(w) PROVE FlagTellsStop'
  BY <1>21 DEF Breaks, Leave, Free
<1>22. ASSUME NEW w \in Workers, Finally(w) PROVE FlagTellsStop'
  BY <1>22 DEF Finally, Free
<1>23. ASSUME Crash PROVE FlagTellsStop'
  BY <1>23 DEF Crash, Free
<1>24. CASE UNCHANGED vars
  BY <1>24 DEF vars
<1> QED  BY <1>1, <1>2, <1>3, <1>4, <1>5, <1>6, <1>7, <1>8, <1>9, <1>10, <1>11, <1>12,
             <1>13, <1>14, <1>15, <1>16, <1>17, <1>18, <1>19, <1>20, <1>21, <1>22, <1>23, <1>24 DEF
             Next, RequestStep, Ends

LEMMA InitIInv == Init => IInv
<1> SUFFICES ASSUME Init PROVE IInv
  OBVIOUS
<1>1. \A w \in Workers : wk[w] = Free
  BY DEF Init
<1>2. TypeOK
  BY FreeType DEF Init, TypeOK, Status, Request
<1>3. EventsHeld /\ OneAtATime /\ FlagTellsStop
  BY <1>1, FreeType DEF Init, EventsHeld, OneAtATime, FlagTellsStop, Starting, Deciding
<1>4. RunningHasRun /\ EventHasRun
  BY DEF Init, RunningHasRun, EventHasRun
<1> QED  BY <1>2, <1>3, <1>4 DEF IInv

LEMMA NextIInv == IInv /\ [Next]_vars => IInv'
BY TypeStep, HeldStep, OneStep, FlagStep, RunningStep, EventStep DEF IInv

LEMMA Invariant == Spec => []IInv
BY InitIInv, NextIInv, PTL DEF Spec

\* The status with which a run ends is chosen by Check and by Raise only.
LEMMA FinalStatus ==
    ASSUME IInv, [Next]_vars, watch # "crowded", ~stale,
           NEW w \in Workers, wk[w].pc # "commit", wk'[w].pc = "commit"
    PROVE  wk'[w].final \in {"failed", IF watch = "halted" THEN "paused" ELSE "completed"}
<1>1. CASE \E v \in Workers : Check(v)
  <2>1. PICK v \in Workers : Check(v)
    BY <1>1
  <2>2. v = w /\ wk[w].pc \in Deciding
        /\ wk'[w].final = IF wk[w].ev \in isSet THEN "paused" ELSE "completed"
    BY <2>1 DEF Check, IInv, TypeOK, Run, Deciding
  <2>3. wk[w].ev \in isSet <=> watch = "halted"
    BY <2>2 DEF IInv, FlagTellsStop, Signal
  <2> QED  BY <2>2, <2>3
<1>2. CASE \E v \in Workers : Raise(v)
  BY <1>2 DEF Raise, IInv, TypeOK, Run
<1>3. CASE \E t \in Threads : \/ StartLoad(t) \/ StopLoad(t) \/ Delete(t) \/ RequestStep(t)
  BY <1>3 DEF StartLoad, StopLoad, Delete, RequestStep, StartCommit, Register, RegisterFails,
              Submit, StopSignal, StopCommit
<1>4. CASE \E v \in Workers : Load(v)
  <2>1. PICK v \in Workers : Load(v)
    BY <1>4
  <2>2. wk'[v].pc \in {"idle", "event"} /\ \A u \in Workers \ {v} : wk'[u] = wk[u]
    BY <2>1, LoadWorkers, FreeType DEF IInv
  <2> QED  BY <2>2
<1>5. CASE \E v \in Workers : Finish(v) \/ Breaks(v)
  <2>1. PICK v \in Workers, label \in {"idle", "finally"} : Leave(v, label)
    BY <1>5 DEF Finish, Breaks
  <2>2. wk'[v].pc = label /\ \A u \in Workers \ {v} : wk'[u] = wk[u]
    BY <2>1, LeaveWorkers DEF IInv, Place
  <2> QED  BY <2>2
<1>6. CASE Fire \/ \E v \in Workers : \/ Take(v) \/ StoreEvent(v)
  BY <1>6 DEF Fire, Take, StoreEvent, Goto, IInv, TypeOK, Run
<1>7. CASE \E v \in Workers : GetEvent(v) \/ Begin(v) \/ SaveFails(v) \/ GiveUp(v) \/ Finally(v)
  BY <1>7, FreeType DEF GetEvent, Begin, SaveFails, GiveUp, Finally, IInv, TypeOK, Run
<1>8. CASE Crash \/ UNCHANGED vars
  BY <1>8, FreeType DEF Crash, vars
<1> QED  BY <1>1, <1>2, <1>3, <1>4, <1>5, <1>6, <1>7, <1>8 DEF Next, Ends

-----------------------------------------------------------------------------
\* The row, the registry of Events, requests and runs stay in their types; a
\* status is always one that the rest of the application knows.
THEOREM DiscoveryTypeCorrect == Spec => []TypeOK
<1>1. IInv => TypeOK
  BY DEF IInv
<1> QED  BY Invariant, <1>1, PTL

\* Unless a crash or a failed query has cut it off, a task in 'running' always
\* has a request, a queued run or a run that will take it out, however many of
\* them stop, delete and run it at once (topology.py:5735-5800, 3150-3207).
THEOREM RunningTaskIsOwned == Spec => []RunningHasRun
<1>1. IInv => RunningHasRun
  BY DEF IInv
<1> QED  BY Invariant, <1>1, PTL

\* The Event of a run that is over does not stay in stop_events to stop a later
\* one, unless a query failed in front of the try of background_discovery.
THEOREM EventIsRemoved == Spec => []EventHasRun
<1>1. IInv => EventHasRun
  BY DEF IInv
<1> QED  BY Invariant, <1>1, PTL

\* A stop that was asked for since a run was started ends it 'paused', and no
\* other run ends so, as long as starts and stops do not overlap.
THEOREM StopObeyed == Spec => StopIsObeyed
<1>1. IInv /\ [Next]_vars =>
        [watch # "crowded" /\ ~stale =>
           \A w \in Workers : wk[w].pc # "commit" /\ wk'[w].pc = "commit"
             => wk'[w].final \in {"failed", IF watch = "halted" THEN "paused" ELSE "completed"}]_vars
  BY FinalStatus
<1> QED  BY Invariant, <1>1, PTL DEF Spec, StopIsObeyed

-----------------------------------------------------------------------------
\* The flag of an Event that some run holds is not lost.
LEMMA FlagStays ==
    ASSUME TypeOK, [Next]_vars, NEW w \in Workers, wk[w].ev \in isSet, wk'[w].ev = wk[w].ev
    PROVE  wk'[w].ev \in isSet'
<1>1. wk[w].ev \in Events /\ wk[w].ev # NoEvent /\ wk[w].ev \in Held
  BY NamesAssumption DEF TypeOK, Held
<1>2. CASE isSet \cap Held \subseteq isSet'
  BY <1>1, <1>2
<1>3. CASE isSet' = isSet
  BY <1>3
<1>4. ASSUME NEW v \in Workers, NEW label \in Place, Leave(v, label)
      PROVE  wk'[w].ev \in isSet'
  <2>1. v # w
    BY <1>1, <1>4, LeaveWorkers
  <2>2. isSet' = isSet \cap ({reg} \cup {wk[u].ev : u \in Workers \ {v}})
    BY <1>4 DEF Leave
  <2> QED  BY <2>1, <2>2
<1>5. ASSUME NEW t \in Threads, StartLoad(t) \/ StopLoad(t) \/ Delete(t) \/ RequestStep(t)
      PROVE  isSet \cap Held \subseteq isSet'
  BY <1>5 DEF StartLoad, StopLoad, Delete, RequestStep, StartCommit, Register, RegisterFails,
              Submit, StopSignal, StopCommit
<1>6. CASE Fire
  BY <1>3, <1>6 DEF Fire
<1>7. ASSUME NEW v \in Workers,
             \/ Take(v) \/ SaveFails(v) \/ GiveUp(v) \/ Load(v) \/ GetEvent(v) \/ Begin(v)
             \/ Check(v) \/ Raise(v) \/ StoreEvent(v) \/ Finally(v)
      PROVE  isSet \cap Held \subseteq isSet'
  BY <1>7 DEF Take, SaveFails, GiveUp, Load, GetEvent, Begin, Check, Raise, StoreEvent, Finally
<1>8. ASSUME NEW v \in Workers, Finish(v) \/ Breaks(v) PROVE wk'[w].ev \in isSet'
  BY <1>4, <1>8 DEF Finish, Breaks, Place
<1>9. ~Crash
  BY <1>1, FreeType DEF Crash
<1>10. CASE UNCHANGED vars
  BY <1>3, <1>10 DEF vars
<1> QED  BY <1>2, <1>5, <1>6, <1>7, <1>8, <1>9, <1>10 DEF Next, Ends

\* However many requests replace the Event of the task, and however many runs
\* that end remove it: a run that was told to stop stays told (stop_events).
THEOREM StopIsKept == Spec => StopSticks
<1>1. IInv /\ [Next]_vars =>
        [\A w \in Workers :
           wk[w].ev \in isSet /\ wk'[w].ev = wk[w].ev => wk'[w].ev \in isSet']_vars
  BY FlagStays DEF IInv
<1> QED  BY Invariant, <1>1, PTL DEF Spec, StopSticks
=============================================================================
