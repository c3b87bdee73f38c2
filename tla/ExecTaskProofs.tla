--------------------------- MODULE ExecTaskProofs ---------------------------
(***************************************************************************)
(* Proofs about ExecTask: type correctness, the two invariants that only a *)
(* kill or a failed session strands a task or a device row in 'running',   *)
(* two that hold while only one thread may run the task (a cancel reaches  *)
(* the workers, and a completed task hides no failure), and that a         *)
(* cancelled pool stays cancelled.                                         *)
(***************************************************************************)
EXTENDS ExecTask, TLAPS

-----------------------------------------------------------------------------
(* What the helpers return                                                 *)

LEMMA FlushType ==
    ASSUME task \in TaskRow, NEW seen \in TaskRow, NEW new \in TaskRow
    PROVE  /\ Flush(seen, new) \in TaskRow
           /\ Flush(seen, new).status = IF new.status = seen.status THEN task.status
                                                                   ELSE new.status
BY DEF Flush, TaskRow

LEMMA IdleType == Idle \in ThreadState /\ NoRow \in TaskRow
BY DEF Idle, ThreadState, NoRow, Row, TaskRow, TaskStatus, Approval, PC, WorkerState

LEMMA SubmittedType ==
    ASSUME NEW req \in BOOLEAN, NEW sch \in BOOLEAN
    PROVE  Submitted(req, sch) \in TaskRow /\ Submitted(req, sch).status # "running"
BY DEF Submitted, Row, TaskRow, TaskStatus, Approval

LEMMA SummaryType ==
    ASSUME task \in TaskRow
    PROVE  Summary \in TaskStatus \ {"running"}
BY DEF Summary, TaskStatus, TaskRow

\* The row with some columns set.
LEMMA StatusUpdate ==
    ASSUME task \in TaskRow, NEW st \in TaskStatus
    PROVE  [task EXCEPT !.status = st] \in TaskRow
BY DEF TaskRow

LEMMA ScheduleUpdate ==
    ASSUME task \in TaskRow, NEW sch \in BOOLEAN
    PROVE  [task EXCEPT !.schedule = sch] \in TaskRow
BY DEF TaskRow

LEMMA ApprovalUpdate ==
    ASSUME task \in TaskRow, NEW ap \in Approval, NEW st \in TaskStatus
    PROVE  [task EXCEPT !.approval = ap, !.status = st] \in TaskRow
BY DEF TaskRow

\* The state of a thread with some fields set.
LEMMA PcUpdate ==
    ASSUME NEW s \in ThreadState, NEW pc \in PC
    PROVE  [s EXCEPT !.pc = pc] \in ThreadState
BY DEF ThreadState

LEMMA EventUpdate ==
    ASSUME NEW s \in ThreadState, NEW pc \in PC, NEW e \in Events \cup {NoEvent}
    PROVE  [s EXCEPT !.pc = pc, !.ev = e] \in ThreadState
BY DEF ThreadState

LEMMA RowsUpdate ==
    ASSUME NEW s \in ThreadState, NEW pc \in PC, NEW seen \in TaskRow, NEW new \in TaskRow
    PROVE  [s EXCEPT !.pc = pc, !.seen = seen, !.new = new] \in ThreadState
BY DEF ThreadState

LEMMA WorkersUpdate ==
    ASSUME NEW s \in ThreadState, NEW pc \in PC, NEW seen \in TaskRow, NEW new \in TaskRow,
           NEW w \in [Recs -> WorkerState]
    PROVE  [s EXCEPT !.pc = pc, !.seen = seen, !.new = new, !.w = w] \in ThreadState
BY DEF ThreadState

LEMMA FinishUpdate ==
    ASSUME NEW s \in ThreadState, NEW pc \in PC, NEW seen \in TaskRow, NEW new \in TaskRow
    PROVE  [s EXCEPT !.pc = pc, !.ev = NoEvent, !.seen = seen, !.new = new] \in ThreadState
BY DEF ThreadState

LEMMA IdleUpdate ==
    ASSUME NEW pc \in PC, NEW b \in BOOLEAN, NEW seen \in TaskRow, NEW new \in TaskRow
    PROVE  /\ [Idle EXCEPT !.pc = pc] \in ThreadState
           /\ [Idle EXCEPT !.pc = pc, !.retry = b] \in ThreadState
           /\ [Idle EXCEPT !.pc = pc, !.scheduled = b] \in ThreadState
           /\ [Idle EXCEPT !.pc = pc, !.scheduled = b, !.seen = seen, !.new = new] \in ThreadState
BY IdleType DEF ThreadState

\* A thread that begins a request, or ends one.
LEMMA LoadType ==
    ASSUME task \in TaskRow, thr \in [Threads -> ThreadState], NEW t \in Threads,
           NEW pc \in PC, NEW new \in TaskRow, Load(t, pc, new)
    PROVE  thr' \in [Threads -> ThreadState]
<1>1. [Idle EXCEPT !.pc = pc, !.seen = task, !.new = new] \in ThreadState
  BY IdleType DEF ThreadState
<1>. QED BY <1>1 DEF Load

LEMMA DoneType ==
    ASSUME thr \in [Threads -> ThreadState], NEW t \in Threads, Done(t)
    PROVE  thr' \in [Threads -> ThreadState]
BY IdleType DEF Done

LEMMA WorkerType ==
    ASSUME thr \in [Threads -> ThreadState], NEW t \in Threads, NEW x \in Recs,
           NEW from, NEW to \in WorkerState, Worker(t, x, from, to)
    PROVE  thr' \in [Threads -> ThreadState]
BY DEF Worker, ThreadState
-----------------------------------------------------------------------------
(* Type correctness                                                        *)

LEMMA TypeInit == Init => TypeOK
<1>. SUFFICES ASSUME Init PROVE TypeOK
  OBVIOUS
<1>1. task \in TaskRow
  BY SubmittedType DEF Init
<1>2. recs \in [Recs -> RowState]
  BY DEF Init, RowState, RecStatus
<1>3. thr \in [Threads -> ThreadState]
  BY IdleType DEF Init
<1>. QED BY <1>1, <1>2, <1>3 DEF Init, TypeOK

LEMMA TypeStep == TypeOK /\ [Next]_vars => TypeOK'
<1>. SUFFICES ASSUME TypeOK, [Next]_vars PROVE TypeOK'
  OBVIOUS
<1>. USE DEF TypeOK
<1>1. ASSUME NEW t \in Threads, TaskRun(t) PROVE TypeOK'
  <2>1. PICK retry \in BOOLEAN :
          thr' = [thr EXCEPT ![t] = [Idle EXCEPT !.pc = "called", !.retry = retry]]
    BY <1>1 DEF TaskRun
  <2>2. [Idle EXCEPT !.pc = "called", !.retry = retry] \in ThreadState
    BY IdleUpdate, IdleType DEF PC
  <2>. QED BY <1>1, <2>1, <2>2 DEF TaskRun
<1>2. ASSUME NEW t \in Threads, SchedLoad(t) PROVE TypeOK'
  <2>1. [task EXCEPT !.status = "ready"] \in TaskRow
    BY StatusUpdate DEF TaskStatus
  <2>2. [Idle EXCEPT !.pc = "scheduling", !.scheduled = TRUE, !.seen = task,
                     !.new = [task EXCEPT !.status = "ready"]] \in ThreadState
    BY <2>1, IdleUpdate DEF PC
  <2>. QED BY <1>2, <2>2 DEF SchedLoad
<1>3. ASSUME NEW t \in Threads, ApproveLoad(t) PROVE TypeOK'
  <2>1. [task EXCEPT !.approval = "approved", !.status = "ready"] \in TaskRow
    BY ApprovalUpdate DEF Approval, TaskStatus
  <2>. QED BY <1>3, <2>1, LoadType DEF ApproveLoad, PC
<1>4. ASSUME NEW t \in Threads, RejectLoad(t) PROVE TypeOK'
  <2>1. [task EXCEPT !.approval = "rejected", !.status = "rejected"] \in TaskRow
    BY ApprovalUpdate DEF Approval, TaskStatus
  <2>. QED BY <1>4, <2>1, LoadType DEF RejectLoad, PC
<1>5. ASSUME NEW t \in Threads, EditLoad(t) PROVE TypeOK'
  <2>1. PICK pc \in PC, new \in TaskRow : Load(t, pc, new)
    BY <1>5, ScheduleUpdate, SubmittedType DEF EditLoad, PC
  <2>2. thr' \in [Threads -> ThreadState]
    BY <2>1, LoadType
  <2>. QED BY <1>5, <2>2 DEF EditLoad
<1>6. ASSUME NEW t \in Threads, DeleteLoad(t) PROVE TypeOK'
  BY <1>6, LoadType DEF DeleteLoad, PC
<1>7. ASSUME NEW t \in Threads, CancelSignal(t) PROVE TypeOK'
  <2>1. [task EXCEPT !.status = "cancelled"] \in TaskRow
    BY StatusUpdate DEF TaskStatus
  <2>2. thr' \in [Threads -> ThreadState]
    <3>1. CASE thr' = thr
      BY <3>1
    <3>2. CASE Load(t, "cancelling", [task EXCEPT !.status = "cancelled"])
      BY <2>1, <3>2, LoadType DEF PC
    <3>. QED BY <1>7, <3>1, <3>2 DEF CancelSignal
  <2>3. recs' \in [Recs -> RowState]
    BY <1>7 DEF CancelSignal, RowState, RecStatus
  <2>4. registered' \in Events \cup {NoEvent} /\ isSet' \in [Events -> BOOLEAN]
    BY <1>7 DEF CancelSignal
  <2>. QED BY <1>7, <2>2, <2>3, <2>4 DEF CancelSignal
<1>8. ASSUME NEW t \in Threads, SchedCommit(t) PROVE TypeOK'
  <2>1. task' \in TaskRow
    BY <1>8, FlushType DEF SchedCommit, ThreadState
  <2>2. [Idle EXCEPT !.pc = "called", !.scheduled = TRUE] \in ThreadState
    BY IdleUpdate, IdleType DEF PC
  <2>3. thr' \in [Threads -> ThreadState]
    BY <1>8, <2>2, DoneType DEF SchedCommit
  <2>. QED BY <1>8, <2>1, <2>3 DEF SchedCommit
<1>9. ASSUME NEW t \in Threads, ApproveCommit(t) PROVE TypeOK'
  <2>1. task' \in TaskRow
    BY <1>9, FlushType DEF ApproveCommit, ThreadState
  <2>2. [Idle EXCEPT !.pc = "called"] \in ThreadState
    BY IdleUpdate, IdleType DEF PC
  <2>3. thr' \in [Threads -> ThreadState]
    BY <1>9, <2>2, DoneType DEF ApproveCommit
  <2>. QED BY <1>9, <2>1, <2>3 DEF ApproveCommit
<1>10. ASSUME NEW t \in Threads, RejectCommit(t) PROVE TypeOK'
  BY <1>10, FlushType, DoneType DEF RejectCommit, ThreadState
<1>11. ASSUME NEW t \in Threads, EditCommit(t) PROVE TypeOK'
  BY <1>11, FlushType, DoneType DEF EditCommit, ThreadState, RowState, RecStatus
<1>12. ASSUME NEW t \in Threads, DeleteCommit(t) PROVE TypeOK'
  BY <1>12, DoneType DEF DeleteCommit, RowState
<1>13. ASSUME NEW t \in Threads, CancelMark(t) PROVE TypeOK'
  BY <1>13, FlushType, DoneType DEF CancelMark, ThreadState
<1>14. ASSUME NEW t \in Threads, RunLoad(t) PROVE TypeOK'
  <2>1. [task EXCEPT !.status = "running"] \in TaskRow
    BY StatusUpdate DEF TaskStatus
  <2>2. [x \in Recs |-> IF x \in Selected(t) THEN "queued" ELSE "off"] \in [Recs -> WorkerState]
    BY DEF WorkerState
  <2>3. thr' \in [Threads -> ThreadState]
    BY <1>14, <2>1, <2>2, WorkersUpdate DEF RunLoad, PC
  <2>. QED BY <1>14, <2>3 DEF RunLoad
<1>15. ASSUME NEW t \in Threads, RunRefused(t) PROVE TypeOK'
  <2>1. [task EXCEPT !.status = "failed"] \in TaskRow
    BY StatusUpdate DEF TaskStatus
  <2>2. thr' \in [Threads -> ThreadState]
    BY <1>15, DoneType DEF RunRefused
  <2>. QED BY <1>15, <2>1, <2>2 DEF RunRefused
<1>16. ASSUME NEW t \in Threads, RunClear(t) PROVE TypeOK'
  <2>1. thr' \in [Threads -> ThreadState]
    BY <1>16, PcUpdate DEF RunClear, PC
  <2>2. isSet' \in [Events -> BOOLEAN]
    BY <1>16 DEF RunClear, Collect
  <2>. QED BY <1>16, <2>1, <2>2 DEF RunClear
<1>17. ASSUME NEW t \in Threads, RunCommit(t) PROVE TypeOK'
  <2>1. task' \in TaskRow
    BY <1>17, FlushType DEF RunCommit, ThreadState
  <2>2. [thr[t] EXCEPT !.pc = "committed", !.seen = NoRow, !.new = NoRow] \in ThreadState
    BY IdleType, RowsUpdate DEF PC
  <2>3. thr' \in [Threads -> ThreadState]
    BY <1>17, <2>2, DoneType DEF RunCommit
  <2>. QED BY <1>17, <2>1, <2>3 DEF RunCommit
<1>18. ASSUME NEW t \in Threads, RunPool(t) PROVE TypeOK'
  <2>1. PICK e \in Events :
          /\ registered' = e
          /\ thr' = [thr EXCEPT ![t] = [@ EXCEPT !.pc = "pool", !.ev = e]]
    BY <1>18 DEF RunPool
  <2>2. thr' \in [Threads -> ThreadState]
    BY <2>1, EventUpdate DEF PC
  <2>. QED BY <1>18, <2>1, <2>2 DEF RunPool
<1>19. ASSUME NEW t \in Threads, FinishLoad(t) PROVE TypeOK'
  <2>1. [task EXCEPT !.status = Summary] \in TaskRow
    BY StatusUpdate, SummaryType
  <2> DEFINE s == [thr[t] EXCEPT !.pc = "finalize", !.ev = NoEvent, !.seen = task,
                                 !.new = [task EXCEPT !.status = Summary]]
  <2>5. s \in ThreadState
    BY <2>1, FinishUpdate DEF PC
  <2>2. thr' \in [Threads -> ThreadState]
    BY <1>19, <2>5, DoneType DEF FinishLoad
  <2>3. isSet' \in [Events -> BOOLEAN]
    BY <1>19 DEF FinishLoad, Collect
  <2>. QED BY <1>19, <2>2, <2>3 DEF FinishLoad
<1>20. ASSUME NEW t \in Threads, FinishCommit(t) PROVE TypeOK'
  BY <1>20, FlushType, DoneType DEF FinishCommit, ThreadState
<1>21. ASSUME NEW t \in Threads, NEW x \in Recs, WorkerSkip(t, x) PROVE TypeOK'
  BY <1>21, WorkerType DEF WorkerSkip, WorkerState, RowState, RecStatus
<1>22. ASSUME NEW t \in Threads, NEW x \in Recs, WorkerPick(t, x) PROVE TypeOK'
  BY <1>22, WorkerType DEF WorkerPick, WorkerState
<1>23. ASSUME NEW t \in Threads, NEW x \in Recs, WorkerStart(t, x) PROVE TypeOK'
  BY <1>23, WorkerType DEF WorkerStart, WorkerState, RowState, RecStatus
<1>24. ASSUME NEW t \in Threads, NEW x \in Recs, WorkerFinish(t, x) PROVE TypeOK'
  BY <1>24, WorkerType DEF WorkerFinish, WorkerState, RowState, RecStatus
<1>25. ASSUME NEW t \in Threads, NEW x \in Recs, WorkerLost(t, x) PROVE TypeOK'
  BY <1>25, WorkerType DEF WorkerLost, WorkerState
<1>26. ASSUME NEW t \in Threads, NEW x \in Recs, WorkerSnapshot(t, x) PROVE TypeOK'
  BY <1>26, WorkerType DEF WorkerSnapshot, WorkerState
<1>27. ASSUME NEW x \in Recs, Rollback(x) PROVE TypeOK'
  BY <1>27 DEF Rollback, RowState, RecStatus
<1>28. CASE Crash
  BY <1>28, IdleType DEF Crash
<1>29. CASE UNCHANGED vars
  BY <1>29 DEF vars
<1>30. ASSUME NEW t \in Threads, Breaks(t) PROVE TypeOK'
  <2>1. WillReport(t) \in BOOLEAN
    BY DEF WillReport
  <2>. QED BY <1>30, <2>1, DoneType DEF Breaks, Collect
<1>31. ASSUME NEW t \in Threads, NEW x \in Recs, WorkerBreaks(t, x) PROVE TypeOK'
  BY <1>31, WorkerType DEF WorkerBreaks, WorkerState
<1>32. ASSUME NEW t \in Threads, NEW x \in Recs, WorkerHangs(t, x) PROVE TypeOK'
  BY <1>32, WorkerType DEF WorkerHangs, WorkerState
<1>. QED BY <1>1, <1>2, <1>3, <1>4, <1>5, <1>6, <1>7, <1>8, <1>9, <1>10,
    <1>11, <1>12, <1>13, <1>14, <1>15, <1>16, <1>17, <1>18, <1>19, <1>20,
    <1>21, <1>22, <1>23, <1>24, <1>25, <1>26, <1>27, <1>28, <1>29, <1>30,
    <1>31, <1>32 DEF Next, Arrival, Proceed, Work, WorkerStep

-----------------------------------------------------------------------------
(* The inductive invariant                                                 *)

\* Requests that have loaded the row and have not yet written it.
Writing == {"scheduling", "approving", "rejecting", "editing", "retarget",
            "cancelling", "finalize"}

\* Only a thread whose pool is open has a worker on a device, and of the pending
\* writes only that of run_task itself would put the task in 'running'.
ThreadInv ==
    \A t \in Threads :
       /\ thr[t].pc # "pool" => \A x \in Recs : thr[t].w[x] \notin {"exec", "hung"}
       /\ thr[t].pc \in Writing => thr[t].new.status # "running"
       /\ thr[t].pc \in {"loaded", "cleared"} => thr[t].new.status = "running"

\* What is refused for a running task was asked for when the task did not run.
SeenInv ==
    \A t \in Threads :
       thr[t].pc \in {"scheduling", "editing", "retarget", "deleting"}
           => thr[t].seen.status # "running"

IInv == /\ TypeOK /\ ThreadInv /\ SeenInv
        /\ RunningTaskHasRun /\ RunningRowHasWorker

LEMMA ThreadStep == TypeOK /\ ThreadInv /\ [Next]_vars => ThreadInv'
<1>. SUFFICES ASSUME TypeOK, ThreadInv, [Next]_vars PROVE ThreadInv'
  OBVIOUS
<1>. USE DEF ThreadInv, Writing, TypeOK, ThreadState
<1>1. ASSUME NEW t \in Threads, TaskRun(t) PROVE ThreadInv'
  BY <1>1 DEF TaskRun, Idle, TaskRow
<1>2. ASSUME NEW t \in Threads, SchedLoad(t) PROVE ThreadInv'
  BY <1>2 DEF SchedLoad, Idle, TaskRow
<1>3. ASSUME NEW t \in Threads, ApproveLoad(t) PROVE ThreadInv'
  BY <1>3 DEF ApproveLoad, Load, Idle, TaskRow
<1>4. ASSUME NEW t \in Threads, RejectLoad(t) PROVE ThreadInv'
  BY <1>4 DEF RejectLoad, Load, Idle, TaskRow
<1>5. ASSUME NEW t \in Threads, EditLoad(t) PROVE ThreadInv'
  <2>1. PICK pc \in {"editing", "retarget"}, new \in TaskRow :
          Load(t, pc, new) /\ new.status # "running"
    BY <1>5, SubmittedType, ScheduleUpdate DEF EditLoad, TaskRow
  <2>. QED BY <2>1 DEF Load, Idle
<1>6. ASSUME NEW t \in Threads, DeleteLoad(t) PROVE ThreadInv'
  BY <1>6 DEF DeleteLoad, Load, Idle, TaskRow
<1>7. ASSUME NEW t \in Threads, CancelSignal(t) PROVE ThreadInv'
  <2>1. CASE thr' = thr
    BY <2>1
  <2>2. CASE Load(t, "cancelling", [task EXCEPT !.status = "cancelled"])
    BY <2>2 DEF Load, Idle, TaskRow
  <2>. QED BY <1>7, <2>1, <2>2 DEF CancelSignal
<1>8. ASSUME NEW t \in Threads, SchedCommit(t) PROVE ThreadInv'
  <2>1. CASE exists
    <3>1. thr' = [thr EXCEPT ![t] = [Idle EXCEPT !.pc = "called", !.scheduled = TRUE]]
      BY <1>8, <2>1 DEF SchedCommit
    <3>. QED BY <3>1 DEF Idle
  <2>2. CASE ~exists
    BY <1>8, <2>2 DEF SchedCommit, Done, Idle
  <2>. QED BY <2>1, <2>2
<1>9. ASSUME NEW t \in Threads, ApproveCommit(t) PROVE ThreadInv'
  <2>1. CASE exists
    BY <1>9, <2>1 DEF ApproveCommit, Idle
  <2>2. CASE ~exists
    BY <1>9, <2>2 DEF ApproveCommit, Done, Idle
  <2>. QED BY <2>1, <2>2
<1>10. ASSUME NEW t \in Threads, RejectCommit(t) PROVE ThreadInv'
  BY <1>10 DEF RejectCommit, Done, Idle
<1>11. ASSUME NEW t \in Threads, EditCommit(t) PROVE ThreadInv'
  BY <1>11 DEF EditCommit, Done, Idle
<1>12. ASSUME NEW t \in Threads, DeleteCommit(t) PROVE ThreadInv'
  BY <1>12 DEF DeleteCommit, Done, Idle
<1>13. ASSUME NEW t \in Threads, CancelMark(t) PROVE ThreadInv'
  BY <1>13 DEF CancelMark, Done, Idle
<1>14. ASSUME NEW t \in Threads, RunLoad(t) PROVE ThreadInv'
  BY <1>14 DEF RunLoad
<1>15. ASSUME NEW t \in Threads, RunRefused(t) PROVE ThreadInv'
  BY <1>15 DEF RunRefused, Done, Idle
<1>16. ASSUME NEW t \in Threads, RunClear(t) PROVE ThreadInv'
  BY <1>16 DEF RunClear
<1>17. ASSUME NEW t \in Threads, RunCommit(t) PROVE ThreadInv'
  <2>1. CASE exists
    <3>1. /\ thr' = [thr EXCEPT ![t] = [@ EXCEPT !.pc = "committed", !.seen = NoRow, !.new = NoRow]]
          /\ thr[t].pc = "cleared"
      BY <1>17, <2>1 DEF RunCommit
    <3>2. thr'[t].pc = "committed" /\ thr'[t].w = thr[t].w
      BY <3>1
    <3>3. \A u \in Threads \ {t} : thr'[u] = thr[u]
      BY <3>1
    <3>. QED BY <3>1, <3>2, <3>3
  <2>2. CASE ~exists
    BY <1>17, <2>2 DEF RunCommit, Done, Idle
  <2>. QED BY <2>1, <2>2
<1>18. ASSUME NEW t \in Threads, RunPool(t) PROVE ThreadInv'
  BY <1>18 DEF RunPool
<1>19. ASSUME NEW t \in Threads, FinishLoad(t) PROVE ThreadInv'
  <2>1. CASE exists
    <3>1. [task EXCEPT !.status = Summary].status # "running"
      BY SummaryType DEF TaskRow
    <3>2. thr'[t] = [thr[t] EXCEPT !.pc = "finalize", !.ev = NoEvent, !.seen = task,
                                   !.new = [task EXCEPT !.status = Summary]]
      BY <1>19, <2>1 DEF FinishLoad
    <3>3. \A u \in Threads \ {t} : thr'[u] = thr[u]
      BY <1>19, <2>1 DEF FinishLoad
    <3>4. \A x \in Recs : thr[t].w[x] \notin {"exec", "hung"}
      BY <1>19 DEF FinishLoad
    <3>5. thr'[t].w = thr[t].w
      BY <3>2
    <3>6. thr'[t].new = [task EXCEPT !.status = Summary]
      BY <3>2
    <3>7. \A x \in Recs : thr'[t].w[x] \notin {"exec", "hung"}
      BY <3>4, <3>5
    <3>8. thr'[t].new.status # "running"
      BY <3>1, <3>6
    <3>9. ASSUME NEW u \in Threads
          PROVE  /\ thr'[u].pc # "pool" => \A x \in Recs : thr'[u].w[x] \notin {"exec", "hung"}
                 /\ thr'[u].pc \in Writing => thr'[u].new.status # "running"
                 /\ thr'[u].pc \in {"loaded", "cleared"} => thr'[u].new.status = "running"
      <4>1. CASE u = t
        <5>1. thr'[t].pc = "finalize"
          BY <3>2
        <5>. QED BY <4>1, <3>7, <3>8, <5>1
      <4>2. CASE u # t
        BY <4>2, <3>3
      <4>. QED BY <4>1, <4>2
    <3>. QED BY <3>9
  <2>2. CASE ~exists
    <3>1. thr' = [thr EXCEPT ![t] = Idle]
      BY <1>19, <2>2 DEF FinishLoad, Done
    <3>. QED BY <3>1 DEF Idle
  <2>. QED BY <2>1, <2>2
<1>20. ASSUME NEW t \in Threads, FinishCommit(t) PROVE ThreadInv'
  BY <1>20 DEF FinishCommit, Done, Idle
<1>21. ASSUME NEW t \in Threads, NEW x \in Recs, WorkerSkip(t, x) PROVE ThreadInv'
  BY <1>21 DEF WorkerSkip, Worker
<1>22. ASSUME NEW t \in Threads, NEW x \in Recs, WorkerPick(t, x) PROVE ThreadInv'
  BY <1>22 DEF WorkerPick, Worker
<1>23. ASSUME NEW t \in Threads, NEW x \in Recs, WorkerStart(t, x) PROVE ThreadInv'
  <2>1. PICK from : Worker(t, x, from, "exec")
    BY <1>23 DEF WorkerStart
  <2>. QED BY <2>1 DEF Worker
<1>24. ASSUME NEW t \in Threads, NEW x \in Recs, WorkerFinish(t, x) PROVE ThreadInv'
  BY <1>24 DEF WorkerFinish, Worker
<1>25. ASSUME NEW t \in Threads, NEW x \in Recs, WorkerLost(t, x) PROVE ThreadInv'
  BY <1>25 DEF WorkerLost, Worker
<1>26. ASSUME NEW t \in Threads, NEW x \in Recs, WorkerSnapshot(t, x) PROVE ThreadInv'
  BY <1>26 DEF WorkerSnapshot, Worker
<1>27. ASSUME NEW x \in Recs, Rollback(x) PROVE ThreadInv'
  BY <1>27 DEF Rollback
<1>28. CASE Crash
  BY <1>28 DEF Crash, Idle
<1>29. CASE UNCHANGED vars
  BY <1>29 DEF vars
<1>30. ASSUME NEW t \in Threads, Breaks(t) PROVE ThreadInv'
  BY <1>30 DEF Breaks, Done, Idle
<1>31. ASSUME NEW t \in Threads, NEW x \in Recs, WorkerBreaks(t, x) PROVE ThreadInv'
  <2>1. PICK from : Worker(t, x, from, "off")
    BY <1>31 DEF WorkerBreaks
  <2>. QED BY <2>1 DEF Worker
<1>32. ASSUME NEW t \in Threads, NEW x \in Recs, WorkerHangs(t, x) PROVE ThreadInv'
  BY <1>32 DEF WorkerHangs, Worker
<1>. QED BY <1>1, <1>2, <1>3, <1>4, <1>5, <1>6, <1>7, <1>8, <1>9, <1>10,
    <1>11, <1>12, <1>13, <1>14, <1>15, <1>16, <1>17, <1>18, <1>19, <1>20,
    <1>21, <1>22, <1>23, <1>24, <1>25, <1>26, <1>27, <1>28, <1>29, <1>30,
    <1>31, <1>32 DEF Next, Arrival, Proceed, Work, WorkerStep

\* A worker leaves the places of all threads as they are.
LEMMA WorkerPlaces ==
    ASSUME TypeOK, NEW t \in Threads, NEW x \in Recs, NEW from, NEW to, Worker(t, x, from, to)
    PROVE  \A u \in Threads : /\ thr'[u].pc = thr[u].pc /\ thr'[u].ev = thr[u].ev
                              /\ thr'[u].seen = thr[u].seen /\ thr'[u].new = thr[u].new
BY DEF Worker, TypeOK, ThreadState

\* What a thread becomes that begins a request, or ends one.
LEMMA LoadState ==
    ASSUME TypeOK, NEW t \in Threads, NEW pc, NEW new, Load(t, pc, new)
    PROVE  /\ \A u \in Threads \ {t} : thr'[u] = thr[u]
           /\ thr'[t].pc = pc /\ thr'[t].seen = task /\ thr'[t].new = new
BY DEF Load, TypeOK, Idle

LEMMA DoneState ==
    ASSUME TypeOK, NEW t \in Threads, Done(t)
    PROVE  /\ \A u \in Threads \ {t} : thr'[u] = thr[u]
           /\ thr'[t].pc = "idle" /\ thr'[t].new = NoRow
BY DEF Done, TypeOK, Idle

-----------------------------------------------------------------------------
(* A task in 'running' has a run that will report                          *)

\* A step of a thread that is not going to report, from a state in which the
\* task runs, leaves the thread that is going to.
LEMMA OthersReport ==
    ASSUME ~Stranded, exists, task.status = "running",
           NEW t \in Threads, ~WillReport(t),
           \A u \in Threads \ {t} : thr'[u] = thr[u]
    PROVE  \E u \in Threads : WillReport(u)'
<1>1. PICK u \in Threads : WillReport(u)
  BY DEF Stranded
<1>2. WillReport(u)'
  BY <1>1 DEF WillReport
<1>. QED BY <1>2

\* The row that a pending write leaves says 'running' only if it did before,
\* and then the write does not touch the status.
LEMMA WriteKeepsRunning ==
    ASSUME TypeOK, ThreadInv, NEW t \in Threads, thr[t].pc \in Writing,
           task' = Flush(thr[t].seen, thr[t].new), task'.status = "running"
    PROVE  task.status = "running" /\ ~WillReport(t)
<1>1. thr[t].new.status # "running" /\ thr[t].seen \in TaskRow /\ thr[t].new \in TaskRow
  BY DEF ThreadInv, TypeOK, ThreadState
<1>2. task'.status = IF thr[t].new.status = thr[t].seen.status THEN task.status
                                                            ELSE thr[t].new.status
  BY <1>1, FlushType DEF TypeOK
<1>. QED BY <1>1, <1>2 DEF WillReport, Writing

\* A step of a worker keeps what its thread is bound to do.
LEMMA WorkerReports ==
    ASSUME TypeOK, ~Stranded, exists, task.status = "running",
           NEW t \in Threads, NEW x \in Recs, NEW from, NEW to, Worker(t, x, from, to)
    PROVE  \E u \in Threads : WillReport(u)'
<1>1. PICK u \in Threads : WillReport(u)
  BY DEF Stranded
<1>2. thr'[u].pc = thr[u].pc /\ thr'[u].seen = thr[u].seen /\ thr'[u].new = thr[u].new
  BY DEF Worker, TypeOK, ThreadState
<1>. QED BY <1>1, <1>2 DEF WillReport

\* No step strands a task but a crash and the failure of a session.
LEMMA ReportStep ==
    TypeOK /\ ThreadInv /\ ~Stranded /\ [Next]_vars
        => ~Stranded' \/ Crash \/ \E t \in Threads : Breaks(t)
<1>. SUFFICES ASSUME TypeOK, ThreadInv, ~Stranded, [Next]_vars, ~Crash,
                     \A t \in Threads : ~Breaks(t),
                     exists', task'.status = "running"
              PROVE  \E u \in Threads : WillReport(u)'
  BY DEF Stranded
<1>. USE DEF TypeOK
<1>1. ASSUME NEW t \in Threads, TaskRun(t) PROVE \E u \in Threads : WillReport(u)'
  BY <1>1, OthersReport DEF TaskRun, WillReport
<1>2. ASSUME NEW t \in Threads, SchedLoad(t) PROVE \E u \in Threads : WillReport(u)'
  BY <1>2, OthersReport DEF SchedLoad, WillReport
<1>3. ASSUME NEW t \in Threads, ApproveLoad(t) PROVE \E u \in Threads : WillReport(u)'
  BY <1>3, OthersReport DEF ApproveLoad, Load, WillReport
<1>4. ASSUME NEW t \in Threads, RejectLoad(t) PROVE \E u \in Threads : WillReport(u)'
  BY <1>4, OthersReport DEF RejectLoad, Load, WillReport
<1>5. ASSUME NEW t \in Threads, EditLoad(t) PROVE \E u \in Threads : WillReport(u)'
  BY <1>5, OthersReport DEF EditLoad, Load, WillReport
<1>6. ASSUME NEW t \in Threads, DeleteLoad(t) PROVE \E u \in Threads : WillReport(u)'
  BY <1>6, OthersReport DEF DeleteLoad, Load, WillReport
<1>7. ASSUME NEW t \in Threads, CancelSignal(t) PROVE \E u \in Threads : WillReport(u)'
  BY <1>7, OthersReport DEF CancelSignal, Load, WillReport
<1>8. ASSUME NEW t \in Threads, SchedCommit(t) PROVE \E u \in Threads : WillReport(u)'
  BY <1>8, OthersReport, WriteKeepsRunning DEF SchedCommit, Done, Writing
<1>9. ASSUME NEW t \in Threads, ApproveCommit(t) PROVE \E u \in Threads : WillReport(u)'
  BY <1>9, OthersReport, WriteKeepsRunning DEF ApproveCommit, Done, Writing
<1>10. ASSUME NEW t \in Threads, RejectCommit(t) PROVE \E u \in Threads : WillReport(u)'
  BY <1>10, OthersReport, WriteKeepsRunning DEF RejectCommit, Done, Writing
<1>11. ASSUME NEW t \in Threads, EditCommit(t) PROVE \E u \in Threads : WillReport(u)'
  BY <1>11, OthersReport, WriteKeepsRunning DEF EditCommit, Done, Writing
<1>12. ASSUME NEW t \in Threads, CancelMark(t) PROVE \E u \in Threads : WillReport(u)'
  BY <1>12, OthersReport, WriteKeepsRunning DEF CancelMark, Done, Writing
<1>13. ASSUME NEW t \in Threads, FinishCommit(t) PROVE \E u \in Threads : WillReport(u)'
  BY <1>13, OthersReport, WriteKeepsRunning DEF FinishCommit, Done, Writing
<1>14. ASSUME NEW t \in Threads, DeleteCommit(t) PROVE \E u \in Threads : WillReport(u)'
  BY <1>14 DEF DeleteCommit
<1>15. ASSUME NEW t \in Threads, RunLoad(t) PROVE \E u \in Threads : WillReport(u)'
  BY <1>15, OthersReport DEF RunLoad, WillReport
<1>16. ASSUME NEW t \in Threads, RunRefused(t) PROVE \E u \in Threads : WillReport(u)'
  <2>1. exists /\ task.status = "running"
    BY <1>16 DEF RunRefused, TaskRow
  <2>. QED BY <1>16, <2>1, OthersReport DEF RunRefused, Done, WillReport
<1>17. ASSUME NEW t \in Threads, RunClear(t) PROVE \E u \in Threads : WillReport(u)'
  BY <1>17, OthersReport DEF RunClear, WillReport
<1>18. ASSUME NEW t \in Threads, RunCommit(t) PROVE \E u \in Threads : WillReport(u)'
  <2>1. thr'[t].pc = "committed"
    BY <1>18 DEF RunCommit, ThreadState
  <2>. QED BY <2>1 DEF WillReport
<1>19. ASSUME NEW t \in Threads, RunPool(t) PROVE \E u \in Threads : WillReport(u)'
  <2>1. thr'[t].pc = "pool"
    BY <1>19 DEF RunPool, ThreadState
  <2>. QED BY <2>1 DEF WillReport
<1>20. ASSUME NEW t \in Threads, FinishLoad(t) PROVE \E u \in Threads : WillReport(u)'
  <2>1. thr'[t] = [thr[t] EXCEPT !.pc = "finalize", !.ev = NoEvent, !.seen = task,
                                 !.new = [task EXCEPT !.status = Summary]]
    BY <1>20 DEF FinishLoad
  <2>2. thr'[t].pc = "finalize" /\ thr'[t].seen.status = "running"
    BY <1>20, <2>1 DEF FinishLoad, ThreadState
  <2>3. thr'[t].new = [task EXCEPT !.status = Summary]
    BY <2>1 DEF ThreadState
  <2>4. thr'[t].new.status # "running"
    BY <2>3, SummaryType DEF TaskRow
  <2>. QED BY <2>2, <2>4 DEF WillReport
<1>21. ASSUME NEW t \in Threads, NEW x \in Recs, WorkerSkip(t, x) PROVE \E u \in Threads : WillReport(u)'
  BY <1>21, WorkerReports DEF WorkerSkip
<1>22. ASSUME NEW t \in Threads, NEW x \in Recs, WorkerPick(t, x) PROVE \E u \in Threads : WillReport(u)'
  BY <1>22, WorkerReports DEF WorkerPick
<1>23. ASSUME NEW t \in Threads, NEW x \in Recs, WorkerStart(t, x) PROVE \E u \in Threads : WillReport(u)'
  BY <1>23, WorkerReports DEF WorkerStart
<1>24. ASSUME NEW t \in Threads, NEW x \in Recs, WorkerFinish(t, x) PROVE \E u \in Threads : WillReport(u)'
  BY <1>24, WorkerReports DEF WorkerFinish
<1>25. ASSUME NEW t \in Threads, NEW x \in Recs, WorkerLost(t, x) PROVE \E u \in Threads : WillReport(u)'
  BY <1>25, WorkerReports DEF WorkerLost
<1>26. ASSUME NEW t \in Threads, NEW x \in Recs, WorkerSnapshot(t, x) PROVE \E u \in Threads : WillReport(u)'
  BY <1>26, WorkerReports DEF WorkerSnapshot
<1>27. ASSUME NEW x \in Recs, Rollback(x) PROVE \E u \in Threads : WillReport(u)'
  BY <1>27 DEF Rollback, Stranded, WillReport
<1>28. CASE Crash
  BY <1>28
<1>29. CASE UNCHANGED vars
  BY <1>29 DEF vars, Stranded, WillReport
<1>31. ASSUME NEW t \in Threads, NEW x \in Recs, WorkerBreaks(t, x) \/ WorkerHangs(t, x)
       PROVE  \E u \in Threads : WillReport(u)'
  BY <1>31, WorkerReports DEF WorkerBreaks, WorkerHangs
<1>. QED BY <1>1, <1>2, <1>3, <1>4, <1>5, <1>6, <1>7, <1>8, <1>9, <1>10,
    <1>11, <1>12, <1>13, <1>14, <1>15, <1>16, <1>17, <1>18, <1>19, <1>20,
    <1>21, <1>22, <1>23, <1>24, <1>25, <1>26, <1>27, <1>28, <1>29, <1>31
    DEF Next, Arrival, Proceed, Work, WorkerStep

\* What ended a run is forgotten only when the next one begins.
LEMMA CutStep == cut /\ [Next]_vars => cut' \/ \E t \in Threads : thr[t].pc = "cleared" /\ RunCommit(t) /\ exists
<1>. SUFFICES ASSUME cut, [Next]_vars, ~cut'
              PROVE  \E t \in Threads : thr[t].pc = "cleared" /\ RunCommit(t) /\ exists
  OBVIOUS
<1>1. ASSUME NEW t \in Threads, RunCommit(t) PROVE thr[t].pc = "cleared" /\ exists
  BY <1>1 DEF RunCommit
<1>2. ASSUME NEW t \in Threads, Arrival(t) PROVE FALSE
  BY <1>2 DEF Arrival, TaskRun, SchedLoad, ApproveLoad, RejectLoad, EditLoad, DeleteLoad,
              CancelSignal
<1>3. ASSUME NEW t \in Threads, Proceed(t) PROVE RunCommit(t)
  BY <1>3 DEF Proceed, SchedCommit, ApproveCommit, RejectCommit, EditCommit, DeleteCommit,
              CancelMark, RunLoad, RunRefused, RunClear, RunPool, FinishLoad, FinishCommit
<1>4. ASSUME NEW t \in Threads, NEW x \in Recs, WorkerStep(t, x) PROVE FALSE
  BY <1>4 DEF WorkerStep, Work, WorkerSkip, WorkerPick, WorkerStart, WorkerFinish, WorkerLost,
              WorkerSnapshot, WorkerBreaks, WorkerHangs
<1>5. ASSUME NEW t \in Threads, Breaks(t) PROVE FALSE
  BY <1>5 DEF Breaks
<1>6. ASSUME NEW x \in Recs, Rollback(x) PROVE FALSE
  BY <1>6 DEF Rollback
<1>7. ~Crash /\ ~UNCHANGED vars
  BY DEF Crash, vars
<1>. QED BY <1>1, <1>2, <1>3, <1>4, <1>5, <1>6, <1>7 DEF Next

LEMMA RunningTaskStep ==
    TypeOK /\ ThreadInv /\ RunningTaskHasRun /\ [Next]_vars => RunningTaskHasRun'
<1>. SUFFICES ASSUME TypeOK, ThreadInv, RunningTaskHasRun, [Next]_vars, Stranded'
              PROVE  cut'
  BY DEF RunningTaskHasRun
<1>1. CASE cut
  <2>1. ASSUME NEW t \in Threads, thr[t].pc = "cleared", RunCommit(t), exists PROVE FALSE
    <3>1. thr' = [thr EXCEPT ![t] = [@ EXCEPT !.pc = "committed", !.seen = NoRow, !.new = NoRow]]
      BY <2>1 DEF RunCommit
    <3>2. thr \in [Threads -> ThreadState] /\ thr[t] \in ThreadState
      BY DEF TypeOK
    <3>3. thr'[t] = [thr[t] EXCEPT !.pc = "committed", !.seen = NoRow, !.new = NoRow]
      BY <3>1, <3>2
    <3>4. thr'[t].pc = "committed"
      BY <3>2, <3>3 DEF ThreadState
    <3>. QED BY <3>4 DEF Stranded, WillReport
  <2>. QED BY <1>1, <2>1, CutStep
<1>2. CASE ~Stranded
  <2>1. CASE Crash
    <3>1. \E t \in Threads : WillReport(t)
      BY <1>2, <2>1 DEF Crash, Stranded
    <3>. QED BY <2>1, <3>1 DEF Crash
  <2>2. ASSUME NEW t \in Threads, Breaks(t) PROVE cut'
    <3>1. CASE WillReport(t)
      BY <2>2, <3>1 DEF Breaks
    <3>2. CASE ~WillReport(t)
      <4>1. \A u \in Threads \ {t} : thr'[u] = thr[u]
        BY <2>2 DEF Breaks, Done, TypeOK
      <4>2. exists /\ task.status = "running"
        BY <2>2 DEF Breaks, Stranded
      <4>3. \E u \in Threads : WillReport(u)'
        BY <1>2, <3>2, <4>1, <4>2, OthersReport
      <4>. QED BY <4>3 DEF Stranded
    <3>. QED BY <3>1, <3>2
  <2>. QED BY <1>2, <2>1, <2>2, ReportStep
<1>. QED BY <1>1, <1>2 DEF RunningTaskHasRun

LEMMA SeenStep == TypeOK /\ SeenInv /\ [Next]_vars => SeenInv'
<1>. DEFINE Refused == {"scheduling", "editing", "retarget", "deleting"}
<1>. SUFFICES ASSUME TypeOK, SeenInv, [Next]_vars, NEW u \in Threads, thr'[u].pc \in Refused
              PROVE  thr'[u].seen.status # "running"
  BY DEF SeenInv
<1>1. CASE thr'[u].pc = thr[u].pc /\ thr'[u].seen = thr[u].seen
  BY <1>1 DEF SeenInv
<1>2. ASSUME NEW t \in Threads, TaskRun(t) PROVE thr'[u] = thr[u]
  <2>1. PICK retry \in BOOLEAN :
          thr' = [thr EXCEPT ![t] = [Idle EXCEPT !.pc = "called", !.retry = retry]]
    BY <1>2 DEF TaskRun
  <2>. QED BY <2>1 DEF TypeOK, Idle
<1>3. ASSUME NEW t \in Threads, SchedLoad(t) PROVE thr'[u] = thr[u] \/ thr'[u].seen.status # "running"
  BY <1>3 DEF SchedLoad, TypeOK, Idle
<1>4. ASSUME NEW t \in Threads, EditLoad(t) \/ DeleteLoad(t)
      PROVE  thr'[u] = thr[u] \/ thr'[u].seen.status # "running"
  <2>1. PICK pc, new : Load(t, pc, new)
    BY <1>4 DEF EditLoad, DeleteLoad
  <2>. QED BY <1>4, <2>1, LoadState DEF EditLoad, DeleteLoad
<1>5. ASSUME NEW t \in Threads, ApproveLoad(t) \/ RejectLoad(t) \/ CancelSignal(t)
      PROVE  thr'[u] = thr[u]
  <2>1. ASSUME NEW pc \in {"approving", "rejecting", "cancelling"}, NEW new, Load(t, pc, new)
        PROVE  thr'[u] = thr[u]
    BY <2>1, LoadState
  <2>. QED BY <1>5, <2>1 DEF ApproveLoad, RejectLoad, CancelSignal
<1>6. ASSUME NEW t \in Threads, Done(t) PROVE thr'[u] = thr[u]
  BY <1>6, DoneState
<1>7. ASSUME NEW t \in Threads,
             \/ RejectCommit(t) \/ EditCommit(t) \/ DeleteCommit(t) \/ CancelMark(t)
             \/ RunRefused(t) \/ FinishCommit(t) \/ Breaks(t)
      PROVE  thr'[u] = thr[u]
  BY <1>6, <1>7 DEF RejectCommit, EditCommit, DeleteCommit, CancelMark, RunRefused,
                    FinishCommit, Breaks
<1>8. ASSUME NEW t \in Threads, SchedCommit(t) \/ ApproveCommit(t) PROVE thr'[u] = thr[u]
  <2>1. CASE exists
    <3>1. CASE thr' = [thr EXCEPT ![t] = [Idle EXCEPT !.pc = "called", !.scheduled = TRUE]]
      BY <3>1 DEF TypeOK, Idle
    <3>2. CASE thr' = [thr EXCEPT ![t] = [Idle EXCEPT !.pc = "called"]]
      BY <3>2 DEF TypeOK, Idle
    <3>. QED BY <1>8, <2>1, <3>1, <3>2 DEF SchedCommit, ApproveCommit
  <2>2. CASE ~exists
    BY <1>6, <1>8, <2>2 DEF SchedCommit, ApproveCommit
  <2>. QED BY <2>1, <2>2
<1>9. ASSUME NEW t \in Threads, RunLoad(t) \/ RunClear(t) \/ RunPool(t) PROVE thr'[u] = thr[u]
  <2>1. CASE RunLoad(t)
    BY <2>1 DEF RunLoad, TypeOK, ThreadState
  <2>2. CASE RunClear(t)
    BY <2>2 DEF RunClear, TypeOK, ThreadState
  <2>3. CASE RunPool(t)
    BY <2>3 DEF RunPool, TypeOK, ThreadState
  <2>. QED BY <1>9, <2>1, <2>2, <2>3
<1>10. ASSUME NEW t \in Threads, RunCommit(t) \/ FinishLoad(t) PROVE thr'[u] = thr[u]
  <2>1. CASE exists
    <3>1. CASE RunCommit(t)
      BY <2>1, <3>1 DEF RunCommit, TypeOK, ThreadState
    <3>2. CASE FinishLoad(t)
      BY <2>1, <3>2 DEF FinishLoad, TypeOK, ThreadState
    <3>. QED BY <1>10, <3>1, <3>2
  <2>2. CASE ~exists
    BY <1>6, <1>10, <2>2 DEF RunCommit, FinishLoad
  <2>. QED BY <2>1, <2>2
<1>11. ASSUME NEW t \in Threads, NEW x \in Recs, WorkerStep(t, x)
       PROVE  thr'[u].pc = thr[u].pc /\ thr'[u].seen = thr[u].seen
  <2>1. PICK from, to : Worker(t, x, from, to)
    BY <1>11 DEF WorkerStep, Work, WorkerSkip, WorkerPick, WorkerStart, WorkerFinish, WorkerLost,
                 WorkerSnapshot, WorkerBreaks, WorkerHangs
  <2>. QED BY <2>1, WorkerPlaces
<1>12. (\E x \in Recs : Rollback(x)) \/ UNCHANGED vars => thr'[u] = thr[u]
  BY DEF Rollback, vars
<1>13. ~Crash
  BY DEF Crash, Idle
<1>. QED BY <1>1, <1>2, <1>3, <1>4, <1>5, <1>7, <1>8, <1>9, <1>10, <1>11, <1>12, <1>13
     DEF Next, Arrival, Proceed

-----------------------------------------------------------------------------
(* A device row in 'running' has a worker on its device                    *)

\* A step of a thread that has no worker on the device of x leaves alone the
\* one that has.
LEMMA OthersExecute ==
    ASSUME RunningRowHasWorker, NEW x \in Recs \ torn, recs[x] = "running",
           NEW t \in Threads, thr[t].w[x] \notin {"exec", "hung"},
           \A u \in Threads \ {t} : thr'[u] = thr[u]
    PROVE  \E u \in Threads : thr'[u].w[x] \in {"exec", "hung"}
<1>1. PICK u \in Threads : thr[u].w[x] \in {"exec", "hung"}
  BY DEF RunningRowHasWorker
<1>. QED BY <1>1

\* A step of the worker of row y changes no other worker.
LEMMA WorkerFrame ==
    ASSUME TypeOK, NEW t \in Threads, NEW y \in Recs, NEW from, NEW to,
           Worker(t, y, from, to)
    PROVE  /\ \A u \in Threads, x \in Recs \ {y} : thr'[u].w[x] = thr[u].w[x]
           /\ \A u \in Threads \ {t} : thr'[u] = thr[u]
           /\ thr[t].w[y] = from
           /\ thr'[t].w[y] = to
BY DEF Worker, TypeOK, ThreadState

LEMMA RowStep ==
    TypeOK /\ ThreadInv /\ RunningRowHasWorker /\ [Next]_vars => RunningRowHasWorker'
<1>. SUFFICES ASSUME TypeOK, ThreadInv, RunningRowHasWorker, [Next]_vars,
                     NEW x \in Recs \ torn', recs'[x] = "running"
              PROVE  \E u \in Threads : thr'[u].w[x] \in {"exec", "hung"}
  BY DEF RunningRowHasWorker
<1>. USE DEF TypeOK, ThreadInv
<1>1. ASSUME NEW t \in Threads, TaskRun(t) PROVE \E u \in Threads : thr'[u].w[x] \in {"exec", "hung"}
  BY <1>1, OthersExecute DEF TaskRun
<1>2. ASSUME NEW t \in Threads, SchedLoad(t) PROVE \E u \in Threads : thr'[u].w[x] \in {"exec", "hung"}
  BY <1>2, OthersExecute DEF SchedLoad
<1>3. ASSUME NEW t \in Threads, ApproveLoad(t) PROVE \E u \in Threads : thr'[u].w[x] \in {"exec", "hung"}
  BY <1>3, OthersExecute DEF ApproveLoad, Load
<1>4. ASSUME NEW t \in Threads, RejectLoad(t) PROVE \E u \in Threads : thr'[u].w[x] \in {"exec", "hung"}
  BY <1>4, OthersExecute DEF RejectLoad, Load
<1>5. ASSUME NEW t \in Threads, EditLoad(t) PROVE \E u \in Threads : thr'[u].w[x] \in {"exec", "hung"}
  BY <1>5, OthersExecute DEF EditLoad, Load
<1>6. ASSUME NEW t \in Threads, DeleteLoad(t) PROVE \E u \in Threads : thr'[u].w[x] \in {"exec", "hung"}
  BY <1>6, OthersExecute DEF DeleteLoad, Load
<1>7. ASSUME NEW t \in Threads, CancelSignal(t) PROVE \E u \in Threads : thr'[u].w[x] \in {"exec", "hung"}
  BY <1>7, OthersExecute DEF CancelSignal, Load
<1>8. ASSUME NEW t \in Threads, SchedCommit(t) PROVE \E u \in Threads : thr'[u].w[x] \in {"exec", "hung"}
  BY <1>8, OthersExecute DEF SchedCommit, Done
<1>9. ASSUME NEW t \in Threads, ApproveCommit(t) PROVE \E u \in Threads : thr'[u].w[x] \in {"exec", "hung"}
  BY <1>9, OthersExecute DEF ApproveCommit, Done
<1>10. ASSUME NEW t \in Threads, RejectCommit(t) PROVE \E u \in Threads : thr'[u].w[x] \in {"exec", "hung"}
  BY <1>10, OthersExecute DEF RejectCommit, Done
<1>11. ASSUME NEW t \in Threads, EditCommit(t) PROVE \E u \in Threads : thr'[u].w[x] \in {"exec", "hung"}
  BY <1>11, OthersExecute DEF EditCommit, Done
<1>12. ASSUME NEW t \in Threads, DeleteCommit(t) PROVE \E u \in Threads : thr'[u].w[x] \in {"exec", "hung"}
  BY <1>12, OthersExecute DEF DeleteCommit, Done
<1>13. ASSUME NEW t \in Threads, CancelMark(t) PROVE \E u \in Threads : thr'[u].w[x] \in {"exec", "hung"}
  BY <1>13, OthersExecute DEF CancelMark, Done
<1>14. ASSUME NEW t \in Threads, FinishCommit(t) PROVE \E u \in Threads : thr'[u].w[x] \in {"exec", "hung"}
  BY <1>14, OthersExecute DEF FinishCommit, Done
<1>15. ASSUME NEW t \in Threads, RunRefused(t) PROVE \E u \in Threads : thr'[u].w[x] \in {"exec", "hung"}
  BY <1>15, OthersExecute DEF RunRefused, Done
<1>16. ASSUME NEW t \in Threads, RunLoad(t) PROVE \E u \in Threads : thr'[u].w[x] \in {"exec", "hung"}
  <2>1. /\ \A u \in Threads \ {t} : thr'[u] = thr[u]
        /\ thr[t].pc # "pool" /\ UNCHANGED <<recs, torn>>
    BY <1>16 DEF RunLoad
  <2>. QED BY <2>1, OthersExecute
<1>17. ASSUME NEW t \in Threads, RunClear(t) PROVE \E u \in Threads : thr'[u].w[x] \in {"exec", "hung"}
  BY <1>17, OthersExecute DEF RunClear
<1>18. ASSUME NEW t \in Threads, RunPool(t) PROVE \E u \in Threads : thr'[u].w[x] \in {"exec", "hung"}
  BY <1>18, OthersExecute DEF RunPool
<1>19. ASSUME NEW t \in Threads, RunCommit(t) PROVE \E u \in Threads : thr'[u].w[x] \in {"exec", "hung"}
  BY <1>19, OthersExecute DEF RunCommit, Done
<1>20. ASSUME NEW t \in Threads, FinishLoad(t) PROVE \E u \in Threads : thr'[u].w[x] \in {"exec", "hung"}
  BY <1>20, OthersExecute DEF FinishLoad, Done
<1>21. ASSUME NEW t \in Threads, NEW y \in Recs, WorkerSkip(t, y) PROVE \E u \in Threads : thr'[u].w[x] \in {"exec", "hung"}
  <2>1. PICK from, to : Worker(t, y, from, to)
    BY <1>21 DEF WorkerSkip
  <2>2. CASE x # y
    <3>1. recs[x] = "running"
      BY <1>21, <2>2 DEF WorkerSkip
    <3>. QED BY <1>21, <2>1, <2>2, <3>1, WorkerFrame DEF WorkerSkip, RunningRowHasWorker
  <2>3. CASE x = y
    BY <1>21, <2>3, WorkerFrame, OthersExecute DEF WorkerSkip, Live, RecStatus
  <2>. QED BY <2>2, <2>3
<1>22. ASSUME NEW t \in Threads, NEW y \in Recs, WorkerPick(t, y) PROVE \E u \in Threads : thr'[u].w[x] \in {"exec", "hung"}
  <2>1. PICK from, to : Worker(t, y, from, to)
    BY <1>22 DEF WorkerPick
  <2>2. CASE x # y
    <3>1. recs[x] = "running"
      BY <1>22, <2>2 DEF WorkerPick
    <3>. QED BY <1>22, <2>1, <2>2, <3>1, WorkerFrame DEF WorkerPick, RunningRowHasWorker
  <2>3. CASE x = y
    BY <1>22, <2>3, WorkerFrame, OthersExecute DEF WorkerPick, Live, RecStatus
  <2>. QED BY <2>2, <2>3
<1>23. ASSUME NEW t \in Threads, NEW y \in Recs, WorkerStart(t, y) PROVE \E u \in Threads : thr'[u].w[x] \in {"exec", "hung"}
  <2>1. PICK from, to : Worker(t, y, from, to)
    BY <1>23 DEF WorkerStart
  <2>2. CASE x # y
    <3>1. recs[x] = "running"
      BY <1>23, <2>2 DEF WorkerStart
    <3>. QED BY <1>23, <2>1, <2>2, <3>1, WorkerFrame DEF WorkerStart, RunningRowHasWorker
  <2>3. CASE x = y
    BY <1>23, <2>3, WorkerFrame, OthersExecute DEF WorkerStart, Live, RecStatus
  <2>. QED BY <2>2, <2>3
<1>24. ASSUME NEW t \in Threads, NEW y \in Recs, WorkerFinish(t, y) PROVE \E u \in Threads : thr'[u].w[x] \in {"exec", "hung"}
  <2>1. PICK from, to : Worker(t, y, from, to)
    BY <1>24 DEF WorkerFinish
  <2>2. CASE x # y
    <3>1. recs[x] = "running"
      BY <1>24, <2>2 DEF WorkerFinish
    <3>. QED BY <1>24, <2>1, <2>2, <3>1, WorkerFrame DEF WorkerFinish, RunningRowHasWorker
  <2>3. CASE x = y
    BY <1>24, <2>3, WorkerFrame, OthersExecute DEF WorkerFinish, Live, RecStatus
  <2>. QED BY <2>2, <2>3
<1>25. ASSUME NEW t \in Threads, NEW y \in Recs, WorkerLost(t, y) PROVE \E u \in Threads : thr'[u].w[x] \in {"exec", "hung"}
  <2>1. PICK from, to : Worker(t, y, from, to)
    BY <1>25 DEF WorkerLost
  <2>2. CASE x # y
    <3>1. recs[x] = "running"
      BY <1>25, <2>2 DEF WorkerLost
    <3>. QED BY <1>25, <2>1, <2>2, <3>1, WorkerFrame DEF WorkerLost, RunningRowHasWorker
  <2>3. CASE x = y
    BY <1>25, <2>3, WorkerFrame, OthersExecute DEF WorkerLost, Live, RecStatus
  <2>. QED BY <2>2, <2>3
<1>26. ASSUME NEW t \in Threads, NEW y \in Recs, WorkerSnapshot(t, y) PROVE \E u \in Threads : thr'[u].w[x] \in {"exec", "hung"}
  <2>1. PICK from, to : Worker(t, y, from, to)
    BY <1>26 DEF WorkerSnapshot
  <2>2. CASE x # y
    <3>1. recs[x] = "running"
      BY <1>26, <2>2 DEF WorkerSnapshot
    <3>. QED BY <1>26, <2>1, <2>2, <3>1, WorkerFrame DEF WorkerSnapshot, RunningRowHasWorker
  <2>3. CASE x = y
    BY <1>26, <2>3, WorkerFrame, OthersExecute DEF WorkerSnapshot, Live, RecStatus
  <2>. QED BY <2>2, <2>3
<1>27. ASSUME NEW y \in Recs, Rollback(y) PROVE \E u \in Threads : thr'[u].w[x] \in {"exec", "hung"}
  BY <1>27 DEF Rollback, RunningRowHasWorker
<1>28. ~Crash
  BY DEF Crash
<1>29. CASE UNCHANGED vars
  BY <1>29 DEF vars, RunningRowHasWorker
<1>30. ASSUME NEW t \in Threads, Breaks(t) PROVE \E u \in Threads : thr'[u].w[x] \in {"exec", "hung"}
  BY <1>30, OthersExecute DEF Breaks, Done
<1>31. ASSUME NEW t \in Threads, NEW y \in Recs, WorkerBreaks(t, y) PROVE \E u \in Threads : thr'[u].w[x] \in {"exec", "hung"}
  <2>1. PICK from, to : Worker(t, y, from, to)
    BY <1>31 DEF WorkerBreaks
  <2>2. CASE x # y
    BY <1>31, <2>1, <2>2, WorkerFrame DEF WorkerBreaks, RunningRowHasWorker
  <2>3. CASE x = y
    BY <1>31, <2>3, WorkerFrame, OthersExecute DEF WorkerBreaks
  <2>. QED BY <2>2, <2>3
<1>32. ASSUME NEW t \in Threads, NEW y \in Recs, WorkerHangs(t, y) PROVE \E u \in Threads : thr'[u].w[x] \in {"exec", "hung"}
  <2>1. PICK from, to : Worker(t, y, from, to)
    BY <1>32 DEF WorkerHangs
  <2>2. CASE x # y
    BY <1>32, <2>1, <2>2, WorkerFrame DEF WorkerHangs, RunningRowHasWorker
  <2>3. CASE x = y
    BY <1>32, <2>3, WorkerFrame, OthersExecute DEF WorkerHangs
  <2>. QED BY <2>2, <2>3
<1>. QED BY <1>1, <1>2, <1>3, <1>4, <1>5, <1>6, <1>7, <1>8, <1>9, <1>10,
    <1>11, <1>12, <1>13, <1>14, <1>15, <1>16, <1>17, <1>18, <1>19, <1>20,
    <1>21, <1>22, <1>23, <1>24, <1>25, <1>26, <1>27, <1>28, <1>29, <1>30,
    <1>31, <1>32 DEF Next, Arrival, Proceed, Work, WorkerStep

-----------------------------------------------------------------------------
(* The theorems                                                            *)

LEMMA IndInit == Init => IInv
<1>. SUFFICES ASSUME Init PROVE IInv
  OBVIOUS
<1>1. TypeOK
  BY TypeInit
<1>2. ThreadInv
  BY DEF Init, ThreadInv, Idle, Writing
<1>3. RunningTaskHasRun
  BY SubmittedType DEF Init, RunningTaskHasRun, Stranded
<1>4. RunningRowHasWorker
  BY DEF Init, RunningRowHasWorker
<1>5. SeenInv
  BY DEF Init, SeenInv, Idle
<1>. QED BY <1>1, <1>2, <1>3, <1>4, <1>5 DEF IInv

LEMMA IndStep == IInv /\ [Next]_vars => IInv'
BY TypeStep, ThreadStep, SeenStep, RunningTaskStep, RowStep DEF IInv

\* The variables stay within their types: every status a request, a run or a
\* worker writes is one that the rest of the execution centre knows.
THEOREM TypeCorrect == Spec => []TypeOK
<1>1. IInv => TypeOK
  BY DEF IInv
<1>. QED BY IndInit, IndStep, <1>1, PTL DEF Spec

\* For any number of threads, devices and workers: a task in 'running' has a run
\* that will take it out of it, unless the process died under the run or its last
\* session failed (run_task, _refresh_task_summary, the gates of the routes).
THEOREM TaskNeverStranded == Spec => []RunningTaskHasRun
<1>1. IInv => RunningTaskHasRun
  BY DEF IInv
<1>. QED BY IndInit, IndStep, <1>1, PTL DEF Spec

LEMMA StrandedMove ==
    IInv /\ [Next]_vars /\ Stranded =>
        \/ exists' /\ task'.status = "running"
        \/ \E t \in Threads : CancelMark(t) \/ ApproveCommit(t) \/ RejectCommit(t)
        \/ \E t \in Threads : DecidedBefore(t)
<1>. SUFFICES ASSUME IInv, [Next]_vars, Stranded,
                     \A t \in Threads : ~CancelMark(t) /\ ~ApproveCommit(t) /\ ~RejectCommit(t),
                     \A t \in Threads : ~DecidedBefore(t)
              PROVE  exists' /\ task'.status = "running"
  OBVIOUS
<1>. USE DEF IInv, Stranded
<1>1. ASSUME NEW t \in Threads, Arrival(t) PROVE exists' /\ task'.status = "running"
  BY <1>1 DEF Arrival, TaskRun, SchedLoad, ApproveLoad, RejectLoad, EditLoad, DeleteLoad,
              CancelSignal
<1>2. ASSUME NEW t \in Threads, SchedCommit(t) \/ EditCommit(t) \/ DeleteCommit(t) PROVE FALSE
  BY <1>2 DEF SeenInv, DecidedBefore, SchedCommit, EditCommit, DeleteCommit
<1>3. ASSUME NEW t \in Threads, RunCommit(t) PROVE exists' /\ task'.status = "running"
  <2>1. thr[t].seen \in TaskRow /\ thr[t].new \in TaskRow /\ thr[t].new.status = "running"
    BY <1>3 DEF RunCommit, TypeOK, ThreadState, ThreadInv
  <2>. QED BY <1>3, <2>1, FlushType DEF RunCommit, TypeOK
<1>4. ASSUME NEW t \in Threads, FinishCommit(t) PROVE exists' /\ task'.status = "running"
  <2>1. thr[t].seen \in TaskRow /\ thr[t].new \in TaskRow
    BY DEF TypeOK, ThreadState
  <2>2. thr[t].new.status = thr[t].seen.status
    BY <1>4 DEF FinishCommit, WillReport
  <2>. QED BY <1>4, <2>1, <2>2, FlushType DEF FinishCommit, TypeOK
<1>5. ASSUME NEW t \in Threads,
             \/ RunLoad(t) \/ RunRefused(t) \/ RunClear(t) \/ RunPool(t)
             \/ FinishLoad(t) \/ Breaks(t)
      PROVE  exists' /\ task'.status = "running"
  BY <1>5 DEF RunLoad, RunRefused, RunClear, RunPool, FinishLoad, Breaks
<1>6. ASSUME NEW t \in Threads, NEW x \in Recs, WorkerStep(t, x)
      PROVE  exists' /\ task'.status = "running"
  BY <1>6 DEF WorkerStep, Work, WorkerSkip, WorkerPick, WorkerStart, WorkerFinish, WorkerLost,
              WorkerSnapshot, WorkerBreaks, WorkerHangs
<1>7. ASSUME NEW x \in Recs, Rollback(x) PROVE exists' /\ task'.status = "running"
  BY <1>7 DEF Rollback
<1>8. CASE Crash
  BY <1>8 DEF Crash
<1>9. CASE UNCHANGED vars
  BY <1>9 DEF vars
<1>. QED BY <1>1, <1>2, <1>3, <1>4, <1>5, <1>6, <1>7, <1>8, <1>9 DEF Next, Proceed

\* A task without a run to report stays in 'running' until somebody cancels it or
\* decides its approval, but for what was decided before it ran (task_run, task_edit,
\* task_delete and run_scheduled_exec_task refuse a running task).
THEOREM StrandedTaskWaits == Spec => StrandedUntilDecision
<1>1. IInv /\ [Next]_vars =>
        [Stranded => \/ exists' /\ task'.status = "running"
                     \/ \E t \in Threads : CancelMark(t) \/ ApproveCommit(t) \/ RejectCommit(t)
                     \/ \E t \in Threads : DecidedBefore(t)
        ]_vars
  BY StrandedMove
<1>. QED BY IndInit, IndStep, <1>1, PTL DEF Spec, StrandedUntilDecision

\* A device row in 'running' has a worker on the device, unless the process died
\* under the worker or a flush or commit of it failed (_run_device_exec).
THEOREM RowNeverOrphaned == Spec => []RunningRowHasWorker
<1>1. IInv => RunningRowHasWorker
  BY DEF IInv
<1>. QED BY IndInit, IndStep, <1>1, PTL DEF Spec

-----------------------------------------------------------------------------
(* One run at a time                                                       *)

OneRunner == \A t, u \in Runners : t = u

Running == {"scheduling", "approving", "called", "loaded", "cleared", "committed",
            "pool", "finalize"}

\* The Event of an open pool is the registered one.
PoolInv ==
    \A t \in Threads :
       /\ thr[t].pc \in Running => t \in Runners
       /\ thr[t].pc = "pool" => registered = thr[t].ev /\ registered # NoEvent

\* A thread that goes on to a place in front of the pool, or to none.
LEMMA PoolFrame ==
    ASSUME TypeOK, PoolInv, NEW t \in Threads,
           \A u \in Threads \ {t} : thr'[u] = thr[u],
           thr'[t].pc # "pool", thr'[t].pc \in Running => t \in Runners,
           registered' = registered
    PROVE  PoolInv'
BY DEF PoolInv

LEMMA PoolStep ==
    ASSUME OneRunner, TypeOK, PoolInv, [Next]_vars
    PROVE  PoolInv'
<1> USE DEF Running
<1>1. ASSUME NEW t \in Threads, TaskRun(t) \/ SchedLoad(t) PROVE PoolInv'
  <2>1. /\ \A u \in Threads \ {t} : thr'[u] = thr[u]
        /\ thr'[t].pc \in {"called", "scheduling"} /\ t \in Runners
    <3>1. CASE TaskRun(t)
      <4>1. PICK retry \in BOOLEAN :
              thr' = [thr EXCEPT ![t] = [Idle EXCEPT !.pc = "called", !.retry = retry]]
        BY <3>1 DEF TaskRun
      <4> QED  BY <3>1, <4>1 DEF TaskRun, TypeOK, Idle
    <3>2. CASE SchedLoad(t)
      BY <3>2 DEF SchedLoad, TypeOK, Idle
    <3> QED  BY <1>1, <3>1, <3>2
  <2> QED  BY <1>1, <2>1, PoolFrame DEF TaskRun, SchedLoad
<1>2. ASSUME NEW t \in Threads, ApproveLoad(t) PROVE PoolInv'
  BY <1>2, LoadState, PoolFrame DEF ApproveLoad
<1>3. ASSUME NEW t \in Threads, RejectLoad(t) \/ EditLoad(t) \/ DeleteLoad(t) PROVE PoolInv'
  <2>1. PICK pc \in {"rejecting", "editing", "retarget", "deleting"} :
          \E new : Load(t, pc, new)
    BY <1>3 DEF RejectLoad, EditLoad, DeleteLoad
  <2>2. PICK new : Load(t, pc, new)
    BY <2>1
  <2> QED  BY <1>3, <2>2, LoadState, PoolFrame DEF RejectLoad, EditLoad, DeleteLoad
<1>4. ASSUME NEW t \in Threads, CancelSignal(t) PROVE PoolInv'
  <2>1. PICK e \in Events : /\ IF registered = NoEvent THEN e \notin InUse ELSE e = registered
                            /\ registered' = e
    BY <1>4 DEF CancelSignal
  <2>3. (\A u \in Threads \ {t} : thr'[u] = thr[u]) /\ thr'[t].pc \in {"idle", "cancelling"}
    <3>1. CASE thr' = thr
      BY <1>4, <3>1 DEF CancelSignal
    <3>2. CASE Load(t, "cancelling", [task EXCEPT !.status = "cancelled"])
      BY <3>2, LoadState
    <3> QED  BY <1>4, <3>1, <3>2 DEF CancelSignal
  <2> QED  BY <2>1, <2>3, EventsAssumption DEF PoolInv
<1>5. ASSUME NEW t \in Threads,
             \/ RejectCommit(t) \/ EditCommit(t) \/ DeleteCommit(t) \/ CancelMark(t)
             \/ RunRefused(t) \/ FinishCommit(t) \/ Breaks(t)
      PROVE  PoolInv'
  BY <1>5, DoneState, PoolFrame
     DEF RejectCommit, EditCommit, DeleteCommit, CancelMark, RunRefused, FinishCommit, Breaks
<1>6. ASSUME NEW t \in Threads, SchedCommit(t) \/ ApproveCommit(t) PROVE PoolInv'
  <2>1. t \in Runners /\ registered' = registered
    BY <1>6 DEF SchedCommit, ApproveCommit, PoolInv
  <2>2. CASE exists
    BY <1>6, <2>1, <2>2, PoolFrame DEF SchedCommit, ApproveCommit, TypeOK, Idle
  <2>3. CASE ~exists
    BY <1>6, <2>1, <2>3, DoneState, PoolFrame DEF SchedCommit, ApproveCommit
  <2> QED  BY <2>2, <2>3
<1>7. ASSUME NEW t \in Threads, RunLoad(t) PROVE PoolInv'
  BY <1>7, PoolFrame DEF RunLoad, PoolInv, TypeOK, ThreadState
<1>8. ASSUME NEW t \in Threads, RunClear(t) PROVE PoolInv'
  <2>1. t \in Runners /\ \A u \in Threads \ {t} : thr[u].pc # "pool"
    BY <1>8 DEF RunClear, PoolInv, OneRunner
  <2>2. (\A u \in Threads \ {t} : thr'[u] = thr[u]) /\ thr'[t].pc = "cleared"
    BY <1>8 DEF RunClear, TypeOK, ThreadState
  <2> QED  BY <2>1, <2>2 DEF PoolInv
<1>9. ASSUME NEW t \in Threads, RunCommit(t) PROVE PoolInv'
  <2>1. t \in Runners /\ registered' = registered
    BY <1>9 DEF RunCommit, PoolInv
  <2>2. CASE exists
    <3>1. thr' = [thr EXCEPT ![t] = [@ EXCEPT !.pc = "committed", !.seen = NoRow, !.new = NoRow]]
      BY <1>9, <2>2 DEF RunCommit
    <3>2. (\A u \in Threads \ {t} : thr'[u] = thr[u]) /\ thr'[t].pc = "committed"
      BY <3>1 DEF TypeOK, ThreadState
    <3> QED  BY <2>1, <3>2, PoolFrame
  <2>3. CASE ~exists
    BY <1>9, <2>1, <2>3, DoneState, PoolFrame DEF RunCommit
  <2> QED  BY <2>2, <2>3
<1>10. ASSUME NEW t \in Threads, RunPool(t) PROVE PoolInv'
  <2>1. t \in Runners /\ \A u \in Threads \ {t} : thr[u].pc # "pool"
    BY <1>10 DEF RunPool, PoolInv, OneRunner
  <2>2. PICK e \in Events : /\ registered' = e
                            /\ thr' = [thr EXCEPT ![t] = [@ EXCEPT !.pc = "pool", !.ev = e]]
    BY <1>10 DEF RunPool
  <2>3. (\A u \in Threads \ {t} : thr'[u] = thr[u]) /\ thr'[t].ev = e
    BY <2>2 DEF TypeOK, ThreadState
  <2> QED  BY <2>1, <2>2, <2>3, EventsAssumption DEF PoolInv
<1>11. ASSUME NEW t \in Threads, FinishLoad(t) PROVE PoolInv'
  <2>1. t \in Runners /\ registered' = registered
    BY <1>11 DEF FinishLoad, PoolInv
  <2>2. CASE exists
    <3>1. (\A u \in Threads \ {t} : thr'[u] = thr[u]) /\ thr'[t].pc = "finalize"
      BY <1>11, <2>2 DEF FinishLoad, TypeOK, ThreadState
    <3> QED  BY <2>1, <3>1, PoolFrame
  <2>3. CASE ~exists
    BY <1>11, <2>1, <2>3, DoneState, PoolFrame DEF FinishLoad
  <2> QED  BY <2>2, <2>3
<1>12. ASSUME NEW t \in Threads, NEW x \in Recs, WorkerStep(t, x)
       PROVE  PoolInv'
  <2>1. PICK from, to : Worker(t, x, from, to)
    BY <1>12 DEF WorkerStep, Work, WorkerSkip, WorkerPick, WorkerStart, WorkerFinish, WorkerLost,
                 WorkerSnapshot, WorkerBreaks, WorkerHangs
  <2>2. registered' = registered
    BY <1>12 DEF WorkerStep, Work, WorkerSkip, WorkerPick, WorkerStart, WorkerFinish, WorkerLost,
                 WorkerSnapshot, WorkerBreaks, WorkerHangs
  <2> QED  BY <2>1, <2>2, WorkerPlaces DEF PoolInv
<1>13. ASSUME NEW x \in Recs, Rollback(x) PROVE PoolInv'
  BY <1>13 DEF Rollback, PoolInv
<1>14. CASE Crash
  BY <1>14 DEF Crash, PoolInv, Idle
<1>15. CASE UNCHANGED vars
  BY <1>15 DEF vars, PoolInv
<1> QED  BY <1>1, <1>2, <1>3, <1>4, <1>5, <1>6, <1>7, <1>8, <1>9, <1>10, <1>11,
            <1>12, <1>13, <1>14, <1>15 DEF Next, Arrival, Proceed

\* With one thread that runs the task, a cancel signals the Event that the
\* workers look at, even if it comes between the clearing of the Event and the
\* commit of 'running' (run_task, _get_cancel_event).
THEOREM CancelReachesRun ==
    ASSUME OneRunner PROVE Spec => []CancelFindsRun
<1>1. Init => TypeOK /\ PoolInv
  BY TypeInit DEF Init, PoolInv, Idle, Running
<1>2. TypeOK /\ PoolInv /\ [Next]_vars => (TypeOK /\ PoolInv)'
  BY TypeStep, PoolStep
<1>3. PoolInv => CancelFindsRun
  BY DEF PoolInv, CancelFindsRun
<1> QED  BY <1>1, <1>2, <1>3, PTL DEF Spec

\* No device of the task has failed or is still executing.
NoFailure == \A x \in Live : recs[x] \notin {"failed", "running"}

\* A task that is 'completed' hides nothing and has no open pool ...
HonestTask ==
    exists /\ task.status = "completed" =>
        NoFailure /\ \A t \in Threads : thr[t].pc \notin {"committed", "pool"}

\* ... only the end of a run completes it, and what that has found is still so.
HonestThread(t) ==
    /\ thr[t].pc \in {"loaded", "cleared"} => thr[t].seen.status # "running"
    /\ thr[t].pc \in Writing /\ thr[t].new.status = "completed" =>
          IF thr[t].pc = "finalize" THEN exists => NoFailure
                                    ELSE thr[t].seen.status = "completed"

HonestInv == HonestTask /\ \A t \in Threads : HonestThread(t)

\* A step of one thread that completes nothing and makes no device fail.
LEMMA HonestFrame ==
    ASSUME TypeOK, HonestInv, NEW t \in Threads,
           \A u \in Threads \ {t} : thr'[u] = thr[u],
           HonestThread(t)',
           exists' => exists /\ (NoFailure => NoFailure'),
           exists' /\ task'.status = "completed" =>
               task.status = "completed" /\ thr'[t].pc \notin {"committed", "pool"}
    PROVE  HonestInv'
<1>1. HonestTask'
  BY DEF HonestInv, HonestTask
<1>2. ASSUME NEW u \in Threads PROVE HonestThread(u)'
  <2>1. CASE u = t
    BY <2>1
  <2>2. CASE u # t
    BY <2>2 DEF HonestInv, HonestThread
  <2> QED  BY <2>1, <2>2
<1> QED  BY <1>1, <1>2 DEF HonestInv

\* A thread that writes nothing, or nothing but what it has loaded.
LEMMA QuietThread ==
    ASSUME NEW t \in Threads,
           \/ thr'[t].pc \notin Writing \cup {"loaded", "cleared"}
           \/ /\ thr'[t].pc \notin {"finalize", "loaded", "cleared"}
              /\ thr'[t].new.status \in {thr'[t].seen.status, "ready", "waiting_approval",
                                         "rejected", "cancelled"}
    PROVE  HonestThread(t)'
BY DEF HonestThread, Writing

\* A request that has loaded the task and begins.
LEMMA LoadHonest ==
    ASSUME TypeOK, HonestInv, NEW t \in Threads,
           NEW pc \in {"approving", "rejecting", "editing", "retarget", "deleting", "cancelling"},
           NEW new, new.status \in {task.status, "ready", "waiting_approval", "rejected", "cancelled"},
           Load(t, pc, new), UNCHANGED <<exists, task>>, NoFailure => NoFailure'
    PROVE  HonestInv'
<1>1. /\ \A u \in Threads \ {t} : thr'[u] = thr[u]
      /\ thr'[t].pc = pc /\ thr'[t].seen = task /\ thr'[t].new = new
  BY LoadState
<1>2. HonestThread(t)'
  BY <1>1, QuietThread
<1> QED  BY <1>1, <1>2, HonestFrame

\* A request that writes what it has loaded, and ends.
LEMMA WriteHonest ==
    ASSUME TypeOK, HonestInv, NEW t \in Threads, thr[t].pc \in Writing \ {"finalize"},
           \A u \in Threads \ {t} : thr'[u] = thr[u], thr'[t].pc \in {"idle", "called"},
           exists' = exists, task' = IF exists THEN Flush(thr[t].seen, thr[t].new) ELSE task,
           NoFailure => NoFailure'
    PROVE  HonestInv'
<1>1. thr[t].seen \in TaskRow /\ thr[t].new \in TaskRow
  BY DEF TypeOK, ThreadState
<1>2. task'.status = IF ~exists \/ thr[t].new.status = thr[t].seen.status
                     THEN task.status ELSE thr[t].new.status
  BY <1>1, FlushType DEF TypeOK
<1>3. task'.status = "completed" => task.status = "completed"
  BY <1>2 DEF HonestInv, HonestThread
<1>4. HonestThread(t)'
  BY QuietThread DEF Writing
<1> QED  BY <1>3, <1>4, HonestFrame

LEMMA HonestStep ==
    ASSUME OneRunner, "rollback" \notin Requests, TypeOK, ThreadInv, PoolInv, HonestInv,
           [Next]_vars
    PROVE  HonestInv'
<1>1. ASSUME NEW t \in Threads, TaskRun(t) PROVE HonestInv'
  <2>1. PICK retry \in BOOLEAN :
          thr' = [thr EXCEPT ![t] = [Idle EXCEPT !.pc = "called", !.retry = retry]]
    BY <1>1 DEF TaskRun
  <2>2. (\A u \in Threads \ {t} : thr'[u] = thr[u]) /\ thr'[t].pc = "called"
    BY <2>1 DEF TypeOK, Idle
  <2>3. HonestThread(t)'
    BY <2>2, QuietThread DEF Writing
  <2>4. UNCHANGED <<exists, task, recs>>
    BY <1>1 DEF TaskRun
  <2> QED  BY <2>2, <2>3, <2>4, HonestFrame DEF NoFailure, Live
<1>2. ASSUME NEW t \in Threads, SchedLoad(t) PROVE HonestInv'
  <2>1. /\ \A u \in Threads \ {t} : thr'[u] = thr[u]
        /\ thr'[t].pc = "scheduling" /\ thr'[t].new = [task EXCEPT !.status = "ready"]
    BY <1>2 DEF SchedLoad, TypeOK, Idle
  <2>2. thr'[t].new.status = "ready"
    BY <2>1 DEF TypeOK, TaskRow
  <2>3. HonestThread(t)'
    BY <2>1, <2>2, QuietThread
  <2>4. UNCHANGED <<exists, task, recs>>
    BY <1>2 DEF SchedLoad
  <2> QED  BY <2>1, <2>3, <2>4, HonestFrame DEF NoFailure, Live
<1>3. ASSUME NEW t \in Threads, ApproveLoad(t) \/ RejectLoad(t) \/ EditLoad(t) \/ DeleteLoad(t)
      PROVE  HonestInv'
  <2>1. PICK pc \in {"approving", "rejecting", "editing", "retarget", "deleting"} : \E new :
          /\ Load(t, pc, new)
          /\ new.status \in {task.status, "ready", "waiting_approval", "rejected", "cancelled"}
    <3>1. CASE ApproveLoad(t)
      <4>1. Load(t, "approving", [task EXCEPT !.approval = "approved", !.status = "ready"])
        BY <3>1 DEF ApproveLoad
      <4>2. [task EXCEPT !.approval = "approved", !.status = "ready"].status = "ready"
        BY DEF TypeOK, TaskRow
      <4> QED  BY <4>1, <4>2
    <3>2. CASE RejectLoad(t)
      <4>1. Load(t, "rejecting", [task EXCEPT !.approval = "rejected", !.status = "rejected"])
        BY <3>2 DEF RejectLoad
      <4>2. [task EXCEPT !.approval = "rejected", !.status = "rejected"].status = "rejected"
        BY DEF TypeOK, TaskRow
      <4> QED  BY <4>1, <4>2
    <3>3. CASE EditLoad(t)
      BY <3>3 DEF EditLoad, Submitted, Row, TypeOK, TaskRow
    <3>4. CASE DeleteLoad(t)
      BY <3>4 DEF DeleteLoad
    <3> QED  BY <1>3, <3>1, <3>2, <3>3, <3>4
  <2>2. PICK new :
          /\ Load(t, pc, new)
          /\ new.status \in {task.status, "ready", "waiting_approval", "rejected", "cancelled"}
    BY <2>1
  <2>3. UNCHANGED <<exists, task, recs>>
    BY <1>3 DEF ApproveLoad, RejectLoad, EditLoad, DeleteLoad
  <2> QED  BY <2>2, <2>3, LoadHonest DEF NoFailure, Live
<1>4. ASSUME NEW t \in Threads, CancelSignal(t) PROVE HonestInv'
  <2>1. UNCHANGED <<exists, task>> /\ thr[t].pc = "idle"
    BY <1>4 DEF CancelSignal
  <2>2. CASE UNCHANGED <<recs, thr>>
    <3>1. HonestThread(t)'
      BY <2>1, <2>2, QuietThread DEF Writing
    <3> QED  BY <2>1, <2>2, <3>1, HonestFrame DEF NoFailure, Live
  <2>3. CASE /\ recs' = [x \in Recs |-> IF recs[x] = "pending" THEN "cancelled" ELSE recs[x]]
             /\ Load(t, "cancelling", [task EXCEPT !.status = "cancelled"])
    <3>1. NoFailure => NoFailure'
      BY <2>3 DEF NoFailure, Live, RecStatus
    <3>2. PICK new : Load(t, "cancelling", new) /\ new.status = "cancelled"
      <4>1. [task EXCEPT !.status = "cancelled"].status = "cancelled"
        BY DEF TypeOK, TaskRow
      <4> QED  BY <2>3, <4>1
    <3> QED  BY <2>1, <3>1, <3>2, LoadHonest
  <2> QED  BY <1>4, <2>2, <2>3 DEF CancelSignal
<1>5. ASSUME NEW t \in Threads, SchedCommit(t) \/ ApproveCommit(t) PROVE HonestInv'
  <2>1. /\ \A u \in Threads \ {t} : thr'[u] = thr[u]
        /\ thr'[t].pc \in {"idle", "called"}
    <3>1. CASE exists
      BY <1>5, <3>1 DEF SchedCommit, ApproveCommit, TypeOK, Idle
    <3>2. CASE ~exists
      BY <1>5, <3>2, DoneState DEF SchedCommit, ApproveCommit
    <3> QED  BY <3>1, <3>2
  <2>2. /\ UNCHANGED <<exists, recs>> /\ thr[t].pc \in Writing \ {"finalize"}
        /\ task' = IF exists THEN Flush(thr[t].seen, thr[t].new) ELSE task
    BY <1>5 DEF SchedCommit, ApproveCommit, Writing
  <2>3. NoFailure => NoFailure'
    BY <2>2 DEF NoFailure, Live
  <2> QED  BY <2>1, <2>2, <2>3, WriteHonest
<1>6. ASSUME NEW t \in Threads, RejectCommit(t) \/ CancelMark(t) \/ EditCommit(t)
      PROVE  HonestInv'
  <2>1. Done(t) /\ exists' = exists /\ thr[t].pc \in Writing \ {"finalize"}
    BY <1>6 DEF RejectCommit, CancelMark, EditCommit, Writing
  <2>2. task' = IF exists THEN Flush(thr[t].seen, thr[t].new) ELSE task
    BY <1>6 DEF RejectCommit, CancelMark, EditCommit
  <2>3. NoFailure => NoFailure'
    BY <1>6 DEF RejectCommit, CancelMark, EditCommit, NoFailure, Live, RecStatus, TypeOK
  <2> QED  BY <2>1, <2>2, <2>3, DoneState, WriteHonest
<1>7. ASSUME NEW t \in Threads, DeleteCommit(t) PROVE HonestInv'
  <2>1. ~exists' /\ Done(t)
    BY <1>7 DEF DeleteCommit
  <2>2. HonestThread(t)'
    BY <2>1, DoneState, QuietThread DEF Writing
  <2> QED  BY <2>1, <2>2, DoneState, HonestFrame
<1>8. ASSUME NEW t \in Threads, RunLoad(t) PROVE HonestInv'
  <2>1. /\ \A u \in Threads \ {t} : thr'[u] = thr[u]
        /\ thr'[t].pc = "loaded" /\ thr'[t].seen = task
    BY <1>8 DEF RunLoad, TypeOK, ThreadState
  <2>2. UNCHANGED <<exists, task, recs>> /\ task.status # "running"
    BY <1>8 DEF RunLoad
  <2>3. HonestThread(t)'
    BY <2>1, <2>2 DEF HonestThread, Writing
  <2> QED  BY <2>1, <2>2, <2>3, HonestFrame DEF NoFailure, Live
<1>9. ASSUME NEW t \in Threads, RunRefused(t) PROVE HonestInv'
  <2>1. Done(t) /\ UNCHANGED <<exists, recs>> /\ task' \in {task, [task EXCEPT !.status = "failed"]}
    BY <1>9 DEF RunRefused
  <2>2. task'.status = "completed" => task.status = "completed"
    BY <2>1 DEF TypeOK, TaskRow
  <2>3. HonestThread(t)'
    BY <2>1, DoneState, QuietThread DEF Writing
  <2> QED  BY <2>1, <2>2, <2>3, DoneState, HonestFrame DEF NoFailure, Live
<1>10. ASSUME NEW t \in Threads, RunClear(t) PROVE HonestInv'
  <2>1. /\ \A u \in Threads \ {t} : thr'[u] = thr[u]
        /\ thr'[t].pc = "cleared" /\ thr'[t].seen = thr[t].seen /\ thr[t].pc = "loaded"
    BY <1>10 DEF RunClear, TypeOK, ThreadState
  <2>2. HonestThread(t)'
    BY <2>1 DEF HonestInv, HonestThread, Writing
  <2>3. UNCHANGED <<exists, task, recs>>
    BY <1>10 DEF RunClear
  <2> QED  BY <2>1, <2>2, <2>3, HonestFrame DEF NoFailure, Live
<1>11. ASSUME NEW t \in Threads, RunCommit(t) PROVE HonestInv'
  <2>1. thr[t].pc = "cleared" /\ UNCHANGED <<exists, recs>>
    BY <1>11 DEF RunCommit
  <2>2. CASE exists
    <3>1. /\ task' = Flush(thr[t].seen, thr[t].new)
          /\ thr' = [thr EXCEPT ![t] = [@ EXCEPT !.pc = "committed", !.seen = NoRow, !.new = NoRow]]
      BY <1>11, <2>2 DEF RunCommit
    <3>2. (\A u \in Threads \ {t} : thr'[u] = thr[u]) /\ thr'[t].pc = "committed"
      BY <3>1 DEF TypeOK, ThreadState
    <3>3. thr[t].seen \in TaskRow /\ thr[t].new \in TaskRow
      BY DEF TypeOK, ThreadState
    <3>4. thr[t].new.status = "running" /\ thr[t].seen.status # "running"
      BY <2>1 DEF ThreadInv, HonestInv, HonestThread
    <3>5. task'.status = "running"
      BY <3>1, <3>3, <3>4, FlushType DEF TypeOK
    <3>6. HonestThread(t)'
      BY <3>2, QuietThread DEF Writing
    <3> QED  BY <2>1, <3>2, <3>5, <3>6, HonestFrame DEF NoFailure, Live
  <2>3. CASE ~exists
    <3>1. Done(t)
      BY <1>11, <2>3 DEF RunCommit
    <3>2. HonestThread(t)'
      BY <3>1, DoneState, QuietThread DEF Writing
    <3> QED  BY <2>1, <2>3, <3>1, <3>2, DoneState, HonestFrame
  <2> QED  BY <2>2, <2>3
<1>12. ASSUME NEW t \in Threads, RunPool(t) PROVE HonestInv'
  <2>1. (\A u \in Threads \ {t} : thr'[u] = thr[u]) /\ thr'[t].pc = "pool"
    BY <1>12 DEF RunPool, TypeOK, ThreadState
  <2>2. UNCHANGED <<exists, task, recs>> /\ thr[t].pc = "committed"
    BY <1>12 DEF RunPool
  <2>3. HonestThread(t)'
    BY <2>1, QuietThread DEF Writing
  <2>4. ~(exists /\ task.status = "completed")
    BY <2>2 DEF HonestInv, HonestTask
  <2> QED  BY <2>1, <2>2, <2>3, <2>4, HonestFrame DEF NoFailure, Live
<1>13. ASSUME NEW t \in Threads, FinishLoad(t) PROVE HonestInv'
  <2>1. UNCHANGED <<exists, task, recs>>
    BY <1>13 DEF FinishLoad
  <2>2. CASE exists
    <3> DEFINE new == [task EXCEPT !.status = Summary]
    <3>0. /\ \A u \in Threads \ {t} : thr'[u] = thr[u]
          /\ thr'[t] = [thr[t] EXCEPT !.pc = "finalize", !.ev = NoEvent, !.seen = task,
                                      !.new = new]
          /\ thr[t] \in ThreadState
      BY <1>13, <2>2 DEF FinishLoad, TypeOK
    <3>1. /\ \A u \in Threads \ {t} : thr'[u] = thr[u]
          /\ thr'[t].pc = "finalize" /\ thr'[t].new = new
      <4> HIDE DEF new
      <4> QED  BY <3>0 DEF ThreadState
    <3>2. thr'[t].new.status = Summary
      BY <3>1 DEF TypeOK, TaskRow
    <3>3. Summary = "completed" => NoFailure
      BY DEF Summary, AllLive, NoFailure
    <3>4. HonestThread(t)'
      BY <2>1, <3>1, <3>2, <3>3 DEF HonestThread, NoFailure, Live
    <3> QED  BY <2>1, <3>1, <3>4, HonestFrame DEF NoFailure, Live
  <2>3. CASE ~exists
    <3>1. Done(t)
      BY <1>13, <2>3 DEF FinishLoad
    <3>2. HonestThread(t)'
      BY <3>1, DoneState, QuietThread DEF Writing
    <3> QED  BY <2>1, <2>3, <3>1, <3>2, DoneState, HonestFrame
  <2> QED  BY <2>2, <2>3
<1>14. ASSUME NEW t \in Threads, FinishCommit(t) PROVE HonestInv'
  <2>1. /\ thr[t].pc = "finalize" /\ Done(t) /\ UNCHANGED <<exists, recs>>
        /\ task' = IF exists THEN Flush(thr[t].seen, thr[t].new) ELSE task
    BY <1>14 DEF FinishCommit
  <2>2. /\ \A u \in Threads \ {t} : thr'[u] = thr[u]
        /\ thr'[t].pc = "idle"
    BY <2>1, DoneState
  <2>3. HonestThread(t)'
    BY <2>2, QuietThread DEF Writing
  <2>4. CASE exists' /\ task'.status = "completed" /\ task.status # "completed"
    <3>1. thr[t].seen \in TaskRow /\ thr[t].new \in TaskRow
      BY DEF TypeOK, ThreadState
    <3>2. thr[t].new.status = "completed"
      BY <2>1, <2>4, <3>1, FlushType DEF TypeOK
    <3>3. NoFailure
      BY <2>1, <2>4, <3>2 DEF HonestInv, HonestThread, Writing
    <3>4. \A u \in Threads \ {t} : thr[u].pc \notin Running
      BY <2>1 DEF PoolInv, OneRunner, Running
    <3>5. HonestTask'
      BY <2>1, <2>2, <3>3, <3>4 DEF HonestTask, NoFailure, Live, Running
    <3>6. ASSUME NEW u \in Threads \ {t} PROVE HonestThread(u)'
      BY <2>1, <2>2, <3>4 DEF HonestInv, HonestThread, Writing, Running
    <3> QED  BY <2>3, <3>5, <3>6 DEF HonestInv
  <2>5. CASE ~(exists' /\ task'.status = "completed" /\ task.status # "completed")
    BY <2>1, <2>2, <2>3, <2>5, HonestFrame DEF NoFailure, Live
  <2> QED  BY <2>4, <2>5
<1>15. ASSUME NEW t \in Threads, NEW x \in Recs, WorkerStep(t, x)
       PROVE  HonestInv'
  <2>1. PICK from, to : Worker(t, x, from, to)
    BY <1>15 DEF WorkerStep, Work, WorkerSkip, WorkerPick, WorkerStart, WorkerFinish, WorkerLost,
                 WorkerSnapshot, WorkerBreaks, WorkerHangs
  <2>2. UNCHANGED <<exists, task>>
    BY <1>15 DEF WorkerStep, Work, WorkerSkip, WorkerPick, WorkerStart, WorkerFinish, WorkerLost,
                 WorkerSnapshot, WorkerBreaks, WorkerHangs
  <2>3. thr[t].pc = "pool"
    BY <2>1 DEF Worker
  <2>4. \A u \in Threads : thr[u].pc # "finalize"
    BY <2>3 DEF PoolInv, OneRunner, Running
  <2>5. HonestTask'
    BY <2>2, <2>3 DEF HonestInv, HonestTask
  <2>6. ASSUME NEW u \in Threads PROVE HonestThread(u)'
    <3>1. /\ thr'[u].pc = thr[u].pc /\ thr'[u].seen = thr[u].seen /\ thr'[u].new = thr[u].new
      BY <2>1, WorkerPlaces
    <3> QED  BY <2>4, <3>1 DEF HonestInv, HonestThread
  <2> QED  BY <2>5, <2>6 DEF HonestInv
<1>16. ASSUME NEW x \in Recs, Rollback(x) PROVE FALSE
  BY <1>16 DEF Rollback
<1>17. CASE Crash
  <2>1. UNCHANGED <<exists, task, recs>> /\ \A t \in Threads : thr'[t].pc = "idle"
    BY <1>17 DEF Crash, Idle
  <2>2. \A t \in Threads : HonestThread(t)'
    BY <2>1, QuietThread DEF Writing
  <2>3. HonestTask'
    BY <2>1 DEF HonestInv, HonestTask, NoFailure, Live
  <2> QED  BY <2>2, <2>3 DEF HonestInv
<1>18. CASE UNCHANGED vars
  <2>1. UNCHANGED <<exists, task, recs, thr>>
    BY <1>18 DEF vars
  <2>2. HonestTask'
    BY <2>1 DEF HonestInv, HonestTask, NoFailure, Live
  <2>3. \A t \in Threads : HonestThread(t)'
    BY <2>1 DEF HonestInv, HonestThread, NoFailure, Live
  <2> QED  BY <2>2, <2>3 DEF HonestInv
<1>19. ASSUME NEW t \in Threads, Breaks(t) PROVE HonestInv'
  <2>1. Done(t) /\ UNCHANGED <<exists, task, recs>>
    BY <1>19 DEF Breaks
  <2>2. HonestThread(t)'
    BY <2>1, DoneState, QuietThread DEF Writing
  <2> QED  BY <2>1, <2>2, DoneState, HonestFrame DEF NoFailure, Live
<1> QED  BY <1>1, <1>2, <1>3, <1>4, <1>5, <1>6, <1>7, <1>8, <1>9, <1>10, <1>11, <1>12,
            <1>13, <1>14, <1>15, <1>16, <1>17, <1>18, <1>19 DEF Next, Arrival, Proceed

\* With one thread that runs the task and nothing rolled back, a task that is
\* 'completed' hides no device that failed or still executes, whatever cancels,
\* edits, approvals and crashes come (_refresh_task_summary).
THEOREM CompletedIsHonest ==
    ASSUME OneRunner, "rollback" \notin Requests
    PROVE  Spec => []CompletedHidesNoFailure
<1> DEFINE Inv == TypeOK /\ ThreadInv /\ PoolInv /\ HonestInv
<1>1. Init => Inv
  <2> SUFFICES ASSUME Init PROVE Inv
    OBVIOUS
  <2>1. TypeOK /\ ThreadInv
    BY IndInit DEF IInv
  <2>2. PoolInv
    BY DEF Init, PoolInv, Idle, Running
  <2>3. task.status # "completed"
    BY DEF Init, Submitted, Row
  <2>4. HonestInv
    BY <2>3 DEF Init, HonestInv, HonestTask, HonestThread, Idle, Writing
  <2> QED  BY <2>1, <2>2, <2>4
<1>2. Inv /\ [Next]_vars => Inv'
  BY TypeStep, ThreadStep, PoolStep, HonestStep
<1>3. Inv => CompletedHidesNoFailure
  BY DEF HonestInv, HonestTask, NoFailure, CompletedHidesNoFailure
<1> QED  BY <1>1, <1>2, <1>3, PTL DEF Spec
-----------------------------------------------------------------------------
(* A cancelled pool                                                        *)

\* Whoever is in the pool after a step has just entered it, with an Event that
\* exists; or was there before, and has kept its Event, and begins on a device
\* only if that Event is not set.
StaysInPool(t) ==
    /\ thr[t].pc = "pool" /\ thr'[t].ev = thr[t].ev
    /\ isSet[thr[t].ev] =>
         \A x \in Recs : thr[t].w[x] = "queued" => thr'[t].w[x] \in {"queued", "off"}

EntersPool(t) == thr[t].pc # "pool" /\ thr'[t].ev \in Events

LEMMA WorkerMove ==
    ASSUME TypeOK, NEW t \in Threads, NEW x \in Recs, WorkerStep(t, x)
    PROVE  StaysInPool(t)
<1>1. PICK from, to : /\ Worker(t, x, from, to)
                      /\ isSet[thr[t].ev] /\ from = "queued" => to = "off"
  BY DEF WorkerStep, Work, WorkerSkip, WorkerPick, WorkerStart, WorkerFinish, WorkerLost,
         WorkerSnapshot, WorkerBreaks, WorkerHangs
<1>2. thr[t].pc = "pool" /\ thr[t].w[x] = from /\ thr'[t].ev = thr[t].ev
  BY <1>1, WorkerPlaces DEF Worker
<1>3. thr'[t].w = [thr[t].w EXCEPT ![x] = to]
  BY <1>1 DEF Worker, TypeOK, ThreadState
<1>4. thr[t].w \in [Recs -> WorkerState]
  BY DEF TypeOK, ThreadState
<1>5. \A y \in Recs : thr'[t].w[y] = IF y = x THEN to ELSE thr[t].w[y]
  BY <1>3, <1>4
<1> QED  BY <1>1, <1>2, <1>5 DEF StaysInPool

LEMMA InPool ==
    ASSUME TypeOK, [Next]_vars, NEW t \in Threads, thr'[t].pc = "pool"
    PROVE  StaysInPool(t) \/ EntersPool(t)
<1>0. CASE thr'[t] = thr[t]
  BY <1>0 DEF StaysInPool
<1>1. ASSUME NEW u \in Threads, NEW pc, NEW new, pc # "pool", Load(u, pc, new)
      PROVE  thr'[t] = thr[t]
  BY <1>1, LoadState
<1>2. ASSUME NEW u \in Threads, Done(u) PROVE thr'[t] = thr[t]
  BY <1>2, DoneState
<1>3. ASSUME NEW u \in Threads, NEW s, s.pc # "pool", thr' = [thr EXCEPT ![u] = s]
      PROVE  thr'[t] = thr[t]
  BY <1>3 DEF TypeOK
<1>4. ASSUME NEW u \in Threads, TaskRun(u) PROVE thr'[t] = thr[t]
  <2>1. PICK retry \in BOOLEAN :
          thr' = [thr EXCEPT ![u] = [Idle EXCEPT !.pc = "called", !.retry = retry]]
    BY <1>4 DEF TaskRun
  <2> QED  BY <1>3, <2>1 DEF Idle
<1>5. ASSUME NEW u \in Threads, SchedLoad(u) PROVE thr'[t] = thr[t]
  BY <1>3, <1>5 DEF SchedLoad, Idle
<1>6. ASSUME NEW u \in Threads,
             ApproveLoad(u) \/ RejectLoad(u) \/ EditLoad(u) \/ DeleteLoad(u) \/ CancelSignal(u)
      PROVE  thr'[t] = thr[t]
  <2>1. ASSUME NEW pc \in {"approving", "rejecting", "editing", "retarget", "deleting", "cancelling"},
               NEW new, Load(u, pc, new)
        PROVE  thr'[t] = thr[t]
    BY <1>1, <2>1
  <2> QED  BY <1>6, <2>1 DEF ApproveLoad, RejectLoad, EditLoad, DeleteLoad, CancelSignal
<1>7. ASSUME NEW u \in Threads,
             \/ RejectCommit(u) \/ EditCommit(u) \/ DeleteCommit(u) \/ CancelMark(u)
             \/ RunRefused(u) \/ FinishCommit(u) \/ Breaks(u)
      PROVE  thr'[t] = thr[t]
  BY <1>2, <1>7 DEF RejectCommit, EditCommit, DeleteCommit, CancelMark, RunRefused,
                    FinishCommit, Breaks
<1>8. ASSUME NEW u \in Threads, SchedCommit(u) \/ ApproveCommit(u) PROVE thr'[t] = thr[t]
  <2>1. CASE exists
    BY <1>3, <1>8, <2>1 DEF SchedCommit, ApproveCommit, Idle
  <2>2. CASE ~exists
    BY <1>2, <1>8, <2>2 DEF SchedCommit, ApproveCommit
  <2> QED  BY <2>1, <2>2
<1>9. ASSUME NEW u \in Threads, RunLoad(u) \/ RunClear(u) PROVE thr'[t] = thr[t]
  BY <1>9 DEF RunLoad, RunClear, TypeOK, ThreadState
<1>10. ASSUME NEW u \in Threads, RunCommit(u) PROVE thr'[t] = thr[t]
  <2>1. CASE exists
    BY <1>10, <2>1 DEF RunCommit, TypeOK, ThreadState
  <2>2. CASE ~exists
    BY <1>2, <1>10, <2>2 DEF RunCommit
  <2> QED  BY <2>1, <2>2
<1>11. ASSUME NEW u \in Threads, FinishLoad(u) PROVE thr'[t] = thr[t]
  <2>1. CASE exists
    BY <1>11, <2>1 DEF FinishLoad, TypeOK, ThreadState
  <2>2. CASE ~exists
    BY <1>2, <1>11, <2>2 DEF FinishLoad
  <2> QED  BY <2>1, <2>2
<1>12. ASSUME NEW u \in Threads, RunPool(u) PROVE thr'[t] = thr[t] \/ EntersPool(t)
  <2>1. thr[u].pc = "committed"
    BY <1>12 DEF RunPool
  <2>2. PICK e \in Events : thr' = [thr EXCEPT ![u] = [@ EXCEPT !.pc = "pool", !.ev = e]]
    BY <1>12 DEF RunPool
  <2>3. (\A v \in Threads \ {u} : thr'[v] = thr[v]) /\ thr'[u].ev = e
    BY <2>2 DEF TypeOK, ThreadState
  <2> QED  BY <2>1, <2>3 DEF EntersPool
<1>13. ASSUME NEW u \in Threads, NEW x \in Recs, WorkerStep(u, x)
       PROVE  thr'[t] = thr[t] \/ StaysInPool(t)
  <2>1. CASE u = t
    BY <1>13, <2>1, WorkerMove
  <2>2. CASE u # t
    BY <1>13, <2>2 DEF WorkerStep, Work, WorkerSkip, WorkerPick, WorkerStart, WorkerFinish, WorkerLost,
                       WorkerSnapshot, WorkerBreaks, WorkerHangs, Worker, TypeOK
  <2> QED  BY <2>1, <2>2
<1>14. CASE Crash
  BY <1>14 DEF Crash, Idle
<1>15. (\E x \in Recs : Rollback(x)) \/ UNCHANGED vars => thr'[t] = thr[t]
  BY DEF Rollback, vars
<1> QED
  BY <1>0, <1>4, <1>5, <1>6, <1>7, <1>8, <1>9, <1>10, <1>11, <1>12, <1>13, <1>14, <1>15
     DEF Next, Arrival, Proceed

PoolEvent == \A t \in Threads : thr[t].pc = "pool" => thr[t].ev \in Events

\* Nothing clears an Event that the pool holds.
LEMMA StaysSet ==
    ASSUME TypeOK, TypeOK', [Next]_vars, NEW t \in Threads, thr'[t].ev \in Events,
           isSet[thr'[t].ev], thr'[t].pc = "pool"
    PROVE  isSet'[thr'[t].ev]
<1>1. ASSUME Collect PROVE isSet'[thr'[t].ev]
  BY <1>1 DEF Collect, InUse
<1>2. ASSUME isSet' = isSet PROVE isSet'[thr'[t].ev]
  BY <1>2
<1>3. ASSUME NEW u \in Threads, CancelSignal(u) PROVE isSet'[thr'[t].ev]
  <2>1. PICK e \in Events : isSet' = [isSet EXCEPT ![e] = TRUE]
    BY <1>3 DEF CancelSignal
  <2> QED  BY <2>1 DEF TypeOK
<1>4. ~Crash
  BY DEF Crash, Idle
<1>5. ASSUME NEW u \in Threads, RunClear(u) \/ FinishLoad(u) \/ Breaks(u)
      PROVE  isSet'[thr'[t].ev]
  BY <1>1, <1>5 DEF RunClear, FinishLoad, Breaks
<1>6. ASSUME NEW u \in Threads, Arrival(u) PROVE isSet'[thr'[t].ev]
  BY <1>2, <1>3, <1>6 DEF Arrival, TaskRun, SchedLoad, ApproveLoad, RejectLoad, EditLoad,
                          DeleteLoad
<1>7. ASSUME NEW u \in Threads, Proceed(u) PROVE isSet'[thr'[t].ev]
  BY <1>2, <1>5, <1>7
     DEF Proceed, SchedCommit, ApproveCommit, RejectCommit, EditCommit, DeleteCommit,
         CancelMark, RunLoad, RunRefused, RunCommit, RunPool, FinishCommit
<1>8. ASSUME NEW u \in Threads, NEW x \in Recs, WorkerStep(u, x)
      PROVE  isSet'[thr'[t].ev]
  BY <1>2, <1>8 DEF WorkerStep, Work, WorkerSkip, WorkerPick, WorkerStart, WorkerFinish, WorkerLost,
                    WorkerSnapshot, WorkerBreaks, WorkerHangs
<1>9. (\E x \in Recs : Rollback(x)) \/ UNCHANGED vars => isSet' = isSet
  BY DEF Rollback, vars
<1> QED  BY <1>2, <1>4, <1>5, <1>6, <1>7, <1>8, <1>9 DEF Next

\* However many runs, cancels and edits overlap: a pool that was told to stop
\* begins on no further device, and stays told (cancel_task, _clear_cancel_event,
\* _run_device_exec).
THEOREM CancelIsKept == Spec => CancelIsFinal
<1> DEFINE Inv   == TypeOK /\ PoolEvent
           Kept(t) == thr[t].pc = "pool" /\ isSet[thr[t].ev] /\ thr'[t].pc = "pool" =>
                        /\ isSet'[thr'[t].ev]
                        /\ \A x \in Recs : thr[t].w[x] = "queued" => thr'[t].w[x] \in {"queued", "off"}
<1>1. Init => Inv
  BY TypeInit DEF Init, PoolEvent, Idle
<1>2. Inv /\ [Next]_vars => Inv'
  BY TypeStep, InPool DEF PoolEvent, StaysInPool, EntersPool
<1>3. Inv /\ [Next]_vars => \A t \in Threads : Kept(t)
  BY TypeStep, InPool, StaysSet DEF PoolEvent, StaysInPool, EntersPool
<1>4. Inv /\ [Next]_vars => [\A t \in Threads : Kept(t)]_vars
  BY <1>3
<1> HIDE DEF Inv
<1> QED  BY <1>1, <1>2, <1>4, PTL DEF Spec, CancelIsFinal
=============================================================================
