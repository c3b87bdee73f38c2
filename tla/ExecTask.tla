------------------------------ MODULE ExecTask ------------------------------
(***************************************************************************)
(* The life of ONE batch-execution task of the automation centre           *)
(* (services/execution_service.py, blueprints/automation.py): the request  *)
(* threads of the WSGI server and the APScheduler thread that act on it,   *)
(* the run they start, and the pool of device workers of a run.            *)
(*                                                                         *)
(* Every request loads the task row into a session of its own and writes   *)
(* it back later, so a request is (at least) two steps: a load, which      *)
(* keeps what it read in seen and what it wants in new, and a commit.      *)
(* Nothing in the code locks the row between the two.                      *)
(***************************************************************************)
EXTENDS Naturals, FiniteSets

CONSTANTS
    Threads,      \* request / scheduler threads that may act on the task
    Runners,      \* those of them that may call run_task
    Recs,         \* ids of exec_task_devices rows, one per target device
    Events,       \* identities of threading.Event objects
    NoEvent,      \* no Event is registered / held
    MaxWorkers,   \* device workers of one pool (10 in run_task)
    Requests      \* the kinds of request that operators may send

ASSUME RunnersAssumption == Runners \subseteq Threads
ASSUME EventsAssumption  == NoEvent \notin Events
ASSUME BoundsAssumption  == MaxWorkers \in Nat \ {0}

VARIABLES
    exists,     \* the exec_tasks row is there
    task,       \* its columns that control anything
    recs,       \* status of each exec_task_devices row
    snap,       \* does the row hold a configuration snapshot?
    registered, \* _cancel_events[task_id]
    isSet,      \* Event.is_set() of each Event object
    thr,        \* what each thread is doing
    torn,       \* history: rows whose last worker was killed or lost its session
    cut         \* history: a thread bound to report was, since the last run began

vars == <<exists, task, recs, snap, registered, isSet, thr, torn, cut>>

-----------------------------------------------------------------------------
TaskStatus == {"ready", "waiting_approval", "running", "completed", "partial",
               "failed", "cancelled", "rejected"}
Approval   == {"none", "pending", "approved", "rejected"}
TaskRow    == [status : TaskStatus, required : BOOLEAN,
               approval : Approval, schedule : BOOLEAN]
RecStatus  == {"pending", "running", "success", "failed", "cancelled"}
RowState   == RecStatus \cup {"unused", "deleted"}

\* A worker is off, waits in the pool, has passed the cancel check (resume: and
\* found its row already 'running'), is executing on its device, or has been
\* left there by a call that never returns.
WorkerState == {"off", "queued", "go", "resume", "exec", "hung"}
PC == {"idle", "scheduling", "approving", "rejecting", "editing", "retarget",
       "deleting", "cancelling", "called", "loaded", "cleared", "committed",
       "pool", "finalize"}

\* What a thread is at; when it was fired by the scheduler; the row it loaded
\* and the row it means to write; the Event and the workers of its run.
ThreadState == [pc : PC, scheduled : BOOLEAN, retry : BOOLEAN,
                seen : TaskRow, new : TaskRow,
                ev : Events \cup {NoEvent}, w : [Recs -> WorkerState]]

Live == {x \in Recs : recs[x] \in RecStatus}

Row(st, req, app, sch) ==
    [status |-> st, required |-> req, approval |-> app, schedule |-> sch]

NoRow == Row("ready", FALSE, "none", FALSE)

Idle == [pc |-> "idle", scheduled |-> FALSE, retry |-> FALSE,
         seen |-> NoRow, new |-> NoRow, ev |-> NoEvent,
         w |-> [x \in Recs |-> "off"]]

\* task_create / task_edit: approval state of a task whose form asks, or does
\* not ask, for approval.
Submitted(req, sch) ==
    IF req THEN Row("waiting_approval", TRUE, "pending", sch)
           ELSE Row("ready", FALSE, "none", sch)

\* What a commit leaves in the row: SQLAlchemy's unit of work writes only the
\* columns that the session changed since it loaded the row.
Flush(seen, new) ==
    [c \in DOMAIN task |-> IF new[c] = seen[c] THEN task[c] ELSE new[c]]

AllLive(st) == Live # {} /\ \A x \in Live : recs[x] = st

\* Mutants of Summary: a status the rest of the code does not know; branches
\* that forget a run which did not succeed; one success counted as all.
SummaryTypo == IF AllLive("cancelled") THEN "canceled" ELSE "partial"
SummaryNoBranch == IF AllLive("success") THEN "completed" ELSE task.status
SummaryAnySuccess ==
    IF \E x \in Live : recs[x] = "success" THEN "completed" ELSE "partial"

\* _refresh_task_summary: the status a finished run gives the task.
Summary ==
    CASE task.status = "cancelled" -> "cancelled"
      [] task.status # "cancelled" /\ AllLive("failed")    -> "failed"
      [] task.status # "cancelled" /\ AllLive("cancelled") -> "cancelled"
      [] task.status # "cancelled" /\ AllLive("success")   -> "completed"
      [] OTHER -> "partial"

\* Event objects something still refers to; the others are garbage.
InUse == {registered} \cup {thr[t].ev : t \in Threads}
Collect == isSet' = [e \in Events |-> isSet[e] /\ e \in InUse']

Active(t) == {x \in Recs : thr[t].w[x] \in {"go", "resume", "exec", "hung"}}
Done(t)   == thr' = [thr EXCEPT ![t] = Idle]
Load(t, pc, new) ==
    thr' = [thr EXCEPT ![t] = [Idle EXCEPT !.pc = pc, !.seen = task, !.new = new]]

\* A thread that is bound to take the task out of 'running': its run has yet
\* to read the task back, or has read a status it will replace.
WillReport(t) ==
    \/ thr[t].pc \in {"committed", "pool"}
    \/ thr[t].pc = "finalize" /\ thr[t].new.status # thr[t].seen.status

-----------------------------------------------------------------------------
\* task_create and api_v1_task_create have just committed the task and one
\* pending row per device.  Their automatic first run is TaskRun, whose checks
\* pass for the tasks it concerns.
Init ==
    /\ exists = TRUE
    /\ \E req, sch \in BOOLEAN : task = Submitted(req, sch)
    /\ \E targets \in SUBSET Recs :
          /\ targets # {}
          /\ recs = [x \in Recs |-> IF x \in targets THEN "pending" ELSE "unused"]
    /\ snap = [x \in Recs |-> FALSE]
    /\ registered = NoEvent
    /\ isSet = [e \in Events |-> FALSE]
    /\ thr = [t \in Threads |-> Idle]
    /\ torn = {} /\ cut = FALSE

-----------------------------------------------------------------------------
(* Requests: the gates in front of run_task                                *)

\* task_run: refuses a running task and one that still needs approval.
TaskRun(t) ==
    /\ "run" \in Requests
    /\ t \in Runners /\ thr[t].pc = "idle" /\ exists
    /\ task.status # "running"
    /\ ~(task.required /\ task.approval # "approved")
    /\ \E retry \in BOOLEAN :
          thr' = [thr EXCEPT ![t] = [Idle EXCEPT !.pc = "called", !.retry = retry]]
    /\ UNCHANGED <<exists, task, recs, snap, registered, isSet, torn, cut>>

\* Mutant of SchedLoad: the job does not look whether the task is running.
SchedLoadUnguarded(t) ==
    /\ "schedule" \in Requests
    /\ t \in Runners /\ thr[t].pc = "idle" /\ exists
    /\ task.schedule
    /\ thr' = [thr EXCEPT ![t] =
                 [Idle EXCEPT !.pc = "scheduling", !.scheduled = TRUE,
                              !.seen = task, !.new = [task EXCEPT !.status = "ready"]]]
    /\ UNCHANGED <<exists, task, recs, snap, registered, isSet, torn, cut>>

\* run_scheduled_exec_task, fired by the APScheduler job of the task
\* (max_instances = 1): it skips a running task and looks at nothing else.
SchedLoad(t) ==
    /\ "schedule" \in Requests
    /\ t \in Runners /\ thr[t].pc = "idle" /\ exists
    /\ \A u \in Threads : ~thr[u].scheduled
    /\ task.schedule
    /\ task.status # "running"
    /\ thr' = [thr EXCEPT ![t] =
                 [Idle EXCEPT !.pc = "scheduling", !.scheduled = TRUE,
                              !.seen = task, !.new = [task EXCEPT !.status = "ready"]]]
    /\ UNCHANGED <<exists, task, recs, snap, registered, isSet, torn, cut>>

SchedCommit(t) ==
    /\ thr[t].pc = "scheduling"
    /\ IF exists
         THEN /\ task' = Flush(thr[t].seen, thr[t].new)
              /\ thr' = [thr EXCEPT ![t] = [Idle EXCEPT !.pc = "called", !.scheduled = TRUE]]
         ELSE task' = task /\ Done(t)
    /\ UNCHANGED <<exists, recs, snap, registered, isSet, torn, cut>>

\* task_approve: only a pending task; it then calls run_task itself.
ApproveLoad(t) ==
    /\ "approve" \in Requests
    /\ t \in Runners /\ thr[t].pc = "idle" /\ exists
    /\ task.approval = "pending"
    /\ Load(t, "approving", [task EXCEPT !.approval = "approved", !.status = "ready"])
    /\ UNCHANGED <<exists, task, recs, snap, registered, isSet, torn, cut>>

ApproveCommit(t) ==
    /\ thr[t].pc = "approving"
    /\ IF exists
         THEN /\ task' = Flush(thr[t].seen, thr[t].new)
              /\ thr' = [thr EXCEPT ![t] = [Idle EXCEPT !.pc = "called"]]
         ELSE task' = task /\ Done(t)
    /\ UNCHANGED <<exists, recs, snap, registered, isSet, torn, cut>>

\* task_reject.
RejectLoad(t) ==
    /\ "approve" \in Requests
    /\ thr[t].pc = "idle" /\ exists
    /\ task.approval = "pending"
    /\ Load(t, "rejecting", [task EXCEPT !.approval = "rejected", !.status = "rejected"])
    /\ UNCHANGED <<exists, task, recs, snap, registered, isSet, torn, cut>>

RejectCommit(t) ==
    /\ thr[t].pc = "rejecting"
    /\ task' = IF exists THEN Flush(thr[t].seen, thr[t].new) ELSE task
    /\ Done(t)
    /\ UNCHANGED <<exists, recs, snap, registered, isSet, torn, cut>>

-----------------------------------------------------------------------------
(* Requests: edit, delete, cancel, roll back                               *)

\* Bound: row ids are never reused, so Recs bounds the changes of target, and
\* at most one of them is under way.
Retargetable == /\ \E x \in Recs : recs[x] = "unused"
                /\ \A t \in Threads : thr[t].pc # "retarget"

\* task_edit: refused while the task runs.  Changing the target devices or the
\* approval requirement starts the approval over; any other edit keeps it.
EditLoad(t) ==
    /\ "edit" \in Requests
    /\ thr[t].pc = "idle" /\ exists
    /\ task.status # "running"
    /\ \E req, sch \in BOOLEAN :
          \/ Retargetable /\ Load(t, "retarget", Submitted(req, sch))
          \/ Load(t, "editing", IF req = task.required
                                  THEN [task EXCEPT !.schedule = sch]
                                  ELSE Submitted(req, sch))
    /\ UNCHANGED <<exists, task, recs, snap, registered, isSet, torn, cut>>

EditCommit(t) ==
    /\ thr[t].pc \in {"editing", "retarget"}
    /\ Done(t)
    /\ IF exists THEN task' = Flush(thr[t].seen, thr[t].new) ELSE task' = task
    /\ IF exists /\ thr[t].pc = "retarget"
         THEN \E targets \in SUBSET {x \in Recs : recs[x] = "unused"} :
                 /\ targets # {}
                 /\ recs' = [x \in Recs |-> IF x \in targets THEN "pending"
                                            ELSE IF x \in Live THEN "deleted" ELSE recs[x]]
         ELSE recs' = recs
    /\ UNCHANGED <<exists, snap, registered, isSet, torn, cut>>

\* task_delete: refused while the task runs; the rows go with the task.
DeleteLoad(t) ==
    /\ "delete" \in Requests
    /\ thr[t].pc = "idle" /\ exists
    /\ task.status # "running"
    /\ Load(t, "deleting", task)
    /\ UNCHANGED <<exists, task, recs, snap, registered, isSet, torn, cut>>

DeleteCommit(t) ==
    /\ thr[t].pc = "deleting"
    /\ exists' = FALSE
    /\ recs' = [x \in Recs |-> IF x \in Live THEN "deleted" ELSE recs[x]]
    /\ Done(t)
    /\ UNCHANGED <<task, snap, registered, isSet, torn, cut>>

\* cancel_task, called by task_cancel: sets the registered Event (creating one
\* when none is registered) and cancels the rows no worker has taken yet; when
\* its commit fails the Event is set all the same.
CancelSignal(t) ==
    /\ "cancel" \in Requests
    /\ thr[t].pc = "idle" /\ exists
    /\ task.status = "running"
    /\ \E e \in Events :
          /\ IF registered = NoEvent THEN e \notin InUse ELSE e = registered
          /\ registered' = e
          /\ isSet' = [isSet EXCEPT ![e] = TRUE]
    /\ \/ /\ recs' = [x \in Recs |-> IF recs[x] = "pending" THEN "cancelled" ELSE recs[x]]
          /\ Load(t, "cancelling", [task EXCEPT !.status = "cancelled"])
       \/ UNCHANGED <<recs, thr>>
    /\ UNCHANGED <<exists, task, snap, torn, cut>>

\* task_cancel, after cancel_task has returned True: marks the task, in the
\* session that loaded it when the request began.
CancelMark(t) ==
    /\ thr[t].pc = "cancelling"
    /\ task' = IF exists THEN Flush(thr[t].seen, thr[t].new) ELSE task
    /\ Done(t)
    /\ UNCHANGED <<exists, recs, snap, registered, isSet, torn, cut>>

\* rollback_device: any row with a snapshot, whatever is running.
Rollback(x) ==
    /\ "rollback" \in Requests
    /\ exists /\ x \in Live /\ snap[x]
    /\ \E st \in {"success", "failed"} : recs' = [recs EXCEPT ![x] = st]
    /\ UNCHANGED <<exists, task, snap, registered, isSet, thr, torn, cut>>

-----------------------------------------------------------------------------
(* run_task                                                                *)

Selected(t) == IF thr[t].retry THEN {x \in Live : recs[x] \in {"failed", "cancelled"}}
                               ELSE Live

\* The row is loaded and its device rows are selected.
RunLoad(t) ==
    /\ thr[t].pc = "called"
    /\ exists /\ task.status # "running" /\ Selected(t) # {}
    /\ thr' = [thr EXCEPT ![t] =
                 [@ EXCEPT !.pc = "loaded", !.seen = task,
                           !.new = [task EXCEPT !.status = "running"],
                           !.w = [x \in Recs |-> IF x \in Selected(t) THEN "queued" ELSE "off"]]]
    /\ UNCHANGED <<exists, task, recs, snap, registered, isSet, torn, cut>>

\* The early returns: no task, a task already running, nothing to execute.
RunRefused(t) ==
    /\ thr[t].pc = "called"
    /\ \/ ~exists /\ task' = task
       \/ exists /\ task.status = "running" /\ task' = task
       \/ /\ exists /\ task.status # "running" /\ Selected(t) = {}
          /\ task' = [task EXCEPT !.status = "failed"]
    /\ Done(t)
    /\ UNCHANGED <<exists, recs, snap, registered, isSet, torn, cut>>

\* Mutant of RunClear: the Event is cleared, not forgotten.
RunClearFlag(t) ==
    /\ thr[t].pc = "loaded"
    /\ isSet' = [e \in Events |-> isSet[e] /\ e # registered]
    /\ thr' = [thr EXCEPT ![t] = [@ EXCEPT !.pc = "cleared"]]
    /\ UNCHANGED <<exists, task, recs, snap, registered, torn, cut>>

\* _clear_cancel_event comes before the commit of 'running' ...
RunClear(t) ==
    /\ thr[t].pc = "loaded"
    /\ registered' = NoEvent
    /\ thr' = [thr EXCEPT ![t] = [@ EXCEPT !.pc = "cleared"]]
    /\ UNCHANGED <<exists, task, recs, snap, torn, cut>>
    /\ Collect

RunCommit(t) ==
    /\ thr[t].pc = "cleared"
    /\ IF exists
         THEN /\ task' = Flush(thr[t].seen, thr[t].new)
              /\ thr' = [thr EXCEPT ![t] = [@ EXCEPT !.pc = "committed", !.seen = NoRow, !.new = NoRow]]
              /\ cut' = FALSE
         ELSE task' = task /\ Done(t) /\ cut' = cut
    /\ UNCHANGED <<exists, recs, snap, registered, isSet, torn>>

\* Mutant of RunPool: the pool gets an Event of its own.
RunPoolPrivate(t) ==
    /\ thr[t].pc = "committed"
    /\ \E e \in Events \ InUse : thr' = [thr EXCEPT ![t] = [@ EXCEPT !.pc = "pool", !.ev = e]]
    /\ UNCHANGED <<exists, task, recs, snap, registered, isSet, torn, cut>>

\* ... and _get_cancel_event after it, so that an Event which cancel_task
\* registered in between is the one the pool gets.
RunPool(t) ==
    /\ thr[t].pc = "committed"
    /\ \E e \in Events :
          /\ IF registered = NoEvent THEN e \notin InUse ELSE e = registered
          /\ registered' = e
          /\ thr' = [thr EXCEPT ![t] = [@ EXCEPT !.pc = "pool", !.ev = e]]
    /\ UNCHANGED <<exists, task, recs, snap, isSet, torn, cut>>

\* The pool is done: a second session loads the task and its rows ...
FinishLoad(t) ==
    /\ thr[t].pc = "pool"
    /\ \A x \in Recs : thr[t].w[x] = "off"
    /\ IF exists
         THEN thr' = [thr EXCEPT ![t] =
                       [@ EXCEPT !.pc = "finalize", !.ev = NoEvent, !.seen = task,
                                 !.new = [task EXCEPT !.status = Summary]]]
         ELSE Done(t)
    /\ UNCHANGED <<exists, task, recs, snap, registered, torn, cut>>
    /\ Collect

\* ... and commits the summary after the notifications went out.
FinishCommit(t) ==
    /\ thr[t].pc = "finalize"
    /\ task' = IF exists THEN Flush(thr[t].seen, thr[t].new) ELSE task
    /\ Done(t)
    /\ UNCHANGED <<exists, recs, snap, registered, isSet, torn, cut>>

\* The next query or commit of a request or a run raises, and nothing in its way
\* catches it: the thread ends and writes nothing. (There is none between the
\* commit of 'running' and the workers.)
Breaks(t) ==
    /\ thr[t].pc \notin {"idle", "committed"}
    /\ thr[t].pc = "pool" => \A x \in Recs : thr[t].w[x] = "off"
    /\ cut' = (cut \/ WillReport(t))
    /\ Done(t)
    /\ UNCHANGED <<exists, task, recs, snap, registered, torn>>
    /\ Collect

-----------------------------------------------------------------------------
(* _run_device_exec: one worker of the pool, for one row                   *)

Worker(t, x, from, to) ==
    /\ thr[t].pc = "pool" /\ thr[t].w[x] = from
    /\ thr' = [thr EXCEPT ![t].w[x] = to]

\* Mutant of Picks: one worker too few.
PicksOneLess(t) == Cardinality(Active(t)) < MaxWorkers - 1

Picks(t) == Cardinality(Active(t)) < MaxWorkers

\* Mutant of WorkerSkip: the cancel check comes after the commit of 'running'.
WorkerSkipLate(t, x) ==
    /\ Worker(t, x, "queued", "off") /\ Picks(t)
    /\ \/ x \notin Live /\ recs' = recs
       \/ x \in Live /\ recs' = [recs EXCEPT ![x] = "failed"]
       \/ x \in Live /\ isSet[thr[t].ev] /\ recs' = [recs EXCEPT ![x] = "running"]
    /\ UNCHANGED <<exists, task, snap, registered, isSet, torn, cut>>

\* The row is gone, or its device has left the inventory, or the run was
\* cancelled: the worker ends without touching the device.
WorkerSkip(t, x) ==
    /\ Worker(t, x, "queued", "off") /\ Picks(t)
    /\ \/ x \notin Live /\ recs' = recs
       \/ x \in Live /\ recs' = [recs EXCEPT ![x] = "failed"]
       \/ x \in Live /\ isSet[thr[t].ev] /\ recs' = [recs EXCEPT ![x] = "cancelled"]
    /\ UNCHANGED <<exists, task, snap, registered, isSet, torn, cut>>

WorkerPick(t, x) ==
    /\ Worker(t, x, "queued", IF recs[x] = "running" THEN "resume" ELSE "go")
    /\ Picks(t)
    /\ x \in Live /\ ~isSet[thr[t].ev]
    /\ UNCHANGED <<exists, task, recs, snap, registered, isSet, torn, cut>>

\* The commit of 'running'; like any flush it leaves a column alone that the
\* session does not change, so a resumed row keeps the status it has by now.
WorkerStart(t, x) ==
    /\ x \in Live
    /\ \/ Worker(t, x, "go", "exec") /\ recs' = [recs EXCEPT ![x] = "running"]
       \/ Worker(t, x, "resume", "exec") /\ recs' = recs
    /\ snap' = [snap EXCEPT ![x] = FALSE]
    /\ torn' = torn \ {x}
    /\ UNCHANGED <<exists, task, registered, isSet, cut>>

\* A config_push task first stores the running configuration in the row. (Bound:
\* nothing but a rollback asks for it, so only then it is told.)
WorkerSnapshot(t, x) ==
    /\ "rollback" \in Requests
    /\ x \in Live /\ ~snap[x]
    /\ Worker(t, x, "exec", "exec")
    /\ snap' = [snap EXCEPT ![x] = TRUE]
    /\ UNCHANGED <<exists, task, recs, registered, isSet, torn, cut>>

WorkerFinish(t, x) ==
    /\ x \in Live
    /\ Worker(t, x, "exec", "off")
    /\ \E st \in {"success", "failed"} : recs' = [recs EXCEPT ![x] = st]
    /\ UNCHANGED <<exists, task, snap, registered, isSet, torn, cut>>

\* The row was deleted under the worker: its commit raises.
WorkerLost(t, x) ==
    /\ x \notin Live
    /\ \E from \in {"go", "resume", "exec"} : Worker(t, x, from, "off")
    /\ UNCHANGED <<exists, task, recs, snap, registered, isSet, torn, cut>>

\* A query, a flush or a commit of the worker raises: that of its snapshot when
\* another run has just given the device the same version number. The session is
\* not rolled back, so the commits of the except branch and of the finally raise
\* as well, run_task only logs it, and the row keeps the status it has.
WorkerBreaks(t, x) ==
    /\ x \in Live
    /\ \E from \in {"queued", "go", "resume", "exec"} :
          /\ Worker(t, x, from, "off")
          /\ from = "queued" => Picks(t)
          /\ torn' = IF from = "exec" THEN torn \cup {x} ELSE torn
    /\ UNCHANGED <<exists, task, recs, snap, registered, isSet, cut>>

\* WinRM is called without a time-out, and so is the wait for the exit status of
\* an SSH command: the worker may stay there for ever, whether cancelled or not.
WorkerHangs(t, x) ==
    /\ Worker(t, x, "exec", "hung")
    /\ UNCHANGED <<exists, task, recs, snap, registered, isSet, torn, cut>>

-----------------------------------------------------------------------------
\* The process stops and starts again: threads, pools and _cancel_events are
\* gone, the database stays, and register_scheduled_exec_tasks only re-creates
\* the jobs.  Nothing resets a task, or a row, that was running.
Crash ==
    /\ thr' = [t \in Threads |-> Idle]
    /\ registered' = NoEvent
    /\ isSet' = [e \in Events |-> FALSE]
    /\ torn' = torn \cup {x \in Recs : recs[x] = "running"}
    /\ cut' = (cut \/ \E t \in Threads : WillReport(t))
    /\ UNCHANGED <<exists, task, recs, snap>>

\* What an operator or a clock decides ...
Arrival(t) ==
    \/ TaskRun(t) \/ SchedLoad(t) \/ ApproveLoad(t) \/ RejectLoad(t)
    \/ EditLoad(t) \/ DeleteLoad(t) \/ CancelSignal(t)

\* ... and what a thread then goes on to do.
Proceed(t) ==
    \/ SchedCommit(t) \/ ApproveCommit(t) \/ RejectCommit(t)
    \/ EditCommit(t) \/ DeleteCommit(t) \/ CancelMark(t)
    \/ RunLoad(t) \/ RunRefused(t) \/ RunClear(t) \/ RunCommit(t) \/ RunPool(t)
    \/ FinishLoad(t) \/ FinishCommit(t)

Work(t, x) ==
    \/ WorkerSkip(t, x) \/ WorkerPick(t, x) \/ WorkerStart(t, x)
    \/ WorkerFinish(t, x) \/ WorkerLost(t, x)

\* A step of a worker; what it need not come to is not in Work.
WorkerStep(t, x) ==
    Work(t, x) \/ WorkerSnapshot(t, x) \/ WorkerBreaks(t, x) \/ WorkerHangs(t, x)

Next ==
    \/ \E t \in Threads : Arrival(t) \/ Proceed(t) \/ Breaks(t)
    \/ \E t \in Threads, x \in Recs : WorkerStep(t, x)
    \/ \E x \in Recs : Rollback(x)
    \/ Crash

Spec == Init /\ [][Next]_vars

\* A thread that has work goes on: what it waits for are the database and the
\* workers of its pool. A worker goes on too, unless it hangs: the local, netmiko
\* and SSH calls have a time-out, WinRM and the exit status of SSH have none.
Fairness == /\ \A t \in Threads : WF_vars(Proceed(t))
            /\ \A t \in Threads, x \in Recs : WF_vars(Work(t, x))

FairSpec == Spec /\ Fairness
-----------------------------------------------------------------------------
(* Properties                                                              *)

TypeOK ==
    /\ exists \in BOOLEAN
    /\ task \in TaskRow
    /\ recs \in [Recs -> RowState]
    /\ snap \in [Recs -> BOOLEAN]
    /\ registered \in Events \cup {NoEvent}
    /\ isSet \in [Events -> BOOLEAN]
    /\ thr \in [Threads -> ThreadState]
    /\ torn \subseteq Recs
    /\ cut \in BOOLEAN

Stranded == /\ exists /\ task.status = "running"
            /\ \A t \in Threads : ~WillReport(t)

\* A task in 'running' has a run that will report, unless the run was killed or
\* its last session failed: no interleaving of overlapping runs, cancels, edits and
\* approvals leaves it where it can be neither run, edited nor deleted.
RunningTaskHasRun == Stranded => cut

\* A device row in 'running' has a worker on the device, whoever else cancels,
\* rolls back or re-runs it, unless the last worker that began on it was killed or
\* lost its session.
RunningRowHasWorker ==
    \A x \in Recs \ torn :
        recs[x] = "running" => \E t \in Threads : thr[t].w[x] \in {"exec", "hung"}

\* With one run at a time, the Event that cancel_task would set is the one the
\* workers of the run look at, even if a cancel arrived while the run started.
CancelFindsRun ==
    \A t \in Threads : thr[t].pc = "pool" => registered = thr[t].ev

\* With one run at a time, and nothing rolled back since, a task that says
\* 'completed' hides no device that failed or is still executing.  (An edit of
\* the target that races the end of the run can leave untouched rows in it.)
CompletedHidesNoFailure ==
    exists /\ task.status = "completed"
        => \A x \in Live : recs[x] \notin {"failed", "running"}

\* A cancelled pool stays cancelled, however many runs and cancels overlap: none
\* of its waiting workers begins on its device any more. (A run that starts beside
\* it forgets the Event in _clear_cancel_event, but does not clear it.)
CancelIsFinal ==
    [][\A t \in Threads :
          thr[t].pc = "pool" /\ isSet[thr[t].ev] /\ thr'[t].pc = "pool" =>
             /\ isSet'[thr'[t].ev]
             /\ \A x \in Recs : thr[t].w[x] = "queued" => thr'[t].w[x] \in {"queued", "off"}
      ]_vars

\* What a request decided before the task ran still goes through: a scheduled
\* reset, an edit, a deletion.
DecidedBefore(t) ==
    /\ thr[t].seen.status # "running"
    /\ SchedCommit(t) \/ EditCommit(t) \/ DeleteCommit(t)

\* A stranded task leaves 'running' only when somebody cancels it or decides its
\* pending approval, or by what was decided before it ran; later runs, edits and
\* deletions are all refused.
StrandedUntilDecision ==
    [][Stranded => \/ exists' /\ task'.status = "running"
                   \/ \E t \in Threads : CancelMark(t) \/ ApproveCommit(t) \/ RejectCommit(t)
                   \/ \E t \in Threads : DecidedBefore(t)
      ]_vars

\* A worker of t is in a call that never returns.
Hangs(t) == \E x \in Recs : thr[t].w[x] = "hung"

\* A task that runs is eventually taken out of 'running', unless its run was
\* killed, lost its session or waits for a call that never returns.
RunReports ==
    (exists /\ task.status = "running")
        ~> (~exists \/ task.status # "running" \/ cut \/ \E t \in Threads : Hangs(t))

\* A request or a run, once accepted, ends, unless a call of it never returns.
ThreadsReturn == \A t \in Threads : thr[t].pc # "idle" ~> (thr[t].pc = "idle" \/ Hangs(t))

\* automation.py:278 and :429, "this task runs only after it is approved".
RunsOnlyApproved ==
    [][\A t \in Threads :
          thr[t].pc = "cleared" /\ thr'[t].pc = "committed"
              => ~task.required \/ task.approval = "approved"]_vars
=============================================================================
