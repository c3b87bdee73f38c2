--------------------------- MODULE DiscoveryJobs ----------------------------
(***************************************************************************)
(* The schedules of the discovery tasks: their columns in the database and *)
(* the jobs discovery_task_<id> of the scheduler (scheduler.py), which the *)
(* requests that create, update and delete a task (blueprints/topology.py, *)
(* blueprints/device.py) keep in step after they have committed.           *)
(*                                                                         *)
(* Nothing ties the two together: jobs are set from what the session of a  *)
(* request holds, by whichever request comes last, and they are lost with  *)
(* the process; removing the job of a task may remove those of others.     *)
(***************************************************************************)
CONSTANTS
    Tasks,      \* ids of discovery tasks, never used again
    Threads,    \* request threads
    Hits        \* task -> tasks whose job id contains its number

ASSUME HitsAssumption == Hits \in [Tasks -> SUBSET Tasks]

VARIABLES
    row,        \* schedule columns of each task, New or Gone
    jobs,       \* the schedule of its job in the scheduler, or "none"
    thr,        \* what each request has got to, and the columns it holds
    adrift      \* tasks whose job may differ from their columns: two requests
                \* have overlapped on the task, one has failed after its commit,
                \* or the removal of another job has removed this one

vars == <<row, jobs, thr, adrift>>

-----------------------------------------------------------------------------
\* A cron expression that cannot be parsed counts as "manual": it has no job.
Kinds   == {"manual", "interval", "cron"}
Columns == [kind : Kinds, enabled : BOOLEAN]
New     == [kind |-> "new",  enabled |-> FALSE]
Gone    == [kind |-> "gone", enabled |-> FALSE]
Rows    == Columns \cup {New, Gone}

Stage   == {"load", "audit", "remove", "sweep", "add"}
Idle    == [pc |-> "idle"]
Request == [pc : Stage, id : Tasks, new : Rows \ {New}, alone : BOOLEAN,
            changed : SUBSET {"kind", "enabled"}]

Wanted(columns) ==
    IF columns \in Columns /\ columns.enabled /\ columns.kind # "manual"
    THEN columns.kind ELSE "none"

\* Requests that are at work on a task.
On(i) == {t \in Threads : thr[t].pc # "idle" /\ thr[t].id = i}

\* A request on task i begins; those that are at work on it are not alone either.
Begin(t, request) ==
    thr' = [u \in Threads |->
              IF u = t THEN request
              ELSE IF u \in On(request.id) THEN [thr[u] EXCEPT !.alone = FALSE] ELSE thr[u]]

Goto(t, pc) == thr' = [thr EXCEPT ![t].pc = pc]

\* A request ends. If it was alone all the time, job and columns agree.
Leave(t) ==
    /\ thr' = [thr EXCEPT ![t] = Idle]
    /\ adrift' = IF thr[t].alone THEN adrift \ {thr[t].id} ELSE adrift \cup {thr[t].id}

\* ... or breaks off after its commit.
Break(t) ==
    /\ thr' = [thr EXCEPT ![t] = Idle]
    /\ adrift' = adrift \cup {thr[t].id}

Init ==
    /\ row = [i \in Tasks |-> New] /\ jobs = [i \in Tasks |-> "none"]
    /\ thr = [t \in Threads |-> Idle]
    /\ adrift = {}

-----------------------------------------------------------------------------
(* Requests.                                                               *)

\* api_create_discovery_task: a new task is enabled.
Create(t, i) ==
    /\ thr[t].pc = "idle" /\ row[i] = New
    /\ \E kind \in Kinds :
         LET columns == [kind |-> kind, enabled |-> TRUE]
         IN  /\ row' = [row EXCEPT ![i] = columns]
             /\ Begin(t, [pc |-> "add", id |-> i, new |-> columns,
                          alone |-> On(i) = {}, changed |-> {}])
    /\ UNCHANGED <<jobs, adrift>>

\* discovery_task_detail, PUT: sets the columns that the request names.
Load(t, i) ==
    /\ thr[t].pc = "idle" /\ row[i] \in Columns
    /\ \E columns \in Columns :
         Begin(t, [pc |-> "load", id |-> i, new |-> columns, alone |-> On(i) = {},
                   changed |-> {c \in {"kind", "enabled"} : columns[c] # row[i][c]}])
    /\ UNCHANGED <<row, jobs, adrift>>

\* The commit writes the columns that have changed.
Flush(r, old) == [c \in {"kind", "enabled"} |-> IF c \in r.changed THEN r.new[c] ELSE old[c]]

Commit(t) ==
    /\ thr[t].pc = "load" /\ row[thr[t].id] \in Columns
    /\ row' = [row EXCEPT ![thr[t].id] = Flush(thr[t], @)]
    /\ thr' = [thr EXCEPT ![t].pc = "audit", ![t].changed = {}]
    /\ UNCHANGED <<jobs, adrift>>

\* The commit fails: nothing has changed.
CommitFails(t) ==
    /\ thr[t].pc = "load"
    /\ thr' = [thr EXCEPT ![t] = Idle]
    /\ adrift' = IF thr[t].alone THEN adrift ELSE adrift \cup {thr[t].id}
    /\ UNCHANGED <<row, jobs>>

\* discovery_task_detail, DELETE
Delete(t, i) ==
    /\ thr[t].pc = "idle" /\ row[i] \in Columns
    /\ row' = [row EXCEPT ![i] = Gone]
    /\ Begin(t, [pc |-> "remove", id |-> i, new |-> Gone, alone |-> On(i) = {},
                 changed |-> {}])
    /\ UNCHANGED <<jobs, adrift>>

\* The audit entry. If it is refused the session is rolled back and reads the
\* row again, or, when that fails too, the request breaks off.
Audit(t) ==
    /\ thr[t].pc = "audit"
    /\ \/ Goto(t, "remove") /\ UNCHANGED adrift
       \/ /\ row[thr[t].id] \in Columns
          /\ thr' = [thr EXCEPT ![t].pc = "remove", ![t].new = row[thr[t].id]]
          /\ UNCHANGED adrift
       \/ Break(t)
    /\ UNCHANGED <<row, jobs>>

-----------------------------------------------------------------------------
(* The job of the task is removed, and added again if it is to have one.   *)

\* Mutant of Remove: a job that is there is left to be replaced.
RemoveNothing(t) ==
    /\ thr[t].pc = "remove"
    /\ Goto(t, IF jobs[thr[t].id] = "none" THEN "sweep" ELSE "add")
    /\ UNCHANGED <<row, jobs, adrift>>

\* unschedule_discovery_task: a job that is there is removed, and that is all.
Remove(t) ==
    /\ thr[t].pc = "remove"
    /\ jobs' = [jobs EXCEPT ![thr[t].id] = "none"]
    /\ Goto(t, IF jobs[thr[t].id] = "none" THEN "sweep" ELSE "add")
    /\ UNCHANGED <<row, adrift>>

\* Otherwise all jobs go whose id contains the number of the task.
Sweep(t) ==
    LET i    == thr[t].id
        lost == {k \in Hits[i] \cup {i} : jobs[k] # "none"}
    IN  /\ thr[t].pc = "sweep"
        /\ jobs' = [k \in Tasks |-> IF k \in lost THEN "none" ELSE jobs[k]]
        /\ adrift' = adrift \cup (lost \ {i})
        /\ Goto(t, "add")
        /\ UNCHANGED row

\* schedule_discovery_task, schedule_discovery_task_cron: the job as the session
\* of the request has the columns.
Add(t) ==
    /\ thr[t].pc = "add"
    /\ jobs' = IF Wanted(thr[t].new) = "none" THEN jobs
               ELSE [jobs EXCEPT ![thr[t].id] = Wanted(thr[t].new)]
    /\ Leave(t)
    /\ UNCHANGED row

\* The request fails before it has set the job: reading the task again, or the
\* scheduler, raises.
AddFails(t) ==
    /\ thr[t].pc = "add"
    /\ Break(t)
    /\ UNCHANGED <<row, jobs>>

\* Mutant of Restart: every task that is there is scheduled.
RestartAll ==
    /\ jobs' = [i \in Tasks |-> row[i].kind]
    /\ thr' = [t \in Threads |-> Idle]
    /\ adrift' = {}
    /\ UNCHANGED row

\* bootstrap_discovery_tasks, after the process has died.
Restart ==
    /\ jobs' = [i \in Tasks |-> Wanted(row[i])]
    /\ thr' = [t \in Threads |-> Idle]
    /\ adrift' = {}
    /\ UNCHANGED row

-----------------------------------------------------------------------------
Next ==
    \/ \E t \in Threads, i \in Tasks : Create(t, i) \/ Load(t, i) \/ Delete(t, i)
    \/ \E t \in Threads : \/ Commit(t) \/ CommitFails(t) \/ Audit(t)
                          \/ Remove(t) \/ Sweep(t) \/ Add(t) \/ AddFails(t)
    \/ Restart

Spec == Init /\ [][Next]_vars

-----------------------------------------------------------------------------
(* Properties                                                              *)

TypeOK ==
    /\ row \in [Tasks -> Rows]
    /\ jobs \in [Tasks -> Kinds \cup {"none"}]
    /\ thr \in [Threads -> Request \cup {Idle}]
    /\ adrift \subseteq Tasks

\* Between requests, a task has the job that its columns ask for, and no other,
\* unless it is adrift. One request that is alone on the task, or a restart,
\* brings it back.
JobFollowsRow ==
    \A i \in Tasks : On(i) = {} /\ i \notin adrift => jobs[i] = Wanted(row[i])

=============================================================================
