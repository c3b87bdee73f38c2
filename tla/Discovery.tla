----------------------------- MODULE Discovery ------------------------------
(***************************************************************************)
(* ONE topology discovery task (blueprints/topology.py): the requests that *)
(* run, resume, stop and delete it, the job of the scheduler that runs it  *)
(* too, and the runs themselves (background_discovery) on the threads of   *)
(* the executor and of the scheduler.                                      *)
(*                                                                         *)
(* The status is a column that everybody commits without looking again;    *)
(* the Event that stops a run is an entry of the dictionary stop_events,   *)
(* which requests and runs replace and remove without a lock.              *)
(***************************************************************************)
EXTENDS Naturals, FiniteSets

CONSTANTS
    Threads,    \* request threads
    Pool,       \* threads of discovery_executor (5)
    Cron,       \* the thread of the scheduler's job (max_instances=1)
    Events,     \* threading.Event objects
    NoEvent,
    MaxRuns     \* bound on the runs that are asked for, queued or active

ASSUME NamesAssumption == Cron \notin Pool /\ NoEvent \notin Events
ASSUME RunsAssumption  == MaxRuns \in Nat

VARIABLES
    row,        \* DiscoveryTask.status, or "gone"
    reg,        \* stop_events[task_id]
    isSet,      \* the Events that are set
    queued,     \* runs submitted to the executor and not yet started
    thr,        \* where each request is
    wk,         \* where each run is, its Event, the status it has loaded, the
                \* status it will write
    stranded,   \* a crash or a failed query has cut off a request or a run
                \* while the task was 'running', and it still is
    stale,      \* ... has cut off a run that would have removed the Event that
                \* is still registered
    watch       \* "crowded": a run was started beside another, or a stop sent
                \* while a request was on its way; otherwise has a stop been
                \* sent since the last start ("halted") or not ("clear")?

vars == <<row, reg, isSet, queued, thr, wk, stranded, stale, watch>>

-----------------------------------------------------------------------------
Workers == Pool \cup {Cron}
Status  == {"idle", "running", "paused", "completed", "failed"}
Request == {"idle", "start", "register", "submit", "signal", "pause"}
Place   == {"idle", "load", "event", "store", "begin", "work", "check",
            "commit", "finally"}

Final   == {"paused", "completed", "failed"}

\* seen: the status the session holds for the row, as far as writing it again
\* would change nothing; "other" is any that it will not write. (A commit does
\* not make the session read again: expire_on_commit is off.)
Run  == [pc : Place, ev : Events \cup {NoEvent},
         seen : Final \cup {"running", "other"}, final : Final]
Free == [pc |-> "idle", ev |-> NoEvent, seen |-> "other", final |-> "completed"]

Init ==
    /\ row = "idle" /\ reg = NoEvent /\ isSet = {} /\ queued = 0
    /\ thr = [t \in Threads |-> "idle"]
    /\ wk  = [w \in Workers |-> Free]
    /\ stranded = FALSE /\ stale = FALSE /\ watch = "clear"

\* An Event is an object: nobody refers to one that is in neither place, and
\* with it its flag is gone.
Held     == {wk[w].ev : w \in Workers}
Unheld   == Events \ Held
NewEvent == CHOOSE e \in Unheld : TRUE

Asking == {t \in Threads : thr[t] # "idle"}
Active == {w \in Workers : wk[w].pc # "idle"}
Busy   == Asking # {} \/ queued > 0 \/ Active # {}
Room   == Cardinality({t \in Threads : thr[t] \in {"start", "register", "submit"}})
          + queued + Cardinality(Active) < MaxRuns

To(t, label) == thr' = [thr EXCEPT ![t] = label]
Seen(statuses) == IF row \in statuses THEN row ELSE "other"

Goto(w, label) == wk' = [wk EXCEPT ![w].pc = label]
Write(status) == row' = status /\ stranded' = (stranded /\ status = "running")

\* A run that does not read its Event, or the row, any more.
Leave(w, label) ==
    /\ wk' = [wk EXCEPT ![w] = [Free EXCEPT !.pc = label]]
    /\ isSet' = isSet \cap ({reg} \cup {wk[v].ev : v \in Workers \ {w}})

-----------------------------------------------------------------------------
(* Requests.                                                               *)

\* api_run_task, and api_resume_task when the task is paused.
StartLoad(t) ==
    /\ thr[t] = "idle" /\ row \notin {"running", "gone"} /\ Room
    /\ To(t, "start")
    /\ watch' = IF Busy THEN "crowded" ELSE "clear"
    /\ UNCHANGED <<row, reg, isSet, queued, wk, stranded, stale>>

\* The commit of 'running'; it fails if the row is gone or the database refuses.
StartCommit(t) ==
    /\ thr[t] = "start"
    /\ \/ row # "gone" /\ Write("running") /\ To(t, "register")
       \/ Write(row) /\ To(t, "idle")
    /\ UNCHANGED <<reg, isSet, queued, wk, stale, watch>>

\* Mutant of Register: an Event that is registered is cleared and used again.
RegisterClears(t) ==
    /\ thr[t] = "register" /\ Unheld # {}
    /\ reg' = (IF reg = NoEvent THEN NewEvent ELSE reg)
    /\ isSet' = (isSet \cap Held) \ {reg} /\ stale' = FALSE
    /\ To(t, "submit")
    /\ UNCHANGED <<row, queued, wk, stranded, watch>>

\* After the audit entry a new Event replaces whatever is registered.
Register(t) ==
    /\ thr[t] = "register" /\ Unheld # {}
    /\ reg' = NewEvent /\ isSet' = isSet \cap Held /\ stale' = FALSE
    /\ To(t, "submit")
    /\ UNCHANGED <<row, queued, wk, stranded, watch>>

\* The audit entry was refused: that rolls the session back, and task.id cannot
\* be read again.
RegisterFails(t) ==
    /\ thr[t] = "register"
    /\ To(t, "idle") /\ stranded' = (row = "running")
    /\ UNCHANGED <<row, reg, isSet, queued, wk, stale, watch>>

Submit(t) ==
    /\ thr[t] = "submit"
    /\ queued' = queued + 1 /\ To(t, "idle")
    /\ UNCHANGED <<row, reg, isSet, wk, stranded, stale, watch>>

\* api_stop_task
StopLoad(t) ==
    /\ thr[t] = "idle" /\ row = "running"
    /\ To(t, "signal")
    /\ watch' = IF Asking # {} THEN "crowded" ELSE watch
    /\ UNCHANGED <<row, reg, isSet, queued, wk, stranded, stale>>

StopSignal(t) ==
    /\ thr[t] = "signal"
    /\ isSet' = isSet \cup ({reg} \ {NoEvent})
    /\ watch' = IF watch = "crowded" THEN watch ELSE "halted"
    /\ To(t, "pause")
    /\ UNCHANGED <<row, reg, queued, wk, stranded, stale>>

\* Mutant of StopCommit: a status that no other code knows.
StopCommitTypo(t) ==
    /\ thr[t] = "pause"
    /\ Write(row) \/ (row # "gone" /\ Write("stopped"))
    /\ To(t, "idle")
    /\ UNCHANGED <<reg, isSet, queued, wk, stale, watch>>

StopCommit(t) ==
    /\ thr[t] = "pause"
    /\ Write(row) \/ (row # "gone" /\ Write("paused"))
    /\ To(t, "idle")
    /\ UNCHANGED <<reg, isSet, queued, wk, stale, watch>>

\* discovery_task_detail, DELETE: whatever runs. Ids are not used again.
Delete(t) ==
    /\ thr[t] = "idle" /\ row # "gone"
    /\ Write("gone")
    /\ UNCHANGED <<reg, isSet, queued, thr, wk, stale, watch>>

-----------------------------------------------------------------------------
(* Runs: background_discovery.                                             *)

\* The scheduler looks at no status; its job may outlive the row for a moment.
Fire ==
    /\ wk[Cron].pc = "idle" /\ Room
    /\ Goto(Cron, "load")
    /\ watch' = IF Busy \/ row = "running" THEN "crowded" ELSE "clear"
    /\ UNCHANGED <<row, reg, isSet, queued, thr, stranded, stale>>

Take(w) ==
    /\ w \in Pool /\ wk[w].pc = "idle" /\ queued > 0
    /\ queued' = queued - 1 /\ Goto(w, "load")
    /\ UNCHANGED <<row, reg, isSet, thr, stranded, stale, watch>>

Load(w) ==
    /\ wk[w].pc = "load"
    /\ wk' = [wk EXCEPT ![w] = IF row = "gone" THEN Free
                               ELSE [@ EXCEPT !.pc = "event", !.seen = Seen({"running"})]]
    /\ stale' = (stale \/ (row = "gone" /\ reg # NoEvent))
    /\ UNCHANGED <<row, reg, isSet, queued, thr, stranded, watch>>

\* Mutant of GetEvent: every run has an Event of its own.
GetEventOwn(w) ==
    /\ wk[w].pc = "event"
    /\ \E e \in Unheld \ {reg} : wk' = [wk EXCEPT ![w].pc = "store", ![w].ev = e]
    /\ UNCHANGED <<row, reg, isSet, queued, thr, stranded, stale, watch>>

\* stop_events.get(task_id) or Event()
GetEvent(w) ==
    /\ wk[w].pc = "event" /\ Unheld # {}
    /\ wk' = [wk EXCEPT ![w].pc = "store",
                        ![w].ev = IF reg # NoEvent THEN reg ELSE NewEvent]
    /\ UNCHANGED <<row, reg, isSet, queued, thr, stranded, stale, watch>>

StoreEvent(w) ==
    /\ wk[w].pc = "store"
    /\ reg' = wk[w].ev /\ isSet' = isSet \cap Held
    /\ Goto(w, "begin")
    /\ UNCHANGED <<row, queued, thr, stranded, stale, watch>>

\* The commit of 'running', which is no change for a session that loaded it.
Begin(w) ==
    /\ wk[w].pc = "begin" /\ row # "gone"
    /\ Write(IF wk[w].seen = "running" THEN row ELSE "running")
    /\ wk' = [wk EXCEPT ![w].pc = "work", ![w].seen = "other"]
    /\ UNCHANGED <<reg, isSet, queued, thr, stale, watch>>

\* save_discovery_results is refused and rolls back; the row is read again.
SaveFails(w) ==
    /\ wk[w].pc = "work" /\ row # "gone"
    /\ wk' = [wk EXCEPT ![w].seen = Seen(Final)]
    /\ UNCHANGED <<row, reg, isSet, queued, thr, stranded, stale, watch>>

\* run_ipmac_discovery gives up, before its scan or after it: it commits 'failed'
\* and returns normally.
GiveUp(w) ==
    /\ wk[w].pc = "work" /\ row # "gone"
    /\ wk[w].seen = "other" /\ Write("failed")
    /\ wk' = [wk EXCEPT ![w].pc = "check", ![w].seen = "failed"]
    /\ UNCHANGED <<reg, isSet, queued, thr, stale, watch>>

\* The discovery returns, finished or stopped: the Event decides which.
Check(w) ==
    /\ wk[w].pc \in {"work", "check"}
    /\ wk' = [wk EXCEPT ![w].pc = "commit",
                        ![w].final = IF wk[w].ev \in isSet THEN "paused" ELSE "completed"]
    /\ UNCHANGED <<row, reg, isSet, queued, thr, stranded, stale, watch>>

\* Mutant of Raise: the exception is logged and the status left as it is.
RaiseLogged(w) ==
    /\ wk[w].pc \in {"work", "check"}
    /\ Leave(w, "finally")
    /\ UNCHANGED <<row, reg, queued, thr, stranded, stale, watch>>

\* The discovery, or the merge of devices after it, raises.
Raise(w) ==
    /\ wk[w].pc \in {"work", "check"}
    /\ wk' = [wk EXCEPT ![w].pc = "commit", ![w].final = "failed"]
    /\ UNCHANGED <<row, reg, isSet, queued, thr, stranded, stale, watch>>

\* Mutant of Finish: a stopped run leaves the status to whoever stopped it.
FinishUnlessStopped(w) ==
    /\ wk[w].pc = "commit" /\ row # "gone"
    /\ Write(IF wk[w].final = "paused" THEN row ELSE wk[w].final)
    /\ Leave(w, "finally")
    /\ UNCHANGED <<reg, queued, thr, stale, watch>>

Finish(w) ==
    /\ wk[w].pc = "commit" /\ row # "gone"
    /\ Write(IF wk[w].seen = wk[w].final THEN row ELSE wk[w].final)
    /\ Leave(w, "finally")
    /\ UNCHANGED <<reg, queued, thr, stale, watch>>

\* A query or a commit fails: in front of the try the run just ends, after it
\* the final commit fails as well and the Event is still removed.
Breaks(w) ==
    /\ wk[w].pc \in {"load", "event", "begin", "work", "check", "commit"}
    /\ IF wk[w].pc \in {"load", "event", "begin"}
         THEN Leave(w, "idle") /\ stale' = (reg # NoEvent)
         ELSE Leave(w, "finally") /\ stale' = stale
    /\ stranded' = (row = "running")
    /\ UNCHANGED <<row, reg, queued, thr, watch>>

\* Mutant of Finally: the entry stays for the next run.
FinallyKeeps(w) ==
    /\ wk[w].pc = "finally"
    /\ wk' = [wk EXCEPT ![w] = Free]
    /\ UNCHANGED <<row, reg, isSet, queued, thr, stranded, stale, watch>>

\* finally: the entry of the task is removed, whoever registered it.
Finally(w) ==
    /\ wk[w].pc = "finally"
    /\ reg' = NoEvent /\ stale' = FALSE
    /\ wk' = [wk EXCEPT ![w] = Free]
    /\ isSet' = isSet \cap Held
    /\ UNCHANGED <<row, queued, thr, stranded, watch>>

\* The process dies: of all this only the row survives.
Crash ==
    /\ reg' = NoEvent /\ isSet' = {} /\ queued' = 0
    /\ thr' = [t \in Threads |-> "idle"] /\ wk' = [w \in Workers |-> Free]
    /\ stranded' = (row = "running") /\ stale' = FALSE
    /\ UNCHANGED <<row, watch>>

-----------------------------------------------------------------------------
RequestStep(t) ==
    \/ StartCommit(t) \/ Register(t) \/ RegisterFails(t) \/ Submit(t)
    \/ StopSignal(t) \/ StopCommit(t)

Ends(w) ==
    \/ Load(w) \/ GetEvent(w) \/ StoreEvent(w) \/ Begin(w)
    \/ Check(w) \/ Raise(w) \/ Finish(w) \/ Breaks(w) \/ Finally(w)

Next ==
    \/ \E t \in Threads : StartLoad(t) \/ StopLoad(t) \/ Delete(t) \/ RequestStep(t)
    \/ Fire
    \/ \E w \in Workers : Take(w) \/ SaveFails(w) \/ GiveUp(w) \/ Ends(w)
    \/ Crash

Spec == Init /\ [][Next]_vars

\* Requests and runs end: every probe of a discovery has a timeout, and a free
\* thread of the executor takes the next run.
Fairness ==
    /\ \A t \in Threads : WF_vars(RequestStep(t))
    /\ \A w \in Workers : WF_vars(Take(w) \/ Ends(w))

FairSpec == Spec /\ Fairness

-----------------------------------------------------------------------------
(* Properties                                                              *)

TypeOK ==
    /\ row \in Status \cup {"gone"}
    /\ reg \in Events \cup {NoEvent}
    /\ isSet \subseteq Events
    /\ queued \in Nat
    /\ thr \in [Threads -> Request]
    /\ wk \in [Workers -> Run]
    /\ stranded \in BOOLEAN /\ stale \in BOOLEAN
    /\ watch \in {"clear", "halted", "crowded"}

\* Whose business it is to take the task out of 'running': a request that has
\* committed it, a run that waits for a thread, or a run whose last commit will
\* change the column.
Responsible ==
    \/ \E t \in Threads : thr[t] \in {"register", "submit"}
    \/ queued > 0
    \/ \E w \in Workers :
          \/ wk[w].pc \in {"load", "event", "store", "begin"}
          \/ wk[w].pc \in {"work", "check", "commit"} /\ wk[w].seen = "other"

\* A task in 'running' has somebody who will take it out, whatever requests and
\* runs overlap, unless a crash or a failed query has cut one off. Otherwise no
\* request could run the task again (api_run_task refuses it).
RunningHasRun == row = "running" /\ ~stranded => Responsible

\* A registered Event has a request or a run that will remove it, so that no
\* later run inherits the Event of one that is over and ends as it begins.
EventHasRun ==
    reg # NoEvent /\ ~stale =>
        \/ \E t \in Threads : thr[t] = "submit"
        \/ queued > 0
        \/ \E w \in Workers : wk[w].pc # "idle"

\* As long as no run starts beside another and no stop overtakes the request
\* that starts one, a run ends 'paused' exactly if a stop was asked for since
\* it was started: at whatever point of the run, also before it has a thread.
StopIsObeyed ==
    [][watch # "crowded" /\ ~stale =>
          \A w \in Workers : wk[w].pc # "commit" /\ wk'[w].pc = "commit"
              => wk'[w].final \in {"failed", IF watch = "halted" THEN "paused" ELSE "completed"}]_vars

\* A run that has been told to stop stays told until it ends, whatever requests
\* and runs replace or remove the Event of the task meanwhile.
StopSticks ==
    [][\A w \in Workers :
          wk[w].ev \in isSet /\ wk'[w].ev = wk[w].ev => wk'[w].ev \in isSet']_vars

\* A task leaves 'running', unless a crash or a failed query has cut off whoever
\* was to take it out.
RunSettles == row = "running" /\ ~stranded ~> row # "running" \/ stranded

=============================================================================
