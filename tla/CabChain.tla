------------------------------ MODULE CabChain ------------------------------
(***************************************************************************)
(* The approval of ONE change request by the change advisory board         *)
(* (blueprints/cab_chain.py, the change routes of maintenance_routes.py).  *)
(*                                                                         *)
(* Submitting a change builds one approval row per approver and stage from *)
(* the active CAB configuration; a decision updates one row and recomputes *)
(* the status of the change from all rows, as its own transaction sees     *)
(* them, and from the configuration of that moment.                        *)
(***************************************************************************)
EXTENDS Integers, FiniteSets, Sequences

CONSTANTS
    Threads,    \* request threads of the server
    Users,      \* users who may hold the permission to approve
    Open,       \* slot of a stage without assigned approvers
    Configs,    \* CAB configurations that administrators may save
    Initial     \* those the change may find active when it is created

\* A configuration is a sequence of stages; approvers = {} is an open stage.
StageDef == [approvers : SUBSET Users, mode : {"any", "all"}]

ASSUME ConfigAssumption == /\ Open \notin Users
                           /\ Configs \subseteq Seq(StageDef) \ {<<>>}
                           /\ Initial \subseteq Configs /\ Initial # {}

VARIABLES
    cfg,      \* the active configuration
    change,   \* the change_requests row: status, approval, stage; or deleted
    chain,    \* change.approval_chain: row id -> approval row
    thr,      \* what each request thread has loaded and is about to write
    lone      \* no two requests have overlapped so far

vars == <<cfg, change, chain, thr, lone>>

-----------------------------------------------------------------------------
Status   == {"draft", "submitted", "approved", "rejected", "scheduled",
             "in_progress", "completed", "deleted"}
Decision == {"pending", "approved", "rejected"}
Change   == [status : Status, approval : Decision, stage : Nat]

\* A row belongs to a stage and a slot of it; the thread that built it tells
\* the rows of two simultaneous submissions apart.
RowId == (Nat \ {0}) \X (Users \cup {Open}) \X Threads
Row   == [status : Decision, approver : Users \cup {Open}]
StageOf(k) == k[1]

NoChange == [status |-> "draft", approval |-> "pending", stage |-> 0]
NoRows   == [k \in {} |-> k]
Idle     == [pc |-> "idle", seen |-> NoChange, new |-> NoChange,
             drop |-> {}, rows |-> NoRows]

Least(S) == CHOOSE s \in S : \A u \in S : s <= u

\* build_approval_chain: a row per assigned approver, or one that is open.
Slots(def) == IF def.approvers = {} THEN {Open} ELSE def.approvers

\* Mutant of Build: open stages start as skipped.
BuildSkipped(t, c) ==
    [k \in UNION {{<<s, u, t>> : u \in Slots(c[s])} : s \in 1 .. Len(c)}
       |-> [status |-> IF k[2] = Open THEN "skipped" ELSE "pending", approver |-> k[2]]]

Build(t, c) ==
    [k \in UNION {{<<s, u, t>> : u \in Slots(c[s])} : s \in 1 .. Len(c)}
       |-> [status |-> "pending", approver |-> k[2]]]

-----------------------------------------------------------------------------
(* The chain: rows is a function from row ids to approval rows             *)

Stages(rows)      == {StageOf(k) : k \in DOMAIN rows}
OfStage(rows, s)  == {k \in DOMAIN rows : StageOf(k) = s}
With(rows, s, st) == {k \in OfStage(rows, s) : rows[k].status = st}

\* get_active_stage: the first stage with anything but approvals, unless it
\* holds a rejection.  0 is the code's None.
ActiveStage(rows) ==
    LET open == {s \in Stages(rows) : With(rows, s, "approved") # OfStage(rows, s)}
    IN  IF open = {} \/ With(rows, Least(open), "rejected") # {} THEN 0
        ELSE Least(open)

Mode(s) == IF s \in 1 .. Len(cfg) THEN cfg[s].mode ELSE "all"

\* Mutants of Satisfied: a stage without rejection passes; an 'any' stage is
\* not told from an 'all' stage that has one approval too many.
SatisfiedUnrejected(rows, s) == With(rows, s, "rejected") = {}
SatisfiedStrict(rows, s) ==
    IF Mode(s) = "any" THEN With(rows, s, "approved") # {}
    ELSE Cardinality(With(rows, s, "approved")) > Cardinality(OfStage(rows, s))

Satisfied(rows, s) ==
    IF Mode(s) = "any" THEN With(rows, s, "approved") # {}
                       ELSE With(rows, s, "approved") = OfStage(rows, s)

\* recompute_change_approval: the first stage that is rejected or not yet
\* satisfied decides; if there is none the change is approved.
Recompute(ch, rows) ==
    LET blocking == {s \in Stages(rows) : \/ With(rows, s, "rejected") # {}
                                         \/ ~Satisfied(rows, s)}
    IN  IF rows = NoRows THEN ch
        ELSE IF blocking = {}
          THEN [ch EXCEPT !.status = "approved", !.approval = "approved"]
        ELSE IF With(rows, Least(blocking), "rejected") # {}
          THEN [ch EXCEPT !.status = "rejected", !.approval = "rejected"]
          ELSE [ch EXCEPT !.approval = "pending", !.stage = Least(blocking)]

-----------------------------------------------------------------------------
(* A request loads the change and its chain, and commits later.  The unit  *)
(* of work writes the columns it changed, and only those rows.             *)

Quiet == \A t \in Threads : thr[t].pc = "idle"

Begin(t, pc, new, drop, rows) ==
    /\ thr[t].pc = "idle"
    /\ thr' = [thr EXCEPT ![t] = [pc |-> pc, seen |-> change, new |-> new,
                                  drop |-> drop, rows |-> rows]]
    /\ lone' = (lone /\ Quiet)
    /\ UNCHANGED <<cfg, change, chain>>

Init ==
    /\ cfg \in Initial
    /\ change = [status |-> "draft", approval |-> "pending", stage |-> 0]
    /\ chain = NoRows
    /\ thr = [t \in Threads |-> Idle]
    /\ lone = TRUE

\* submit_change: the button on the detail page; no chain is built.
Submit(t) ==
    /\ change.status = "draft"
    /\ Begin(t, "update", [change EXCEPT !.status = "submitted"], {}, NoRows)

\* submit_change_for_approval: replaces the chain by a new one.
SubmitForApproval(t) ==
    /\ change.status = "draft"
    /\ Begin(t, "build", [change EXCEPT !.status = "submitted", !.approval = "pending", !.stage = 1],
             DOMAIN chain, Build(t, cfg))

\* approve_change and reject_change: one person decides, unless there is a chain.
DecideDirectly(t) ==
    /\ change.status = "submitted"
    /\ DOMAIN chain = {}
    /\ \E st \in {"approved", "rejected"} :
          Begin(t, "update", [change EXCEPT !.status = st, !.approval = st], {}, NoRows)

\* The row that a stage decision writes, and the change it recomputes.
Decide(t, k, u, st) ==
    LET row == [status |-> st, approver |-> u]
    IN  Begin(t, "update", Recompute(change, [chain EXCEPT ![k] = row]), {}, [x \in {k} |-> row])

\* Mutant of MayDecide: the stage of the row does not matter.
MayDecideAnyStage(k, u) ==
    /\ change.status = "submitted"
    /\ chain[k].approver \in {Open, u}

\* Mutant of MayDecide: whoever may approve changes may decide any row.
MayDecideAnybody(k, u) ==
    /\ change.status = "submitted"
    /\ ActiveStage(chain) = StageOf(k)

\* The checks that both stage routes make of row k and user u.
MayDecide(k, u) ==
    /\ change.status = "submitted"
    /\ ActiveStage(chain) = StageOf(k)
    /\ chain[k].approver \in {Open, u}

\* approve_change_stage: a row that is still pending.
ApproveStage(t, k, u) ==
    /\ MayDecide(k, u)
    /\ chain[k].status = "pending"
    /\ Decide(t, k, u, "approved")

\* reject_change_stage: any row of the active stage, a decided one too.
RejectStage(t, k, u) ==
    /\ MayDecide(k, u)
    /\ Decide(t, k, u, "rejected")

\* schedule_change, start_change, complete_change
Schedule(t) ==
    /\ change.status \in {"approved", "scheduled"}
    /\ Begin(t, "update", [change EXCEPT !.status = "scheduled"], {}, NoRows)
Start(t) ==
    /\ change.status \in {"scheduled", "approved"}
    /\ Begin(t, "update", [change EXCEPT !.status = "in_progress"], {}, NoRows)
Complete(t) ==
    /\ change.status = "in_progress"
    /\ Begin(t, "update", [change EXCEPT !.status = "completed"], {}, NoRows)

\* delete_change_request (its requester, in any status) and delete_change
\* (drafts and rejected changes) are immediate.
Delete ==
    /\ change.status # "deleted"
    /\ change' = [change EXCEPT !.status = "deleted"]
    /\ chain' = NoRows
    /\ UNCHANGED <<cfg, thr, lone>>

\* The commit fails when the change, or a row to write, is gone.
Commit(t) ==
    /\ thr[t].pc # "idle"
    /\ LET seen == thr[t].seen
           new  == thr[t].new
           kept == DOMAIN chain \ thr[t].drop
           mine == DOMAIN thr[t].rows
           gone == \/ change.status = "deleted"
                   \/ thr[t].pc = "update" /\ ~(mine \subseteq DOMAIN chain)
       IN  IF gone THEN UNCHANGED <<change, chain>>
           ELSE /\ change' = [c \in DOMAIN change |->
                                IF new[c] = seen[c] THEN change[c] ELSE new[c]]
                /\ chain' = [k \in kept \cup mine |->
                                IF k \in mine THEN thr[t].rows[k] ELSE chain[k]]
    /\ thr' = [thr EXCEPT ![t] = Idle]
    /\ UNCHANGED <<cfg, lone>>

\* cab_config: saving a configuration touches no chain.
SetConfig ==
    /\ \E c \in Configs : cfg' = c
    /\ UNCHANGED <<change, chain, thr, lone>>

Next ==
    \/ \E t \in Threads :
          \/ Submit(t) \/ SubmitForApproval(t) \/ DecideDirectly(t)
          \/ Schedule(t) \/ Start(t) \/ Complete(t) \/ Commit(t)
    \/ \E t \in Threads, u \in Users, k \in DOMAIN chain :
          ApproveStage(t, k, u) \/ RejectStage(t, k, u)
    \/ Delete \/ SetConfig

Spec == Init /\ [][Next]_vars
-----------------------------------------------------------------------------
(* Properties                                                              *)

ChainOK(rows) == DOMAIN rows \subseteq RowId /\ \A k \in DOMAIN rows : rows[k] \in Row

TypeOK ==
    /\ cfg \in Configs
    /\ change \in Change
    /\ ChainOK(chain)
    /\ lone \in BOOLEAN
    /\ DOMAIN thr = Threads
    /\ \A t \in Threads :
          /\ thr[t].pc \in {"idle", "build", "update"}
          /\ thr[t].seen \in Change /\ thr[t].new \in Change
          /\ thr[t].drop \subseteq RowId
          /\ ChainOK(thr[t].rows)

\* Whatever two approvers do at once, and whatever happens to the configuration:
\* no row of a later stage is decided while one of an earlier stage of the same
\* chain is still pending.
StageOrder ==
    \A k, l \in DOMAIN chain :
       StageOf(l) < StageOf(k) /\ k[3] = l[3] /\ chain[k].status # "pending"
           => chain[l].status # "pending"

\* As long as requests come one at a time, a change that went through its chain
\* and is being carried out has in every stage an approval and no rejection,
\* though the configuration may have been replaced while it was being decided.
ApprovedInEveryStage ==
    lone /\ change.status \in {"approved", "scheduled", "in_progress", "completed"} =>
        \A s \in Stages(chain) : /\ With(chain, s, "approved") # {}
                                 /\ With(chain, s, "rejected") = {}

\* recompute_change_approval, cab_chain.py:85 and :110, "recompute the status of
\* the change from the chain", "every stage is satisfied": a submitted change
\* whose chain holds no pending row has been decided.  One that has not is
\* beyond the reach of both stage routes and of the direct ones.  (Two decisions
\* that overlap may well leave such a change: neither sees the other's row.)
NoDeadEnd ==
    lone /\ Quiet /\ change.status = "submitted" /\ DOMAIN chain # {}
        => ActiveStage(chain) # 0

\* CABConfig, maintenance_models.py:3315, "mode=any: the stage passes as soon as
\* one approver passes it": such a stage is not the one waited for any more.
AnyModePasses ==
    change.status = "submitted" =>
        \A s \in Stages(chain) :
            Mode(s) = "any" /\ With(chain, s, "approved") # {} => ActiveStage(chain) # s

\* Whatever requests overlap: chains appear whole and undecided, rows are decided
\* stage by stage and by the person the configuration assigned, and no decision
\* is taken back. The chain implements StagedDecisions.
Staged == INSTANCE StagedDecisions WITH rows <- chain, Chains <- Threads
StagedSpec == Staged!Spec
=============================================================================
