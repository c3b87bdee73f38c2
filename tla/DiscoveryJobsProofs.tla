------------------------- MODULE DiscoveryJobsProofs -------------------------
(***************************************************************************)
(* Proofs about DiscoveryJobs, for any number of tasks and threads and     *)
(* whatever job ids contain one another: type correctness, and that a task *)
(* that nobody is at work on has the job that its columns ask for.         *)
(***************************************************************************)
EXTENDS DiscoveryJobs, TLAPS

-----------------------------------------------------------------------------
(* Columns and requests                                                    *)

LEMMA WantedType == ASSUME NEW columns \in Rows
                    PROVE  Wanted(columns) \in Kinds \cup {"none"}
BY DEF Wanted, Rows, Columns, New, Gone, Kinds

\* New and Gone differ from all columns and from each other, and want no job.
LEMMA NoJob == /\ New \notin Columns /\ Gone \notin Columns /\ New # Gone
               /\ Wanted(New) = "none" /\ Wanted(Gone) = "none"
BY DEF New, Gone, Columns, Kinds, Wanted

LEMMA FlushType ==
    ASSUME NEW r \in Request, NEW old \in Columns, r.new \in Columns
    PROVE  Flush(r, old) \in Columns
<1> DEFINE f == Flush(r, old)
<1>1. f = [c \in {"kind", "enabled"} |-> IF c \in r.changed THEN r.new[c] ELSE old[c]]
  BY DEF Flush
<1>2. f.kind \in Kinds /\ f.enabled \in BOOLEAN
  BY DEF Flush, Columns
<1> QED  BY <1>1, <1>2 DEF Columns

\* A request that has seen what it changes writes what it holds.
LEMMA FlushWritesNew ==
    ASSUME NEW r \in Request, NEW old \in Columns, r.new \in Columns,
           \A c \in {"kind", "enabled"} : c \notin r.changed => r.new[c] = old[c]
    PROVE  Flush(r, old) = r.new
<1>1. Flush(r, old) = [c \in {"kind", "enabled"} |-> r.new[c]]
  BY DEF Flush
<1>2. r.new = [c \in {"kind", "enabled"} |-> r.new[c]]
  BY DEF Columns
<1> QED  BY <1>1, <1>2

-----------------------------------------------------------------------------
(* The inductive invariant                                                 *)

Busy(t) == thr[t].pc # "idle"

\* What a request that is alone on its task knows of the columns and the job.
AloneKnows ==
    \A t \in Threads : Busy(t) /\ thr[t].alone =>
        LET i == thr[t].id
        IN  /\ \A u \in Threads \ {t} : Busy(u) => thr[u].id # i
            /\ thr[t].pc = "load" =>
                 /\ \A c \in {"kind", "enabled"} :
                       c \notin thr[t].changed => thr[t].new[c] = row[i][c]
                 /\ i \notin adrift => jobs[i] = Wanted(row[i])
            /\ thr[t].pc # "load" => row[i] = thr[t].new
            /\ thr[t].pc \in {"sweep", "add"} => jobs[i] = "none"

LoadHasColumns == \A t \in Threads : thr[t].pc = "load" => thr[t].new \in Columns

\* Nobody has heard of a task that is not there yet.
NewUntouched ==
    \A i \in Tasks : row[i] = New =>
        jobs[i] = "none" /\ \A t \in Threads : Busy(t) => thr[t].id # i

IInv == TypeOK /\ AloneKnows /\ LoadHasColumns /\ NewUntouched /\ JobFollowsRow

LEMMA InitIInv == Init => IInv
BY NoJob DEF Init, IInv, TypeOK, AloneKnows, LoadHasColumns, NewUntouched, JobFollowsRow,
             Busy, Idle, Rows, Kinds

LEMMA ThreadType ==
    ASSUME TypeOK, NEW t \in Threads, Busy(t)
    PROVE  thr[t] \in Request
BY DEF TypeOK, Busy, Idle

-----------------------------------------------------------------------------
(* A request begins.                                                       *)

\* What Begin makes of the threads.
LEMMA BeginThreads ==
    ASSUME TypeOK, NEW t \in Threads, thr[t].pc = "idle", NEW request \in Request,
           Begin(t, request)
    PROVE  /\ thr' \in [Threads -> Request \cup {Idle}]
           /\ thr'[t] = request /\ Busy(t)'
           /\ \A u \in Threads \ {t} :
                 /\ Busy(u)' <=> Busy(u)
                 /\ Busy(u) => /\ thr'[u].id = thr[u].id /\ thr'[u].pc = thr[u].pc
                               /\ thr'[u].new = thr[u].new
                               /\ thr'[u].changed = thr[u].changed
                               /\ thr'[u].alone <=> thr[u].alone /\ thr[u].id # request.id
                 /\ ~Busy(u) => thr'[u] = thr[u]
<1>1. thr \in [Threads -> Request \cup {Idle}]
  BY DEF TypeOK
<1>2. thr' = [u \in Threads |->
                IF u = t THEN request
                ELSE IF u \in On(request.id) THEN [thr[u] EXCEPT !.alone = FALSE] ELSE thr[u]]
  BY DEF Begin
<1>3. thr'[t] = request
  BY <1>2
<1>4. request.pc # "idle"
  BY DEF Request, Stage
<1>5. ASSUME NEW u \in Threads \ {t}
      PROVE  /\ thr'[u] \in Request \cup {Idle}
             /\ Busy(u)' <=> Busy(u)
             /\ Busy(u) => /\ thr'[u].id = thr[u].id /\ thr'[u].pc = thr[u].pc
                           /\ thr'[u].new = thr[u].new
                           /\ thr'[u].changed = thr[u].changed
                           /\ thr'[u].alone <=> thr[u].alone /\ thr[u].id # request.id
             /\ ~Busy(u) => thr'[u] = thr[u]
  <2>1. CASE u \in On(request.id)
    <3>1. thr'[u] = [thr[u] EXCEPT !.alone = FALSE]
      BY <1>2, <2>1
    <3>2. thr[u].id = request.id /\ Busy(u) /\ thr[u] \in Request
      BY <1>1, <2>1 DEF On, Busy, Idle
    <3>3. thr'[u] \in Request /\ ~thr'[u].alone /\ thr'[u].pc = thr[u].pc
          /\ thr'[u].id = thr[u].id /\ thr'[u].new = thr[u].new
          /\ thr'[u].changed = thr[u].changed
      BY <3>1, <3>2 DEF Request
    <3> QED  BY <3>2, <3>3 DEF Busy
  <2>2. CASE u \notin On(request.id)
    <3>1. thr'[u] = thr[u]
      BY <1>2, <2>2
    <3>2. Busy(u) => thr[u].id # request.id /\ thr[u].alone \in BOOLEAN
      BY <1>1, <2>2 DEF On, Busy, Idle, Request
    <3> QED  BY <1>1, <3>1, <3>2 DEF Busy
  <2> QED  BY <2>1, <2>2
<1>6. thr' \in [Threads -> Request \cup {Idle}]
  BY <1>2, <1>3, <1>5
<1> QED  BY <1>3, <1>4, <1>5, <1>6 DEF Busy

\* A request that is alone when it begins, and knows what AloneKnows says.
LEMMA BeginStep ==
    ASSUME IInv, NEW t \in Threads, thr[t].pc = "idle", NEW request \in Request,
           Begin(t, request), UNCHANGED <<jobs, adrift>>,
           row' \in [Tasks -> Rows], \A k \in Tasks \ {request.id} : row'[k] = row[k],
           row'[request.id] # New,
           request.alone <=> On(request.id) = {},
           request.pc = "load" => /\ request.new \in Columns /\ row' = row
                                  /\ \A c \in {"kind", "enabled"} :
                                       c \notin request.changed => request.new[c] = row[request.id][c],
           request.pc # "load" => row'[request.id] = request.new,
           request.pc = "add" => row[request.id] = New,
           request.pc # "sweep"
    PROVE  IInv'
<1> DEFINE i == request.id
<1>1. TypeOK
  BY DEF IInv
<1>2. thr' \in [Threads -> Request \cup {Idle}] /\ thr'[t] = request /\ Busy(t)'
  BY <1>1, BeginThreads
<1>3. ASSUME NEW u \in Threads \ {t}
      PROVE  /\ Busy(u)' <=> Busy(u)
             /\ Busy(u) => /\ thr'[u].id = thr[u].id /\ thr'[u].pc = thr[u].pc
                           /\ thr'[u].new = thr[u].new
                           /\ thr'[u].changed = thr[u].changed
                           /\ thr'[u].alone <=> thr[u].alone /\ thr[u].id # i
             /\ ~Busy(u) => thr'[u] = thr[u]
  BY <1>1, BeginThreads
<1>4. i \in Tasks
  BY DEF Request
<1>5. TypeOK'
  BY <1>1, <1>2 DEF TypeOK
<1>6. LoadHasColumns'
  BY <1>2, <1>3 DEF LoadHasColumns, Busy, IInv
<1>7. NewUntouched'
  BY <1>2, <1>3, <1>4 DEF NewUntouched, IInv, TypeOK
<1>8. JobFollowsRow'
  <2> SUFFICES ASSUME NEW k \in Tasks, On(k)' = {}, k \notin adrift'
               PROVE  jobs'[k] = Wanted(row'[k])
    BY DEF JobFollowsRow, Wanted
  <2>1. k # i
    BY <1>2 DEF On, Busy
  <2>2. On(k) = {}
    BY <1>3 DEF On, Busy
  <2> QED  BY <2>1, <2>2 DEF IInv, JobFollowsRow
<1>9. AloneKnows'
  <2> SUFFICES ASSUME NEW v \in Threads, Busy(v)', thr'[v].alone
               PROVE  LET k == thr'[v].id
                      IN  /\ \A u \in Threads \ {v} : Busy(u)' => thr'[u].id # k
                          /\ thr'[v].pc = "load" =>
                               /\ \A c \in {"kind", "enabled"} :
                                     c \notin thr'[v].changed => thr'[v].new[c] = row'[k][c]
                               /\ k \notin adrift' => jobs'[k] = Wanted(row'[k])
                          /\ thr'[v].pc # "load" => row'[k] = thr'[v].new
                          /\ thr'[v].pc \in {"sweep", "add"} => jobs'[k] = "none"
    BY DEF AloneKnows, Wanted, Busy
  <2>1. CASE v = t
    <3>1. On(i) = {}
      BY <1>2, <2>1
    <3>2. \A u \in Threads \ {t} : Busy(u)' => thr'[u].id # i
      BY <1>3, <3>1 DEF On, Busy
    <3>3. i \notin adrift => jobs[i] = Wanted(row[i])
      BY <1>4, <3>1 DEF IInv, JobFollowsRow
    <3>4. request.pc = "add" => jobs[i] = "none"
      BY <1>4 DEF IInv, NewUntouched
    <3> QED  BY <1>2, <2>1, <3>2, <3>3, <3>4
  <2>2. CASE v # t
    <3>1. Busy(v) /\ thr[v].alone /\ thr[v].id # i
      BY <1>3, <2>2
    <3>2. thr[v].id \in Tasks
      BY <1>1, <3>1, ThreadType DEF Request
    <3> QED  BY <1>2, <1>3, <2>2, <3>1, <3>2 DEF IInv, AloneKnows
  <2> QED  BY <2>1, <2>2
<1> QED  BY <1>5, <1>6, <1>7, <1>8, <1>9 DEF IInv

LEMMA BeginningsStep ==
    ASSUME IInv, NEW t \in Threads, NEW i \in Tasks, Create(t, i) \/ Load(t, i) \/ Delete(t, i)
    PROVE  IInv'
<1>1. row \in [Tasks -> Rows] /\ thr \in [Threads -> Request \cup {Idle}]
  BY DEF IInv, TypeOK
<1>2. CASE Create(t, i)
  <2>1. PICK kind \in Kinds :
          LET columns == [kind |-> kind, enabled |-> TRUE]
          IN  /\ row' = [row EXCEPT ![i] = columns]
              /\ Begin(t, [pc |-> "add", id |-> i, new |-> columns,
                           alone |-> On(i) = {}, changed |-> {}])
    BY <1>2 DEF Create
  <2> DEFINE columns == [kind |-> kind, enabled |-> TRUE]
             request == [pc |-> "add", id |-> i, new |-> columns, alone |-> On(i) = {},
                         changed |-> {}]
  <2>2. columns \in Columns
    BY DEF Columns
  <2>3. request \in Request
    BY <2>2, NoJob DEF Request, Stage, Rows
  <2>4. row' \in [Tasks -> Rows] /\ row'[i] = columns /\ \A k \in Tasks \ {i} : row'[k] = row[k]
    BY <1>1, <2>1, <2>2 DEF Rows
  <2>5. /\ request.pc = "add" /\ request.id = i /\ request.new = columns
        /\ (request.alone <=> On(i) = {})
    OBVIOUS
  <2>6. Begin(t, request) /\ thr[t].pc = "idle" /\ row[i] = New /\ UNCHANGED <<jobs, adrift>>
    BY <1>2, <2>1 DEF Create
  <2> HIDE DEF request, columns
  <2> QED  BY <2>2, <2>3, <2>4, <2>5, <2>6, NoJob, BeginStep
<1>3. CASE Load(t, i)
  <2>1. PICK columns \in Columns :
          Begin(t, [pc |-> "load", id |-> i, new |-> columns, alone |-> On(i) = {},
                    changed |-> {c \in {"kind", "enabled"} : columns[c] # row[i][c]}])
    BY <1>3 DEF Load
  <2> DEFINE request == [pc |-> "load", id |-> i, new |-> columns, alone |-> On(i) = {},
                         changed |-> {c \in {"kind", "enabled"} : columns[c] # row[i][c]}]
  <2>2. request \in Request
    BY NoJob DEF Request, Stage, Rows
  <2>3. /\ request.pc = "load" /\ request.id = i /\ request.new = columns
        /\ (request.alone <=> On(i) = {})
        /\ \A c \in {"kind", "enabled"} : c \notin request.changed => columns[c] = row[i][c]
    OBVIOUS
  <2>4. /\ Begin(t, request) /\ thr[t].pc = "idle" /\ row[i] \in Columns
        /\ UNCHANGED <<row, jobs, adrift>>
    BY <1>3, <2>1 DEF Load
  <2> HIDE DEF request
  <2> QED  BY <1>1, <2>2, <2>3, <2>4, NoJob, BeginStep
<1>4. CASE Delete(t, i)
  <2> DEFINE request == [pc |-> "remove", id |-> i, new |-> Gone, alone |-> On(i) = {},
                         changed |-> {}]
  <2>1. request \in Request
    BY NoJob DEF Request, Stage, Rows
  <2>2. row' \in [Tasks -> Rows] /\ row'[i] = Gone /\ \A k \in Tasks \ {i} : row'[k] = row[k]
    BY <1>1, <1>4 DEF Delete, Rows
  <2>3. /\ request.pc = "remove" /\ request.id = i /\ request.new = Gone
        /\ (request.alone <=> On(i) = {})
    OBVIOUS
  <2>4. Begin(t, request) /\ thr[t].pc = "idle" /\ UNCHANGED <<jobs, adrift>>
    BY <1>4 DEF Delete
  <2> HIDE DEF request
  <2> QED  BY <2>1, <2>2, <2>3, <2>4, NoJob, BeginStep
<1> QED  BY <1>2, <1>3, <1>4

-----------------------------------------------------------------------------
(* A request moves on, or ends: the jobs of other tasks can only be lost.  *)

LEMMA OwnStep ==
    ASSUME IInv, NEW t \in Threads, Busy(t), NEW i \in Tasks, i = thr[t].id,
           NEW s \in Request \cup {Idle}, thr' = [thr EXCEPT ![t] = s],
           row' \in [Tasks -> Rows], jobs' \in [Tasks -> Kinds \cup {"none"}],
           adrift' \subseteq Tasks,
           \A k \in Tasks \ {i} : /\ row'[k] = row[k] /\ jobs'[k] \in {jobs[k], "none"}
                                  /\ k \notin adrift' => k \notin adrift /\ jobs'[k] = jobs[k],
           row'[i] # New,
           s = Idle => \/ \A u \in Threads \ {t} : Busy(u) => thr[u].id # i
                       \/ i \in adrift',
           s = Idle /\ i \notin adrift' => jobs'[i] = Wanted(row'[i]),
           s \in Request => /\ s.id = i /\ s.pc # "load" /\ (s.alone <=> thr[t].alone)
                            /\ s.alone => /\ row'[i] = s.new
                                          /\ s.pc \in {"sweep", "add"} => jobs'[i] = "none"
    PROVE  IInv'
<1>1. /\ \A u \in Threads \ {t} : thr'[u] = thr[u] /\ (Busy(u)' <=> Busy(u))
      /\ thr'[t] = s /\ thr' \in [Threads -> Request \cup {Idle}]
      /\ Busy(t)' <=> s \in Request
  BY DEF IInv, TypeOK, Busy, Idle, Request, Stage
<1>2. TypeOK'
  BY <1>1 DEF IInv, TypeOK
<1>3. LoadHasColumns'
  BY <1>1 DEF IInv, LoadHasColumns, Idle
<1>4. NewUntouched'
  <2> SUFFICES ASSUME NEW k \in Tasks, row'[k] = New
               PROVE  jobs'[k] = "none" /\ \A u \in Threads : Busy(u)' => thr'[u].id # k
    BY DEF NewUntouched, Busy
  <2>1. k # i /\ row[k] = New
    OBVIOUS
  <2>2. jobs[k] = "none" /\ \A u \in Threads : Busy(u) => thr[u].id # k
    BY <2>1 DEF IInv, NewUntouched
  <2> QED  BY <1>1, <2>1, <2>2
<1>5. JobFollowsRow'
  <2> SUFFICES ASSUME NEW k \in Tasks, On(k)' = {}, k \notin adrift'
               PROVE  jobs'[k] = Wanted(row'[k])
    BY DEF JobFollowsRow, Wanted
  <2>1. CASE k = i
    BY <1>1, <2>1 DEF On, Busy
  <2>2. CASE k # i
    <3>1. On(k) = {}
      BY <1>1, <2>2 DEF On, Busy
    <3> QED  BY <2>2, <3>1 DEF IInv, JobFollowsRow
  <2> QED  BY <2>1, <2>2
<1>6. AloneKnows'
  <2> SUFFICES ASSUME NEW v \in Threads, Busy(v)', thr'[v].alone
               PROVE  LET k == thr'[v].id
                      IN  /\ \A u \in Threads \ {v} : Busy(u)' => thr'[u].id # k
                          /\ thr'[v].pc = "load" =>
                               /\ \A c \in {"kind", "enabled"} :
                                     c \notin thr'[v].changed => thr'[v].new[c] = row'[k][c]
                               /\ k \notin adrift' => jobs'[k] = Wanted(row'[k])
                          /\ thr'[v].pc # "load" => row'[k] = thr'[v].new
                          /\ thr'[v].pc \in {"sweep", "add"} => jobs'[k] = "none"
    BY DEF AloneKnows, Wanted, Busy
  <2>1. CASE v = t
    <3>1. \A u \in Threads \ {t} : Busy(u) => thr[u].id # i
      BY <1>1, <2>1 DEF IInv, AloneKnows
    <3> QED  BY <1>1, <2>1, <3>1
  <2>2. CASE v # t
    <3>1. Busy(v) /\ thr'[v] = thr[v] /\ thr[v].alone
      BY <1>1, <2>2
    <3>2. thr[v].id \in Tasks \ {i}
      BY <2>2, <3>1, ThreadType DEF Request, IInv, AloneKnows
    <3>3. \A u \in Threads \ {v} : Busy(u)' => thr'[u].id # thr[v].id
      BY <1>1, <3>1, <3>2 DEF IInv, AloneKnows
    <3> QED  BY <3>1, <3>2, <3>3 DEF IInv, AloneKnows
  <2> QED  BY <2>1, <2>2
<1> QED  BY <1>2, <1>3, <1>4, <1>5, <1>6 DEF IInv

\* What all the steps below start from.
LEMMA BusyFacts ==
    ASSUME IInv, NEW t \in Threads, Busy(t)
    PROVE  /\ thr[t] \in Request /\ thr[t].id \in Tasks /\ row[thr[t].id] # New
           /\ thr[t].new \in Rows /\ thr[t].alone \in BOOLEAN
           /\ thr[t].alone =>
                \A u \in Threads \ {t} : Busy(u) => thr[u].id # thr[t].id
           /\ row \in [Tasks -> Rows] /\ jobs \in [Tasks -> Kinds \cup {"none"}]
           /\ adrift \subseteq Tasks /\ thr \in [Threads -> Request \cup {Idle}]
<1>1. thr[t] \in Request
  BY ThreadType DEF IInv
<1> QED  BY <1>1 DEF Request, IInv, TypeOK, NewUntouched, AloneKnows

LEMMA CommitStep == ASSUME IInv, NEW t \in Threads, Commit(t) PROVE IInv'
<1> DEFINE i == thr[t].id
           s == [thr[t] EXCEPT !.pc = "audit", !.changed = {}]
<1>1. thr[t].pc = "load" /\ row[i] \in Columns /\ UNCHANGED <<jobs, adrift>>
      /\ row' = [row EXCEPT ![i] = Flush(thr[t], row[i])]
      /\ thr' = [thr EXCEPT ![t] = s]
  BY DEF Commit
<1>2. Busy(t) /\ thr[t].new \in Columns
  BY <1>1 DEF Busy, IInv, LoadHasColumns
<1>3. /\ thr[t] \in Request /\ i \in Tasks /\ row \in [Tasks -> Rows]
      /\ jobs \in [Tasks -> Kinds \cup {"none"}] /\ adrift \subseteq Tasks
  BY <1>2, BusyFacts
<1>4. Flush(thr[t], row[i]) \in Columns
  BY <1>1, <1>2, <1>3, FlushType
<1>5. row' \in [Tasks -> Rows] /\ row'[i] = Flush(thr[t], row[i]) /\ row'[i] # New
      /\ \A k \in Tasks \ {i} : row'[k] = row[k]
  BY <1>1, <1>3, <1>4, NoJob DEF Rows
<1>6. thr[t].alone => Flush(thr[t], row[i]) = thr[t].new
  BY <1>1, <1>2, <1>3, FlushWritesNew DEF IInv, AloneKnows
<1>7. /\ s \in Request /\ s.id = i /\ s.pc = "audit" /\ s.new = thr[t].new
      /\ (s.alone <=> thr[t].alone) /\ s # Idle
  BY <1>3 DEF Request, Stage, Idle
<1> HIDE DEF s
<1> QED  BY <1>1, <1>2, <1>3, <1>5, <1>6, <1>7, OwnStep

LEMMA CommitFailsStep == ASSUME IInv, NEW t \in Threads, CommitFails(t) PROVE IInv'
<1> DEFINE i == thr[t].id
<1>1. thr[t].pc = "load" /\ UNCHANGED <<row, jobs>> /\ thr' = [thr EXCEPT ![t] = Idle]
      /\ adrift' = IF thr[t].alone THEN adrift ELSE adrift \cup {i}
  BY DEF CommitFails
<1>2. Busy(t)
  BY <1>1 DEF Busy
<1>3. thr[t].alone /\ i \notin adrift => jobs[i] = Wanted(row[i])
  BY <1>1, <1>2 DEF IInv, AloneKnows
<1>4. Idle \notin Request
  BY DEF Idle, Request, Stage
<1> QED  BY <1>1, <1>2, <1>3, <1>4, BusyFacts, OwnStep

\* A request breaks off: the task is adrift.
LEMMA BreakStep ==
    ASSUME IInv, NEW t \in Threads, Busy(t), Break(t), UNCHANGED <<row, jobs>>
    PROVE  IInv'
<1> DEFINE i == thr[t].id
<1>1. thr' = [thr EXCEPT ![t] = Idle] /\ adrift' = adrift \cup {i}
  BY DEF Break
<1>2. Idle \notin Request
  BY DEF Idle, Request, Stage
<1>3. adrift' \subseteq Tasks /\ i \in adrift'
  BY <1>1, BusyFacts
<1> QED  BY <1>1, <1>2, <1>3, BusyFacts, OwnStep

LEMMA AuditStep == ASSUME IInv, NEW t \in Threads, Audit(t) PROVE IInv'
<1> DEFINE i == thr[t].id
<1>1. thr[t].pc = "audit" /\ UNCHANGED <<row, jobs>>
  BY DEF Audit
<1>2. Busy(t)
  BY <1>1 DEF Busy
<1>3. thr[t].alone => row[i] = thr[t].new
  BY <1>1, <1>2 DEF IInv, AloneKnows
<1>4. Idle \notin Request
  BY DEF Idle, Request, Stage
<1>5. CASE Goto(t, "remove") /\ UNCHANGED adrift
  <2> DEFINE s == [thr[t] EXCEPT !.pc = "remove"]
  <2>1. /\ s \in Request /\ s.id = i /\ s.pc = "remove" /\ s.new = thr[t].new
        /\ (s.alone <=> thr[t].alone)
    BY <1>2, BusyFacts DEF Request, Stage
  <2>2. thr' = [thr EXCEPT ![t] = s]
    BY <1>5 DEF Goto
  <2> HIDE DEF s
  <2> QED  BY <1>1, <1>2, <1>3, <1>4, <1>5, <2>1, <2>2, BusyFacts, OwnStep
<1>6. CASE /\ row[i] \in Columns /\ UNCHANGED adrift
           /\ thr' = [thr EXCEPT ![t].pc = "remove", ![t].new = row[i]]
  <2> DEFINE s == [thr[t] EXCEPT !.pc = "remove", !.new = row[i]]
  <2>1. /\ s \in Request /\ s.id = i /\ s.pc = "remove" /\ s.new = row[i]
        /\ (s.alone <=> thr[t].alone)
    BY <1>2, <1>6, BusyFacts, NoJob DEF Request, Stage, Rows
  <2>2. thr' = [thr EXCEPT ![t] = s]
    BY <1>2, <1>6, BusyFacts
  <2>3. i = thr[t].id /\ i \in Tasks /\ row' \in [Tasks -> Rows] /\ row'[i] # New
        /\ row' = row /\ adrift \subseteq Tasks
        /\ adrift' = adrift /\ jobs' = jobs /\ jobs \in [Tasks -> Kinds \cup {"none"}]
    BY <1>1, <1>2, <1>6, BusyFacts
  <2> HIDE DEF s, i
  <2> QED  BY <1>2, <1>4, <2>1, <2>2, <2>3, OwnStep
<1>7. CASE Break(t)
  BY <1>1, <1>2, <1>7, BreakStep
<1> QED  BY <1>5, <1>6, <1>7 DEF Audit

LEMMA RemoveStep == ASSUME IInv, NEW t \in Threads, Remove(t) PROVE IInv'
<1> DEFINE i == thr[t].id
           next == IF jobs[i] = "none" THEN "sweep" ELSE "add"
           s == [thr[t] EXCEPT !.pc = next]
<1>1. /\ thr[t].pc = "remove" /\ UNCHANGED <<row, adrift>>
      /\ jobs' = [jobs EXCEPT ![i] = "none"] /\ thr' = [thr EXCEPT ![t] = s]
  BY DEF Remove, Goto
<1>2. Busy(t)
  BY <1>1 DEF Busy
<1>3. thr[t].alone => row[i] = thr[t].new
  BY <1>1, <1>2 DEF IInv, AloneKnows
<1>4. jobs' \in [Tasks -> Kinds \cup {"none"}] /\ jobs'[i] = "none"
      /\ \A k \in Tasks \ {i} : jobs'[k] = jobs[k]
  BY <1>1, <1>2, BusyFacts
<1>5. /\ s \in Request /\ s.id = i /\ s.pc # "load" /\ s.new = thr[t].new
      /\ (s.alone <=> thr[t].alone)
  BY <1>2, BusyFacts DEF Request, Stage
<1>6. i = thr[t].id /\ i \in Tasks /\ row' \in [Tasks -> Rows] /\ row'[i] # New
      /\ row' = row /\ adrift \subseteq Tasks
      /\ adrift' = adrift
  BY <1>1, <1>2, BusyFacts
<1>7. s # Idle /\ thr' = [thr EXCEPT ![t] = s]
  BY <1>1, <1>5 DEF Idle, Request, Stage
<1>8. \A k \in Tasks \ {i} : /\ row'[k] = row[k] /\ jobs'[k] \in {jobs[k], "none"}
                             /\ k \notin adrift' => k \notin adrift /\ jobs'[k] = jobs[k]
  BY <1>4, <1>6
<1>9. thr[t].alone => row'[i] = s.new
  BY <1>3, <1>5, <1>6
<1> HIDE DEF s, i, next
<1> QED  BY <1>2, <1>4, <1>5, <1>6, <1>7, <1>8, <1>9, OwnStep

LEMMA SweepStep == ASSUME IInv, NEW t \in Threads, Sweep(t) PROVE IInv'
<1> DEFINE i == thr[t].id
           lost == {k \in Hits[i] \cup {i} : jobs[k] # "none"}
           s == [thr[t] EXCEPT !.pc = "add"]
<1>1. /\ thr[t].pc = "sweep" /\ UNCHANGED row
      /\ jobs' = [k \in Tasks |-> IF k \in lost THEN "none" ELSE jobs[k]]
      /\ adrift' = adrift \cup (lost \ {i}) /\ thr' = [thr EXCEPT ![t] = s]
  BY DEF Sweep, Goto
<1>2. Busy(t)
  BY <1>1 DEF Busy
<1>3. thr[t].alone => row[i] = thr[t].new
  BY <1>1, <1>2 DEF IInv, AloneKnows
<1>4. lost \subseteq Tasks
  BY <1>2, BusyFacts, HitsAssumption
<1>5. jobs' \in [Tasks -> Kinds \cup {"none"}] /\ jobs'[i] = "none"
      /\ \A k \in Tasks \ {i} : jobs'[k] \in {jobs[k], "none"}
                               /\ (k \notin adrift' => k \notin adrift /\ jobs'[k] = jobs[k])
  BY <1>1, <1>2, BusyFacts
<1>6. /\ s \in Request /\ s.id = i /\ s.pc = "add" /\ s.new = thr[t].new
      /\ (s.alone <=> thr[t].alone)
  BY <1>2, BusyFacts DEF Request, Stage
<1>7. Idle \notin Request
  BY DEF Idle, Request, Stage
<1>8. adrift' \subseteq Tasks
  BY <1>1, <1>2, <1>4, BusyFacts
<1>9. i = thr[t].id /\ i \in Tasks /\ row' \in [Tasks -> Rows] /\ row'[i] # New
      /\ row' = row /\ adrift \subseteq Tasks
  BY <1>1, <1>2, BusyFacts
<1>10. s # Idle /\ thr' = [thr EXCEPT ![t] = s]
  BY <1>1, <1>6, <1>7
<1> HIDE DEF s, lost, i
<1> QED  BY <1>2, <1>3, <1>5, <1>6, <1>8, <1>9, <1>10, OwnStep

LEMMA AddStep == ASSUME IInv, NEW t \in Threads, Add(t) PROVE IInv'
<1> DEFINE i == thr[t].id
           w == Wanted(thr[t].new)
<1>1. /\ thr[t].pc = "add" /\ UNCHANGED row /\ thr' = [thr EXCEPT ![t] = Idle]
      /\ jobs' = IF w = "none" THEN jobs ELSE [jobs EXCEPT ![i] = w]
      /\ adrift' = IF thr[t].alone THEN adrift \ {i} ELSE adrift \cup {i}
  BY DEF Add, Leave
<1>2. Busy(t)
  BY <1>1 DEF Busy
<1>3. w \in Kinds \cup {"none"}
  BY <1>2, BusyFacts, WantedType
<1>4. thr[t].alone => row[i] = thr[t].new /\ jobs[i] = "none"
  BY <1>1, <1>2 DEF IInv, AloneKnows
<1>5. jobs' \in [Tasks -> Kinds \cup {"none"}] /\ (thr[t].alone => jobs'[i] = Wanted(row[i]))
      /\ \A k \in Tasks \ {i} : jobs'[k] = jobs[k]
  BY <1>1, <1>2, <1>3, <1>4, BusyFacts
<1>6. Idle \notin Request
  BY DEF Idle, Request, Stage
<1>7. adrift' \subseteq Tasks /\ \A k \in Tasks \ {i} : k \in adrift' <=> k \in adrift
  BY <1>1, <1>2, BusyFacts
<1>8. thr[t].alone \/ i \in adrift'
  BY <1>1
<1> HIDE DEF w
<1> QED  BY <1>1, <1>2, <1>5, <1>6, <1>7, <1>8, BusyFacts, OwnStep

\* After a restart the jobs are those of the rows.
LEMMA RestartStep == ASSUME IInv, Restart PROVE IInv'
<1>1. row \in [Tasks -> Rows]
  BY DEF IInv, TypeOK
<1>2. /\ row' = row /\ adrift' = {} /\ thr' = [t \in Threads |-> Idle]
      /\ jobs' = [i \in Tasks |-> Wanted(row[i])]
  BY DEF Restart
<1>3. \A t \in Threads : thr'[t] = Idle /\ ~Busy(t)' /\ thr'[t].pc = "idle"
  BY <1>2 DEF Busy, Idle
<1>4. \A i \in Tasks : jobs'[i] = Wanted(row'[i])
  BY <1>2
<1>5. TypeOK'
  BY <1>1, <1>2, WantedType DEF TypeOK
<1>6. JobFollowsRow'
  BY <1>4 DEF JobFollowsRow, Wanted
<1>7. AloneKnows' /\ LoadHasColumns' /\ NewUntouched'
  BY <1>3, <1>4, NoJob DEF AloneKnows, LoadHasColumns, NewUntouched
<1> QED  BY <1>5, <1>6, <1>7 DEF IInv

LEMMA NextIInv == IInv /\ [Next]_vars => IInv'
<1> SUFFICES ASSUME IInv, [Next]_vars PROVE IInv'
  OBVIOUS
<1>1. ASSUME NEW t \in Threads, NEW i \in Tasks, Create(t, i) \/ Load(t, i) \/ Delete(t, i)
      PROVE  IInv'
  BY <1>1, BeginningsStep
<1>2. ASSUME NEW t \in Threads, AddFails(t) PROVE IInv'
  BY <1>2, BreakStep DEF AddFails, Busy
<1>3. ASSUME NEW t \in Threads,
             \/ Commit(t) \/ CommitFails(t) \/ Audit(t) \/ Remove(t) \/ Sweep(t) \/ Add(t)
      PROVE  IInv'
  BY <1>3, CommitStep, CommitFailsStep, AuditStep, RemoveStep, SweepStep, AddStep
<1>4. CASE Restart
  BY <1>4, RestartStep
<1>5. CASE UNCHANGED vars
  BY <1>5 DEF vars, IInv, TypeOK, AloneKnows, LoadHasColumns, NewUntouched, JobFollowsRow,
              Busy, On, Wanted
<1> QED  BY <1>1, <1>2, <1>3, <1>4, <1>5 DEF Next

LEMMA Invariant == Spec => []IInv
<1> QED  BY InitIInv, NextIInv, PTL DEF Spec

-----------------------------------------------------------------------------
\* The columns of every task, its job, and what every request holds stay in
\* their types: a commit of some columns leaves a row with all of them.
THEOREM JobsTypeCorrect == Spec => []TypeOK
<1>1. IInv => TypeOK
  BY DEF IInv
<1> QED  BY Invariant, <1>1, PTL

\* However many requests create, update and delete tasks, fail half-way or take
\* one another's jobs away, and whenever the process restarts: a task that is
\* not adrift, and that nobody is at work on, has the job its columns ask for.
THEOREM JobsFollowRows == Spec => []JobFollowsRow
<1>1. IInv => JobFollowsRow
  BY DEF IInv
<1> QED  BY Invariant, <1>1, PTL

=============================================================================
